---------------------------- MODULE VoucherProofs ----------------------------
(***************************************************************************)
(* The theorems about VoucherReservation, for any vouchers, limits, stacks *)
(* and orders.                                                             *)
(***************************************************************************)
EXTENDS VoucherReservation, FiniteSetTheorems, WellFoundedInduction, TLAPS

Counted == Limited \cup LimitedPerUser

\* The vouchers the transaction of o has dealt with.
Done(o) == Applied[o] \ left[o]

\* A transaction holds the rows of the vouchers it dealt with, and only
\* vouchers of its order.
HoldsItsRows(o) ==
    /\ left[o] \subseteq Applied[o]
    /\ \A v \in Vouchers : lock[v] = o => pc[o] # "idle" /\ v \in Applied[o]
    /\ pc[o] # "idle" => \A v \in Done(o) : lock[v] = o
    /\ pc[o] = "capture" => \A v \in left[o] : lock[v] # o

\* A checkout goes through its vouchers by rank, and until it has counted orders
\* for one of them it has no snapshot; a capture goes through them by id.
GoesInOrder(o) ==
    /\ pc[o] = "checkout" =>
        /\ \A v \in Done(o), w \in left[o] : Rank[v] < Rank[w]
        /\ \A v \in left[o] : lock[v] = o => v \in NextInStack(o)
        /\ Done(o) \cap Counted = {} => snapshot[o] = {None}
    /\ pc[o] = "capture" => \A v \in Done(o), w \in left[o] : Id[v] < Id[w]

\* What the status of an order says of its transaction.
InItsTime(o) ==
    /\ pc[o] = "idle" => snapshot[o] = {None}
    /\ pc[o] = "checkout" => status[o] = "NONE"
    /\ pc[o] = "capture" =>
          \/ status[o] = "PAYMENT_PENDING"
          \/ status[o] = "PAYMENT_FAILED" /\ o \in Revived

Transactions ==
    \A o \in Orders : HoldsItsRows(o) /\ GoesInOrder(o) /\ InItsTime(o)

Active == {o \in Orders : pc[o] # "idle"}
UsingOf(v, u, orders) == {p \in Using(v, orders) : UserOf[p] = u}

\* Redemptions and pending orders fit into the limits of v.
Fits(v) ==
    /\ v \in Limited =>
          redeemed[v] + Cardinality(Using(v, Pending)) <= MaxRedemptions[v]
    /\ v \in LimitedPerUser => \A u \in Users :
          userRedeemed[v][u] + Cardinality(UsingOf(v, u, Pending)) <= MaxPerUser[v]

\* While a checkout that was let through runs, its order still fits.
LetThrough(o) ==
    pc[o] = "checkout" => \A v \in Done(o) \cap CountedFirst : HasRoom(v, o, Pending)

Typed ==
    /\ TypeOK
    /\ snapshot \in [Orders -> SUBSET (Orders \cup {None})]
    /\ IsFiniteSet(Pending) /\ IsFiniteSet(Active)

Room ==
    /\ \A v \in CountedFirst : Fits(v)
    /\ \A o \in Orders : LetThrough(o)

VoucherInv == Typed /\ Transactions /\ Room

-----------------------------------------------------------------------------
(* Transactions *)

\* Ids are numbers, and no two vouchers share one.
LEMMA IdsDiffer ==
    ASSUME NEW v \in Vouchers, NEW w \in Vouchers, v # w
    PROVE  Id[v] \in Nat /\ Id[w] \in Nat /\ Id[v] # Id[w]
  BY ReservationAssumption

\* What no statement of another transaction changes, it keeps true.
LEMMA OthersKeep ==
    ASSUME NEW p \in Orders, HoldsItsRows(p), GoesInOrder(p), InItsTime(p),
           pc'[p] = pc[p], left'[p] = left[p], snapshot'[p] = snapshot[p],
           status'[p] = status[p],
           \A v \in Vouchers : lock'[v] = p <=> lock[v] = p
    PROVE  HoldsItsRows(p)' /\ GoesInOrder(p)' /\ InItsTime(p)'
<1>1. Applied[p] \subseteq Vouchers
  BY ReservationAssumption
<1>2. Done(p)' = Done(p) /\ NextInStack(p)' = NextInStack(p)
  BY DEF Done, NextInStack
<1>3. HoldsItsRows(p)'
  BY <1>1, <1>2 DEF HoldsItsRows, Done
<1>4. GoesInOrder(p)'
  BY <1>1, <1>2 DEF GoesInOrder, HoldsItsRows, Done
<1>5. InItsTime(p)'
  BY DEF InItsTime
<1> QED
  BY <1>3, <1>4, <1>5

\* COMMIT and ROLLBACK leave every other transaction as it is.
LEMMA EndKeeps ==
    ASSUME Typed, Transactions, NEW o \in Orders, EndTransaction(o),
           \A p \in Orders \ {o} : status'[p] = status[p]
    PROVE  /\ pc' \in [Orders -> {"idle", "checkout", "capture"}]
           /\ left' \in [Orders -> SUBSET Vouchers]
           /\ snapshot' \in [Orders -> SUBSET (Orders \cup {None})]
           /\ \A p \in Orders : snapshot'[p] = {None} \/ snapshot'[p] \subseteq Orders
           /\ lock' \in [Vouchers -> Orders \cup {None}]
           /\ IsFiniteSet(Active')
           /\ Transactions'
           /\ pc'[o] = "idle"
           /\ \A p \in Orders \ {o} : pc'[p] = pc[p] /\ Done(p)' = Done(p)
<1> USE DEF Typed, TypeOK
<1>1. /\ pc'[o] = "idle" /\ left'[o] = {} /\ snapshot'[o] = {None}
      /\ \A v \in Vouchers : lock'[v] # o
  BY ReservationAssumption DEF EndTransaction
<1>2. ASSUME NEW p \in Orders, p # o
      PROVE  /\ pc'[p] = pc[p] /\ left'[p] = left[p] /\ snapshot'[p] = snapshot[p]
             /\ \A v \in Vouchers : lock'[v] = p <=> lock[v] = p
  BY <1>2, ReservationAssumption DEF EndTransaction
<1>3. /\ pc' \in [Orders -> {"idle", "checkout", "capture"}]
      /\ left' \in [Orders -> SUBSET Vouchers]
      /\ snapshot' \in [Orders -> SUBSET (Orders \cup {None})]
      /\ lock' \in [Vouchers -> Orders \cup {None}]
  BY DEF EndTransaction
<1>4. \A p \in Orders : snapshot'[p] = {None} \/ snapshot'[p] \subseteq Orders
  BY <1>1, <1>2
<1>5. IsFiniteSet(Active')
  <2>1. Active' \subseteq Active
    BY <1>1, <1>2 DEF Active
  <2> QED
    BY <2>1, FS_Subset
<1>6. Transactions'
  <2>1. HoldsItsRows(o)' /\ GoesInOrder(o)' /\ InItsTime(o)'
    BY <1>1 DEF HoldsItsRows, GoesInOrder, InItsTime
  <2>2. ASSUME NEW p \in Orders, p # o
        PROVE  HoldsItsRows(p)' /\ GoesInOrder(p)' /\ InItsTime(p)'
    BY <1>2, <2>2, OthersKeep DEF Transactions
  <2> QED
    BY <2>1, <2>2 DEF Transactions
<1>7. \A p \in Orders \ {o} : pc'[p] = pc[p] /\ Done(p)' = Done(p)
  BY <1>2 DEF Done
<1> QED
  BY <1>1, <1>3, <1>4, <1>5, <1>6, <1>7

\* The row of an order changes only at the COMMIT of its own transaction, or
\* while it has none.
LEMMA TypedKept ==
    ASSUME VoucherInv, [Next]_vars
    PROVE  Typed'
<1> USE DEF VoucherInv, Typed, TypeOK
<1>1. CASE UNCHANGED vars
  BY <1>1 DEF vars, counters, Pending, Active
<1>2. ASSUME NEW o \in Orders, BeginCheckout(o) \/ BeginCapture(o)
      PROVE  Typed'
  <2>1. /\ pc' \in [Orders -> {"idle", "checkout", "capture"}]
        /\ left' \in [Orders -> SUBSET Vouchers]
        /\ UNCHANGED <<status, snapshot, lock, redeemed, userRedeemed>>
    <3>1. Applied[o] \in SUBSET Vouchers
      BY ReservationAssumption
    <3> QED
      BY <1>2, <3>1 DEF BeginCheckout, BeginCapture, counters
  <2>2. Active' \subseteq Active \cup {o}
    BY <1>2 DEF BeginCheckout, BeginCapture, Active
  <2>3. IsFiniteSet(Active')
    <3>1. IsFiniteSet(Active \cup {o})
      BY FS_AddElement
    <3> QED
      BY <2>2, <3>1, FS_Subset
  <2>4. Pending' = Pending
    BY <2>1 DEF Pending
  <2> QED
    BY <2>1, <2>3, <2>4
<1>3. ASSUME NEW o \in Orders, LockVoucher(o)
      PROVE  Typed'
  <2>1. /\ lock' \in [Vouchers -> Orders \cup {None}]
        /\ UNCHANGED <<status, pc, left, snapshot, redeemed, userRedeemed>>
    BY <1>3 DEF LockVoucher, counters
  <2>2. Pending' = Pending /\ Active' = Active
    BY <2>1 DEF Pending, Active
  <2> QED
    BY <2>1, <2>2
<1>4. ASSUME NEW o \in Orders, Rollback(o)
      PROVE  Typed'
  <2>1. EndTransaction(o) /\ UNCHANGED <<status, redeemed, userRedeemed>>
    BY <1>4 DEF Rollback, counters
  <2>2. Pending' = Pending
    BY <2>1 DEF Pending
  <2> QED
    BY <2>1, <2>2, EndKeeps
<1>5. ASSUME NEW o \in Orders, CheckLimits(o)
      PROVE  Typed'
  <2>1. CASE Rollback(o)
    BY <1>4, <2>1
  <2>2. CASE \E v \in left[o] :
                /\ left' = [left EXCEPT ![o] = @ \ {v}]
                /\ snapshot' = [snapshot EXCEPT ![o] =
                      IF v \in Limited \cup LimitedPerUser THEN Seen(o) ELSE @]
                /\ UNCHANGED <<status, pc, lock, counters>>
    <3>1. Seen(o) \subseteq Orders
      BY DEF Seen, Pending
    <3>2. /\ left' \in [Orders -> SUBSET Vouchers]
          /\ snapshot' \in [Orders -> SUBSET (Orders \cup {None})]
          /\ UNCHANGED <<status, pc, lock, redeemed, userRedeemed>>
      BY <2>2, <3>1 DEF counters
    <3>3. \A p \in Orders : snapshot'[p] = {None} \/ snapshot'[p] \subseteq Orders
      BY <2>2, <3>1
    <3>4. Pending' = Pending /\ Active' = Active
      BY <3>2 DEF Pending, Active
    <3> QED
      BY <3>2, <3>3, <3>4
  <2> QED
    BY <1>5, <2>1, <2>2 DEF CheckLimits
<1>6. ASSUME NEW o \in Orders, CommitCheckout(o)
      PROVE  Typed'
  <2>1. /\ EndTransaction(o) /\ UNCHANGED <<redeemed, userRedeemed>>
        /\ status' = [status EXCEPT ![o] = "PAYMENT_PENDING"]
    BY <1>6 DEF CommitCheckout, counters
  <2>2. /\ status' \in [Orders ->
              {"NONE", "PAYMENT_PENDING", "READY_TO_COLLECT", "PAYMENT_FAILED"}]
        /\ \A p \in Orders \ {o} : status'[p] = status[p]
    BY <2>1
  <2>3. Pending' \subseteq Pending \cup {o}
    BY <2>1 DEF Pending
  <2>4. IsFiniteSet(Pending')
    <3>1. IsFiniteSet(Pending \cup {o})
      BY FS_AddElement
    <3> QED
      BY <2>3, <3>1, FS_Subset
  <2> QED
    BY <2>1, <2>2, <2>4, EndKeeps
<1>7. ASSUME NEW o \in Orders, PaymentRefused(o)
      PROVE  Typed'
  <2>1. /\ status' = [status EXCEPT ![o] = "PAYMENT_FAILED"]
        /\ UNCHANGED <<pc, left, snapshot, lock, redeemed, userRedeemed>>
    BY <1>7 DEF PaymentRefused, counters
  <2>2. Pending' \subseteq Pending /\ Active' = Active
    BY <2>1 DEF Pending, Active
  <2>3. IsFiniteSet(Pending')
    BY <2>2, FS_Subset
  <2> QED
    BY <2>1, <2>2, <2>3
<1>8. ASSUME NEW o \in Orders, RedeemVoucher(o)
      PROVE  Typed'
  <2>1. CASE Rollback(o)
    BY <1>4, <2>1
  <2>2. CASE \E v \in NextInJoin(o) :
                /\ lock' = [lock EXCEPT ![v] = o]
                /\ left' = [left EXCEPT ![o] = @ \ {v}]
                /\ UNCHANGED <<status, pc, snapshot, counters>>
    <3>1. /\ left' \in [Orders -> SUBSET Vouchers]
          /\ lock' \in [Vouchers -> Orders \cup {None}]
          /\ UNCHANGED <<status, pc, snapshot, redeemed, userRedeemed>>
      BY <2>2 DEF counters, NextInJoin
    <3>2. Pending' = Pending /\ Active' = Active
      BY <3>1 DEF Pending, Active
    <3> QED
      BY <3>1, <3>2
  <2> QED
    BY <1>8, <2>1, <2>2 DEF RedeemVoucher
<1>9. ASSUME NEW o \in Orders, CommitCapture(o)
      PROVE  Typed'
  <2>1. /\ EndTransaction(o)
        /\ status' = [status EXCEPT ![o] = "READY_TO_COLLECT"]
    BY <1>9 DEF CommitCapture
  <2>2. /\ status' \in [Orders ->
              {"NONE", "PAYMENT_PENDING", "READY_TO_COLLECT", "PAYMENT_FAILED"}]
        /\ \A p \in Orders \ {o} : status'[p] = status[p]
    BY <2>1
  <2>3. redeemed' \in [Vouchers -> Nat]
    BY <1>9 DEF CommitCapture
  <2>4. userRedeemed' \in [Vouchers -> [Users -> Nat]]
    BY <1>9 DEF CommitCapture
  <2>5. Pending' \subseteq Pending
    BY <2>1 DEF Pending
  <2>6. IsFiniteSet(Pending')
    BY <2>5, FS_Subset
  <2> QED
    BY <2>1, <2>2, <2>3, <2>4, <2>6, EndKeeps
<1> QED
  BY <1>1, <1>2, <1>3, <1>4, <1>5, <1>6, <1>7, <1>8, <1>9 DEF Next, Abort

LEMMA TransactionsKept ==
    ASSUME VoucherInv, [Next]_vars
    PROVE  Transactions'
<1> USE DEF VoucherInv, Typed, TypeOK
<1> DEFINE Quiet(o) ==
       \A p \in Orders \ {o} :
           /\ pc'[p] = pc[p] /\ left'[p] = left[p] /\ snapshot'[p] = snapshot[p]
           /\ status'[p] = status[p]
           /\ \A v \in Vouchers : lock'[v] = p <=> lock[v] = p
<1>1. ASSUME NEW o \in Orders, Quiet(o),
             HoldsItsRows(o)', GoesInOrder(o)', InItsTime(o)'
      PROVE  Transactions'
  <2>1. ASSUME NEW p \in Orders, p # o
        PROVE  HoldsItsRows(p)' /\ GoesInOrder(p)' /\ InItsTime(p)'
    BY <1>1, <2>1, OthersKeep DEF Transactions
  <2> QED
    BY <1>1, <2>1 DEF Transactions
<1>2. CASE UNCHANGED vars
  <2>1. UNCHANGED <<status, pc, left, snapshot, lock>>
    BY <1>2 DEF vars
  <2>2. ASSUME NEW p \in Orders
        PROVE  HoldsItsRows(p)' /\ GoesInOrder(p)' /\ InItsTime(p)'
    BY <2>1, OthersKeep DEF Transactions
  <2> QED
    BY <2>2 DEF Transactions
<1>3. ASSUME NEW o \in Orders, BeginCheckout(o) \/ BeginCapture(o)
      PROVE  Transactions'
  <2>1. /\ pc[o] = "idle" /\ pc'[o] \in {"checkout", "capture"}
        /\ left'[o] = Applied[o]
        /\ UNCHANGED <<status, snapshot, lock>>
    BY <1>3 DEF BeginCheckout, BeginCapture
  <2>2. Quiet(o)
    BY <1>3 DEF BeginCheckout, BeginCapture
  <2>3. \A v \in Vouchers : lock'[v] # o
    BY <2>1 DEF Transactions, HoldsItsRows
  <2>4. HoldsItsRows(o)'
    BY <2>1, <2>3, ReservationAssumption DEF HoldsItsRows, Done
  <2>5. GoesInOrder(o)'
    BY <2>1, <2>3, ReservationAssumption DEF GoesInOrder, Done, Transactions, InItsTime
  <2>6. InItsTime(o)'
    BY <1>3 DEF BeginCheckout, BeginCapture, InItsTime
  <2> QED
    BY <1>1, <2>2, <2>4, <2>5, <2>6
<1>4. ASSUME NEW o \in Orders, LockVoucher(o)
      PROVE  Transactions'
  <2>1. PICK w \in NextInStack(o) :
            lock[w] = None /\ lock' = [lock EXCEPT ![w] = o]
    BY <1>4 DEF LockVoucher
  <2>2. /\ UNCHANGED <<status, pc, left, snapshot>>
        /\ pc[o] = "checkout" /\ \A v \in left[o] : lock[v] # o
    BY <1>4 DEF LockVoucher
  <2>3. Quiet(o)
    BY <2>1, <2>2, ReservationAssumption
  <2>4. HoldsItsRows(o) /\ GoesInOrder(o) /\ InItsTime(o)
    BY DEF Transactions
  <2>5. w \in left[o] /\ w \in Vouchers /\ Done(o)' = Done(o) /\ Done(o) \subseteq Vouchers
    BY <2>1, <2>2, ReservationAssumption DEF NextInStack, Done
  <2>6. HoldsItsRows(o)'
    BY <2>1, <2>2, <2>4, <2>5 DEF HoldsItsRows
  <2>7. GoesInOrder(o)'
    BY <2>1, <2>2, <2>4, <2>5 DEF GoesInOrder, NextInStack
  <2>8. InItsTime(o)'
    BY <2>2, <2>4 DEF InItsTime
  <2> QED
    BY <1>1, <2>3, <2>6, <2>7, <2>8
<1>5. ASSUME NEW o \in Orders, Rollback(o) \/ CommitCheckout(o) \/ CommitCapture(o)
      PROVE  Transactions'
  <2>1. EndTransaction(o) /\ \A p \in Orders \ {o} : status'[p] = status[p]
    BY <1>5 DEF Rollback, CommitCheckout, CommitCapture
  <2> QED
    BY <2>1, EndKeeps
<1>6. ASSUME NEW o \in Orders, CheckLimits(o)
      PROVE  Transactions'
  <2>1. CASE Rollback(o)
    BY <1>5, <2>1
  <2>2. CASE \E v \in left[o] :
                /\ lock[v] = o
                /\ left' = [left EXCEPT ![o] = @ \ {v}]
                /\ snapshot' = [snapshot EXCEPT ![o] =
                      IF v \in Limited \cup LimitedPerUser THEN Seen(o) ELSE @]
                /\ UNCHANGED <<status, pc, lock, counters>>
    <3>1. PICK w \in left[o] :
              /\ lock[w] = o
              /\ left' = [left EXCEPT ![o] = @ \ {w}]
              /\ snapshot' = [snapshot EXCEPT ![o] =
                    IF w \in Limited \cup LimitedPerUser THEN Seen(o) ELSE @]
              /\ UNCHANGED <<status, pc, lock>>
      BY <2>2
    <3>2. HoldsItsRows(o) /\ GoesInOrder(o) /\ InItsTime(o) /\ pc[o] = "checkout"
      BY <1>6 DEF Transactions, CheckLimits
    <3>3. /\ w \in Applied[o] /\ left'[o] = left[o] \ {w}
          /\ Done(o)' = Done(o) \cup {w}
      BY <3>1, <3>2 DEF HoldsItsRows, Done
    <3>4. Quiet(o)
      BY <3>1
    <3>5. HoldsItsRows(o)'
      BY <3>1, <3>2, <3>3 DEF HoldsItsRows
    <3>6. \A u \in left[o] \ {w} : Rank[w] < Rank[u] /\ lock[u] # o
      <4> SUFFICES ASSUME NEW u \in left[o], u # w
                   PROVE  Rank[w] < Rank[u] /\ lock[u] # o
        OBVIOUS
      <4>1. /\ u \in Vouchers /\ w \in Vouchers
            /\ Rank[u] \in Nat /\ Rank[w] \in Nat /\ Rank[u] # Rank[w]
        BY ReservationAssumption
      <4>2. w \in NextInStack(o) /\ (lock[u] = o => u \in NextInStack(o))
        BY <3>1, <3>2 DEF GoesInOrder
      <4>3. Rank[w] <= Rank[u] /\ (lock[u] = o => Rank[u] <= Rank[w])
        BY <4>2 DEF NextInStack
      <4>0. \A a, b \in Nat : a <= b /\ a # b => a < b /\ ~(b <= a)
        OBVIOUS
      <4>4. Rank[w] < Rank[u] /\ ~(Rank[u] <= Rank[w])
        BY <4>0, <4>1, <4>3, Zenon
      <4>5. lock[u] # o
        BY <4>3, <4>4
      <4> QED
        BY <4>4, <4>5
    <3>7. GoesInOrder(o)'
      <4>1. \A v \in Done(o)', u \in left'[o] : Rank[v] < Rank[u]
        BY <3>2, <3>3, <3>6 DEF GoesInOrder
      <4>2. \A u \in left'[o] : lock'[u] # o
        BY <3>1, <3>3, <3>6
      <4>3. Done(o)' \cap Counted = {} => snapshot'[o] = {None}
        BY <3>1, <3>2, <3>3 DEF GoesInOrder, Counted
      <4> QED
        BY <3>1, <3>2, <4>1, <4>2, <4>3 DEF GoesInOrder
    <3>8. InItsTime(o)'
      BY <3>1, <3>2 DEF InItsTime
    <3> QED
      BY <1>1, <3>4, <3>5, <3>7, <3>8
  <2> QED
    BY <1>6, <2>1, <2>2 DEF CheckLimits
<1>7. ASSUME NEW o \in Orders, PaymentRefused(o)
      PROVE  Transactions'
  <2>1. /\ UNCHANGED <<pc, left, snapshot, lock>> /\ pc[o] = "idle"
        /\ status' = [status EXCEPT ![o] = "PAYMENT_FAILED"]
    BY <1>7 DEF PaymentRefused
  <2>2. Quiet(o)
    BY <2>1
  <2>3. HoldsItsRows(o) /\ GoesInOrder(o) /\ InItsTime(o) /\ Done(o)' = Done(o)
    BY <2>1 DEF Transactions, Done
  <2>4. HoldsItsRows(o)' /\ GoesInOrder(o)' /\ InItsTime(o)'
    BY <2>1, <2>3 DEF HoldsItsRows, GoesInOrder, InItsTime
  <2> QED
    BY <1>1, <2>2, <2>4
<1>8. ASSUME NEW o \in Orders, RedeemVoucher(o)
      PROVE  Transactions'
  <2>1. CASE Rollback(o)
    BY <1>5, <2>1
  <2>2. CASE \E v \in NextInJoin(o) :
                /\ lock[v] = None
                /\ lock' = [lock EXCEPT ![v] = o]
                /\ left' = [left EXCEPT ![o] = @ \ {v}]
                /\ UNCHANGED <<status, pc, snapshot, counters>>
    <3>1. PICK w \in NextInJoin(o) :
              /\ lock[w] = None
              /\ lock' = [lock EXCEPT ![w] = o]
              /\ left' = [left EXCEPT ![o] = @ \ {w}]
              /\ UNCHANGED <<status, pc, snapshot>>
      BY <2>2
    <3>2. HoldsItsRows(o) /\ GoesInOrder(o) /\ InItsTime(o) /\ pc[o] = "capture"
      BY <1>8 DEF Transactions, RedeemVoucher
    <3>3. /\ w \in Applied[o] /\ w \in Vouchers /\ left'[o] = left[o] \ {w}
          /\ Done(o)' = Done(o) \cup {w}
      BY <3>1, <3>2, ReservationAssumption DEF HoldsItsRows, Done, NextInJoin
    <3>4. Quiet(o)
      BY <3>1, <3>3, ReservationAssumption
    <3>5. Applied[o] \subseteq Vouchers
      BY ReservationAssumption
    <3>6. HoldsItsRows(o)'
      BY <3>1, <3>2, <3>3, <3>5 DEF HoldsItsRows, Done
    <3>7. GoesInOrder(o)'
      <4>1. \A u \in left[o] \ {w} : Id[w] < Id[u]
        <5> SUFFICES ASSUME NEW u \in left[o], w # u
                     PROVE  Id[w] < Id[u]
          OBVIOUS
        <5>1. Id[w] \in Nat /\ Id[u] \in Nat /\ Id[w] # Id[u]
          <6>1. u \in Vouchers /\ w \in Vouchers
            BY <3>3
          <6> QED
            BY <6>1, IdsDiffer, Zenon
        <5>2. Id[w] <= Id[u]
          BY <3>1 DEF NextInJoin
        <5>3. \A a, b \in Nat : a <= b /\ a # b => a < b
          OBVIOUS
        <5> QED
          BY <5>1, <5>2, <5>3, Zenon
      <4>2. w \in left[o]
        BY <3>1 DEF NextInJoin
      <4>3. \A v \in Done(o)', u \in left'[o] : Id[v] < Id[u]
        BY <3>2, <3>3, <4>1, <4>2 DEF GoesInOrder
      <4> QED
        BY <3>1, <3>2, <4>3 DEF GoesInOrder
    <3>8. InItsTime(o)'
      BY <3>1, <3>2 DEF InItsTime
    <3> QED
      BY <1>1, <3>4, <3>6, <3>7, <3>8
  <2> QED
    BY <1>8, <2>1, <2>2 DEF RedeemVoucher
<1> QED
  BY <1>2, <1>3, <1>4, <1>5, <1>6, <1>7, <1>8 DEF Next, Abort

-----------------------------------------------------------------------------
(* Room *)

LEMMA UsingFinite ==
    ASSUME NEW S \in SUBSET Orders, IsFiniteSet(S), NEW v, NEW u
    PROVE  /\ IsFiniteSet(Using(v, S)) /\ Cardinality(Using(v, S)) \in Nat
           /\ IsFiniteSet(UsingOf(v, u, S)) /\ Cardinality(UsingOf(v, u, S)) \in Nat
<1>1. Using(v, S) \subseteq S /\ UsingOf(v, u, S) \subseteq S
  BY DEF Using, UsingOf
<1>2. IsFiniteSet(Using(v, S)) /\ IsFiniteSet(UsingOf(v, u, S))
  BY <1>1, FS_Subset
<1> QED
  BY <1>2, FS_CardinalityType

\* One more order that uses v counts once, and once for its user.
LEMMA OneMore ==
    ASSUME NEW S \in SUBSET Orders, IsFiniteSet(S), NEW o \in Orders, o \notin S,
           NEW v, v \in Applied[o], NEW u
    PROVE  /\ Cardinality(Using(v, S \cup {o})) = Cardinality(Using(v, S)) + 1
           /\ Cardinality(UsingOf(v, u, S \cup {o}))
                  = Cardinality(UsingOf(v, u, S)) + (IF u = UserOf[o] THEN 1 ELSE 0)
<1>1. Using(v, S \cup {o}) = Using(v, S) \cup {o} /\ o \notin Using(v, S)
  BY DEF Using
<1>2. Cardinality(Using(v, S \cup {o})) = Cardinality(Using(v, S)) + 1
  BY <1>1, UsingFinite, FS_AddElement
<1>3. CASE u = UserOf[o]
  <2>1. /\ UsingOf(v, u, S \cup {o}) = UsingOf(v, u, S) \cup {o}
        /\ o \notin UsingOf(v, u, S)
    BY <1>1, <1>3 DEF UsingOf
  <2>2. Cardinality(UsingOf(v, u, S \cup {o})) = Cardinality(UsingOf(v, u, S)) + 1
    BY <2>1, UsingFinite, FS_AddElement
  <2> QED
    BY <1>2, <1>3, <2>2
<1>4. CASE u # UserOf[o]
  <2>1. UsingOf(v, u, S \cup {o}) = UsingOf(v, u, S)
    BY <1>1, <1>4 DEF UsingOf
  <2>2. Cardinality(UsingOf(v, u, S)) \in Nat
    BY UsingFinite
  <2> QED
    BY <1>2, <1>4, <2>1, <2>2
<1> QED
  BY <1>3, <1>4

\* A voucher whose counts stay, and which no further order comes to use.
LEMMA StillFits ==
    ASSUME Typed, Typed', NEW v \in Vouchers,
           redeemed'[v] = redeemed[v], userRedeemed'[v] = userRedeemed[v],
           Using(v, Pending)' \subseteq Using(v, Pending)
    PROVE  /\ Fits(v) => Fits(v)'
           /\ \A o \in Orders : HasRoom(v, o, Pending) => HasRoom(v, o, Pending)'
<1>1. Pending \in SUBSET Orders /\ Pending' \in SUBSET Orders
  BY DEF Pending
<1>2. IsFiniteSet(Pending) /\ IsFiniteSet(Pending')
  BY DEF Typed
<1>3. /\ Cardinality(Using(v, Pending)) \in Nat
      /\ Cardinality(Using(v, Pending')) \in Nat
      /\ Cardinality(Using(v, Pending')) <= Cardinality(Using(v, Pending))
  <2>1. Using(v, Pending') \subseteq Using(v, Pending) /\ IsFiniteSet(Using(v, Pending))
    BY <1>1, <1>2, UsingFinite DEF Using
  <2> QED
    BY <1>1, <1>2, <2>1, UsingFinite, FS_Subset
<1>4. ASSUME NEW u
      PROVE  /\ Cardinality(UsingOf(v, u, Pending)) \in Nat
             /\ Cardinality(UsingOf(v, u, Pending')) \in Nat
             /\ Cardinality(UsingOf(v, u, Pending')) <= Cardinality(UsingOf(v, u, Pending))
  <2>1. /\ UsingOf(v, u, Pending') \subseteq UsingOf(v, u, Pending)
        /\ IsFiniteSet(UsingOf(v, u, Pending))
    <3>1. UsingOf(v, u, Pending') \subseteq UsingOf(v, u, Pending)
      BY DEF Using, UsingOf
    <3> QED
      BY <1>1, <1>2, <3>1, UsingFinite
  <2> QED
    BY <1>1, <1>2, <2>1, UsingFinite, FS_Subset
<1>5. /\ redeemed[v] \in Nat /\ MaxRedemptions[v] \in Nat /\ MaxPerUser[v] \in Nat
      /\ \A u \in Users : userRedeemed[v][u] \in Nat
  BY ReservationAssumption DEF Typed, TypeOK
<1>6. Fits(v) => Fits(v)'
  BY <1>3, <1>4, <1>5 DEF Fits
<1>7. ASSUME NEW o \in Orders, HasRoom(v, o, Pending)
      PROVE  HasRoom(v, o, Pending)'
  <2>1. UserOf[o] \in Users
    BY ReservationAssumption
  <2>2. /\ Cardinality(UsingOf(v, UserOf[o], Pending)) \in Nat
        /\ Cardinality(UsingOf(v, UserOf[o], Pending')) \in Nat
        /\ Cardinality(UsingOf(v, UserOf[o], Pending'))
              <= Cardinality(UsingOf(v, UserOf[o], Pending))
    BY <1>4
  <2> QED
    BY <1>3, <1>5, <1>7, <2>1, <2>2 DEF HasRoom, UsingOf
<1> QED
  BY <1>6, <1>7

\* Statements that decide no payment let orders through one by one.
LEMMA QuietRoom ==
    ASSUME VoucherInv, Typed', UNCHANGED <<status, redeemed, userRedeemed>>,
           \A p \in Orders : pc'[p] = "checkout" =>
               \A v \in Done(p)' \cap CountedFirst :
                   (pc[p] = "checkout" /\ v \in Done(p)) \/ HasRoom(v, p, Pending)
    PROVE  Room'
<1>1. \A v \in CountedFirst : v \in Vouchers
  BY DEF CountedFirst
<1>2. \A v : Using(v, Pending)' = Using(v, Pending)
  BY DEF Using, Pending
<1>3. ASSUME NEW v \in CountedFirst
      PROVE  /\ Fits(v)'
             /\ \A o \in Orders : HasRoom(v, o, Pending) => HasRoom(v, o, Pending)'
  BY <1>1, <1>2, StillFits DEF VoucherInv, Room
<1>4. ASSUME NEW p \in Orders
      PROVE  LetThrough(p)'
  <2> SUFFICES ASSUME pc'[p] = "checkout", NEW v \in Done(p)' \cap CountedFirst
               PROVE  HasRoom(v, p, Pending)'
    BY DEF LetThrough, CountedFirst
  <2>1. HasRoom(v, p, Pending)
    BY DEF VoucherInv, Room, LetThrough
  <2> QED
    BY <1>3, <2>1
<1> QED
  BY <1>3, <1>4 DEF Room, CountedFirst

\* COMMIT of a checkout: the order now pends, and it was let through for each
\* of its vouchers, which nobody else can have counted since.
LEMMA CheckoutKeepsRoom ==
    ASSUME VoucherInv, Typed', NEW o \in Orders, CommitCheckout(o)
    PROVE  Room'
<1> USE DEF VoucherInv
<1>1. /\ status[o] = "NONE" /\ left[o] = {} /\ pc[o] = "checkout"
      /\ \A v \in Applied[o] : lock[v] = o
      /\ Done(o) = Applied[o]
  BY DEF CommitCheckout, Transactions, InItsTime, HoldsItsRows, Done
<1>2. /\ EndTransaction(o) /\ UNCHANGED <<redeemed, userRedeemed>>
      /\ status' = [status EXCEPT ![o] = "PAYMENT_PENDING"]
  BY DEF CommitCheckout, counters
<1>3. o \notin Pending /\ Pending' = Pending \cup {o}
  BY <1>1, <1>2 DEF Pending, Typed, TypeOK
<1>4. Pending \in SUBSET Orders /\ IsFiniteSet(Pending)
  BY DEF Pending, Typed
<1>5. ASSUME NEW v \in CountedFirst, v \notin Applied[o]
      PROVE  /\ Fits(v)'
             /\ \A p \in Orders : HasRoom(v, p, Pending) => HasRoom(v, p, Pending)'
  <2>1. v \in Vouchers /\ Fits(v)
    BY DEF CountedFirst, Room
  <2>2. Using(v, Pending)' \subseteq Using(v, Pending)
    BY <1>3, <1>5 DEF Using
  <2> QED
    BY <1>2, <2>1, <2>2, StillFits
<1>6. ASSUME NEW v \in CountedFirst, v \in Applied[o]
      PROVE  Fits(v)'
  <2>1. HasRoom(v, o, Pending)
    BY <1>1, <1>6 DEF Room, LetThrough
  <2>2. /\ v \in Vouchers /\ redeemed[v] \in Nat /\ MaxRedemptions[v] \in Nat
        /\ MaxPerUser[v] \in Nat /\ \A u \in Users : userRedeemed[v][u] \in Nat
    BY ReservationAssumption DEF CountedFirst, Typed, TypeOK
  <2>3. /\ Cardinality(Using(v, Pending)) \in Nat
        /\ Cardinality(Using(v, Pending')) = Cardinality(Using(v, Pending)) + 1
    BY <1>3, <1>4, <1>6, UsingFinite, OneMore
  <2>4. v \in Limited => redeemed'[v] + Cardinality(Using(v, Pending')) <= MaxRedemptions[v]
    BY <1>2, <2>1, <2>2, <2>3 DEF HasRoom
  <2>5. ASSUME v \in LimitedPerUser, NEW u \in Users
        PROVE  userRedeemed'[v][u] + Cardinality(UsingOf(v, u, Pending')) <= MaxPerUser[v]
    <3>1. /\ Cardinality(UsingOf(v, u, Pending)) \in Nat
          /\ Cardinality(UsingOf(v, u, Pending'))
                = Cardinality(UsingOf(v, u, Pending)) + (IF u = UserOf[o] THEN 1 ELSE 0)
      BY <1>3, <1>4, <1>6, UsingFinite, OneMore
    <3>2. CASE u = UserOf[o]
      <4>1. userRedeemed[v][u] + Cardinality(UsingOf(v, u, Pending)) < MaxPerUser[v]
        BY <2>1, <2>5, <3>2 DEF HasRoom, UsingOf
      <4> QED
        BY <1>2, <2>2, <3>1, <3>2, <4>1
    <3>3. CASE u # UserOf[o]
      <4>1. userRedeemed[v][u] + Cardinality(UsingOf(v, u, Pending)) <= MaxPerUser[v]
        BY <2>5 DEF Room, Fits
      <4> QED
        BY <1>2, <2>2, <3>1, <3>3, <4>1
    <3> QED
      BY <3>2, <3>3
  <2> QED
    BY <2>4, <2>5 DEF Fits
<1>7. ASSUME NEW p \in Orders
      PROVE  LetThrough(p)'
  <2> SUFFICES ASSUME pc'[p] = "checkout", NEW v \in Done(p)' \cap CountedFirst
               PROVE  HasRoom(v, p, Pending)'
    BY DEF LetThrough, CountedFirst
  <2>1. p # o /\ pc[p] = "checkout" /\ v \in Done(p)
    BY <1>2, EndKeeps
  <2>2. v \notin Applied[o] /\ HasRoom(v, p, Pending)
    BY <1>1, <2>1 DEF Transactions, HoldsItsRows, Room, LetThrough
  <2> QED
    BY <1>5, <2>2
<1> QED
  BY <1>5, <1>6, <1>7 DEF Room, CountedFirst

\* COMMIT of a capture: what the order had reserved is now redeemed.
LEMMA CaptureKeepsRoom ==
    ASSUME VoucherInv, Typed', NEW o \in Orders, CommitCapture(o)
    PROVE  Room'
<1> USE DEF VoucherInv
<1>1. /\ left[o] = {} /\ pc[o] = "capture" /\ EndTransaction(o)
      /\ \A v \in Applied[o] : lock[v] = o
      /\ status[o] = "PAYMENT_PENDING" \/ o \in Revived
      /\ status' = [status EXCEPT ![o] = "READY_TO_COLLECT"]
  BY DEF CommitCapture, Transactions, InItsTime, HoldsItsRows, Done
<1>2. Pending' = Pending \ {o}
  BY <1>1 DEF Pending, Typed, TypeOK
<1>3. Pending \in SUBSET Orders /\ IsFiniteSet(Pending)
  BY DEF Pending, Typed
<1>4. ASSUME NEW v \in CountedFirst, v \notin Applied[o]
      PROVE  /\ Fits(v)'
             /\ \A p \in Orders : HasRoom(v, p, Pending) => HasRoom(v, p, Pending)'
  <2>1. v \in Vouchers /\ Fits(v)
    BY DEF CountedFirst, Room
  <2>2. Using(v, Pending)' \subseteq Using(v, Pending)
    BY <1>2 DEF Using
  <2>3. redeemed'[v] = redeemed[v]
    BY <1>4, <2>1 DEF CommitCapture, Typed, TypeOK
  <2>4. userRedeemed'[v] = userRedeemed[v]
    <3>1. userRedeemed'[v] = [u \in Users |-> userRedeemed[v][u] + 0]
      BY <1>4, <2>1 DEF CommitCapture
    <3>2. userRedeemed[v] \in [Users -> Nat]
      BY <2>1 DEF Typed, TypeOK
    <3> QED
      BY <3>1, <3>2
  <2> QED
    BY <2>1, <2>2, <2>3, <2>4, StillFits
<1>5. ASSUME NEW v \in CountedFirst, v \in Applied[o]
      PROVE  Fits(v)'
  <2>1. v \in Vouchers /\ Fits(v) /\ o \in Pending
    BY <1>1, <1>5 DEF CountedFirst, Room, Pending
  <2>2. /\ redeemed[v] \in Nat /\ MaxRedemptions[v] \in Nat /\ MaxPerUser[v] \in Nat
        /\ redeemed'[v] = redeemed[v] + 1
        /\ \A u \in Users :
              /\ userRedeemed[v][u] \in Nat
              /\ userRedeemed'[v][u]
                    = userRedeemed[v][u] + (IF u = UserOf[o] THEN 1 ELSE 0)
    BY <1>5, <2>1, ReservationAssumption DEF CommitCapture, Typed, TypeOK
  <2>3. /\ Pending' \in SUBSET Orders /\ IsFiniteSet(Pending') /\ o \notin Pending'
        /\ Pending = Pending' \cup {o}
    BY <1>2, <1>3, <2>1 DEF Typed
  <2>4. /\ Cardinality(Using(v, Pending')) \in Nat
        /\ Cardinality(Using(v, Pending)) = Cardinality(Using(v, Pending')) + 1
    BY <1>5, <2>3, UsingFinite, OneMore
  <2>5. \A u : /\ Cardinality(UsingOf(v, u, Pending')) \in Nat
               /\ Cardinality(UsingOf(v, u, Pending))
                     = Cardinality(UsingOf(v, u, Pending'))
                           + (IF u = UserOf[o] THEN 1 ELSE 0)
    BY <1>5, <2>3, UsingFinite, OneMore
  <2>6. v \in Limited => redeemed'[v] + Cardinality(Using(v, Pending')) <= MaxRedemptions[v]
    BY <2>1, <2>2, <2>4 DEF Fits
  <2>7. ASSUME v \in LimitedPerUser, NEW u \in Users
        PROVE  userRedeemed'[v][u] + Cardinality(UsingOf(v, u, Pending')) <= MaxPerUser[v]
    <3>1. userRedeemed[v][u] + Cardinality(UsingOf(v, u, Pending)) <= MaxPerUser[v]
      BY <2>1, <2>7 DEF Fits
    <3> QED
      BY <2>2, <2>5, <3>1
  <2> QED
    BY <2>6, <2>7 DEF Fits
<1>6. ASSUME NEW p \in Orders
      PROVE  LetThrough(p)'
  <2> SUFFICES ASSUME pc'[p] = "checkout", NEW v \in Done(p)' \cap CountedFirst
               PROVE  HasRoom(v, p, Pending)'
    BY DEF LetThrough, CountedFirst
  <2>1. p # o /\ pc[p] = "checkout" /\ v \in Done(p)
    BY <1>1, EndKeeps
  <2>2. v \notin Applied[o] /\ HasRoom(v, p, Pending)
    BY <1>1, <2>1 DEF Transactions, HoldsItsRows, Room, LetThrough
  <2> QED
    BY <1>4, <2>2
<1> QED
  BY <1>4, <1>5, <1>6 DEF Room, CountedFirst

LEMMA RoomKept ==
    ASSUME VoucherInv, [Next]_vars, Typed'
    PROVE  Room'
<1> USE DEF VoucherInv
<1>1. CASE UNCHANGED vars
  <2>1. UNCHANGED <<status, pc, left, redeemed, userRedeemed>>
    BY <1>1 DEF vars, counters
  <2>2. \A p \in Orders : pc'[p] = pc[p] /\ Done(p)' = Done(p)
    BY <2>1 DEF Done
  <2> QED
    BY <2>1, <2>2, QuietRoom
<1>2. ASSUME NEW o \in Orders, BeginCheckout(o) \/ BeginCapture(o)
      PROVE  Room'
  <2>1. /\ UNCHANGED <<status, redeemed, userRedeemed>>
        /\ Done(o)' = {}
        /\ \A p \in Orders \ {o} : pc'[p] = pc[p] /\ Done(p)' = Done(p)
    BY <1>2 DEF BeginCheckout, BeginCapture, counters, Done, Typed, TypeOK
  <2> QED
    BY <2>1, QuietRoom
<1>3. ASSUME NEW o \in Orders, LockVoucher(o)
      PROVE  Room'
  <2>1. UNCHANGED <<status, pc, left, redeemed, userRedeemed>>
    BY <1>3 DEF LockVoucher, counters
  <2>2. \A p \in Orders : pc'[p] = pc[p] /\ Done(p)' = Done(p)
    BY <2>1 DEF Done
  <2> QED
    BY <2>1, <2>2, QuietRoom
<1>4. ASSUME NEW o \in Orders, Rollback(o)
      PROVE  Room'
  <2>1. EndTransaction(o) /\ UNCHANGED <<status, redeemed, userRedeemed>>
    BY <1>4 DEF Rollback, counters
  <2>2. /\ pc'[o] = "idle"
        /\ \A p \in Orders \ {o} : pc'[p] = pc[p] /\ Done(p)' = Done(p)
    BY <2>1, EndKeeps
  <2> QED
    BY <2>1, <2>2, QuietRoom
<1>5. ASSUME NEW o \in Orders, CheckLimits(o)
      PROVE  Room'
  <2>1. CASE Rollback(o)
    BY <1>4, <2>1
  <2>2. CASE \E v \in left[o] :
                /\ lock[v] = o /\ HasRoom(v, o, Seen(o))
                /\ left' = [left EXCEPT ![o] = @ \ {v}]
                /\ UNCHANGED <<status, pc, lock, counters>>
    <3>1. PICK w \in left[o] :
              /\ lock[w] = o /\ HasRoom(w, o, Seen(o))
              /\ left' = [left EXCEPT ![o] = @ \ {w}]
              /\ UNCHANGED <<status, pc, redeemed, userRedeemed>>
      BY <2>2 DEF counters
    <3>2. pc[o] = "checkout" /\ HoldsItsRows(o) /\ GoesInOrder(o)
      BY <1>5 DEF CheckLimits, Transactions
    <3>3. /\ w \in Applied[o] /\ Done(o)' = Done(o) \cup {w}
          /\ \A p \in Orders \ {o} : pc'[p] = pc[p] /\ Done(p)' = Done(p)
      BY <3>1, <3>2 DEF Done, Typed, TypeOK, HoldsItsRows
    <3>4. ASSUME w \in CountedFirst, w \in Counted
          PROVE  HasRoom(w, o, Pending)
      <4>1. ASSUME NEW u \in Done(o) \cap Counted
            PROVE  FALSE
        <5>1. Rank[w] <= Rank[u]
          BY <3>3, <3>4 DEF CountedFirst, Counted, Done
        <5>2. Rank[u] < Rank[w]
          BY <3>1, <3>2 DEF GoesInOrder
        <5>3. Rank[u] \in Nat /\ Rank[w] \in Nat
          BY <3>3, ReservationAssumption DEF Done
        <5> QED
          BY <5>1, <5>2, <5>3
      <4>2. snapshot[o] = {None}
        BY <3>2, <4>1 DEF GoesInOrder
      <4> QED
        BY <3>1, <4>2 DEF Seen
    <3>5. w \notin Counted => HasRoom(w, o, Pending)
      BY DEF HasRoom, Counted
    <3> QED
      BY <3>1, <3>2, <3>3, <3>4, <3>5, QuietRoom
  <2> QED
    BY <1>5, <2>1, <2>2 DEF CheckLimits
<1>6. ASSUME NEW o \in Orders, PaymentRefused(o)
      PROVE  Room'
  <2>1. /\ status' = [status EXCEPT ![o] = "PAYMENT_FAILED"]
        /\ UNCHANGED <<pc, left, redeemed, userRedeemed>>
    BY <1>6 DEF PaymentRefused, counters
  <2>2. \A p \in Orders : pc'[p] = pc[p] /\ Done(p)' = Done(p)
    BY <2>1 DEF Done
  <2>3. \A v : Using(v, Pending)' \subseteq Using(v, Pending)
    BY <2>1 DEF Using, Pending, Typed, TypeOK
  <2>4. ASSUME NEW v \in CountedFirst
        PROVE  /\ Fits(v)'
               /\ \A p \in Orders : HasRoom(v, p, Pending) => HasRoom(v, p, Pending)'
    <3>1. v \in Vouchers /\ Fits(v)
      BY DEF CountedFirst, Room
    <3> QED
      BY <2>1, <2>3, <3>1, StillFits
  <2>5. ASSUME NEW p \in Orders
        PROVE  LetThrough(p)'
    BY <2>2, <2>4 DEF Room, LetThrough, CountedFirst
  <2> QED
    BY <2>4, <2>5 DEF Room, CountedFirst
<1>7. ASSUME NEW o \in Orders, RedeemVoucher(o)
      PROVE  Room'
  <2>1. CASE Rollback(o)
    BY <1>4, <2>1
  <2>2. CASE \E v \in NextInJoin(o) :
                /\ left' = [left EXCEPT ![o] = @ \ {v}]
                /\ UNCHANGED <<status, pc, snapshot, counters>>
    <3>1. /\ pc[o] = "capture" /\ UNCHANGED <<status, pc, redeemed, userRedeemed>>
          /\ \A p \in Orders \ {o} : Done(p)' = Done(p)
      BY <1>7, <2>2 DEF RedeemVoucher, counters, Done, Typed, TypeOK
    <3> QED
      BY <3>1, QuietRoom
  <2> QED
    BY <1>7, <2>1, <2>2 DEF RedeemVoucher
<1> QED
  BY <1>1, <1>2, <1>3, <1>4, <1>5, <1>6, <1>7, CheckoutKeepsRoom, CaptureKeepsRoom
     DEF Next, Abort

LEMMA VoucherInvStart ==
    ASSUME Init
    PROVE  VoucherInv
<1>1. Pending = {} /\ Active = {}
  BY DEF Init, Pending, Active
<1>2. Typed
  BY <1>1, FS_EmptySet DEF Init, Typed, TypeOK
<1>3. Transactions
  BY ReservationAssumption DEF Init, Transactions, HoldsItsRows, GoesInOrder, InItsTime
<1>4. ASSUME NEW v \in CountedFirst
      PROVE  Fits(v)
  <2>1. v \in Vouchers /\ Using(v, Pending) = {} /\ \A u : UsingOf(v, u, Pending) = {}
    BY <1>1 DEF CountedFirst, Using, UsingOf
  <2>2. /\ redeemed[v] = 0 /\ \A u \in Users : userRedeemed[v][u] = 0
        /\ MaxRedemptions[v] \in Nat /\ MaxPerUser[v] \in Nat
    BY <2>1, ReservationAssumption DEF Init
  <2>3. Cardinality(Using(v, Pending)) = 0 /\ \A u : Cardinality(UsingOf(v, u, Pending)) = 0
    BY <2>1, FS_EmptySet
  <2> QED
    BY <2>2, <2>3 DEF Fits
<1>5. \A o \in Orders : LetThrough(o)
  BY DEF Init, LetThrough
<1> QED
  BY <1>2, <1>3, <1>4, <1>5 DEF VoucherInv, Room

LEMMA VoucherInvHolds == Spec => []VoucherInv
<1>1. Init => VoucherInv
  BY VoucherInvStart
<1>2. VoucherInv /\ [Next]_vars => VoucherInv'
  BY TypedKept, TransactionsKept, RoomKept DEF VoucherInv
<1> QED
  BY <1>1, <1>2, PTL DEF Spec

-----------------------------------------------------------------------------
(* The theorems *)

\* Whatever checkouts, refusals and captures interleave, the capture of an order
\* that awaits payment never meets a limit of a voucher that every checkout using
\* it counts first and whose orders are not revived after a refusal; of other
\* vouchers nothing is said.  (And the type invariant.)
THEOREM PaidForOrdersFit == Spec => []CapturesHaveRoom
<1>1. VoucherInv => CapturesHaveRoom
  <2> SUFFICES ASSUME VoucherInv, NEW o \in Orders, pc[o] = "capture",
                      status[o] = "PAYMENT_PENDING", NEW v \in left[o] \cap CountedFirst
               PROVE  MayRedeem(v, UserOf[o])
    BY DEF CapturesHaveRoom, VoucherInv, Typed
  <2>1. v \in Applied[o] /\ Fits(v) /\ o \in Pending
    BY DEF VoucherInv, Transactions, HoldsItsRows, Room, Pending
  <2>2. o \in Using(v, Pending) /\ o \in UsingOf(v, UserOf[o], Pending)
    BY <2>1 DEF Using, UsingOf
  <2>3. Pending \in SUBSET Orders /\ IsFiniteSet(Pending)
    BY DEF VoucherInv, Typed, Pending
  <2>4. /\ Cardinality(Using(v, Pending)) \in Nat \ {0}
        /\ Cardinality(UsingOf(v, UserOf[o], Pending)) \in Nat \ {0}
    BY <2>2, <2>3, UsingFinite, FS_EmptySet
  <2>5. /\ v \in Vouchers /\ UserOf[o] \in Users
        /\ redeemed[v] \in Nat /\ userRedeemed[v][UserOf[o]] \in Nat
        /\ MaxRedemptions[v] \in Nat /\ MaxPerUser[v] \in Nat
    BY ReservationAssumption DEF CountedFirst, VoucherInv, Typed, TypeOK
  <2> QED
    BY <2>1, <2>4, <2>5 DEF Fits, MayRedeem
<1> QED
  BY <1>1, VoucherInvHolds, PTL

\* A finite set has an element of greatest rank.
LEMMA FiniteArgMax ==
    ASSUME NEW S, IsFiniteSet(S), S # {}, NEW r \in [S -> Int]
    PROVE  \E x \in S : \A y \in S : r[y] <= r[x]
<1> DEFINE HasMax(T) == \E x \in T : \A y \in T : r[y] <= r[x]
           NoMax == {T \in SUBSET S : T # {} /\ ~HasMax(T)}
<1> SUFFICES ASSUME S \in NoMax PROVE FALSE
  OBVIOUS
<1>1. IsWellFoundedOn(StrictSubsetOrdering(S), SUBSET S)
  BY FS_StrictSubsetOrderingWellFounded, FS_FiniteSubsetsOfFinite
<1>2. PICK T \in NoMax : \A U \in NoMax : ~(<<U, T>> \in StrictSubsetOrdering(S))
  <2> HIDE DEF NoMax
  <2>1. NoMax \subseteq SUBSET S /\ NoMax # {}
    BY DEF NoMax
  <2> QED
    BY <1>1, <2>1, WFMin, Zenon
<1>3. T \subseteq S /\ T # {} /\ ~HasMax(T)
  BY <1>2
<1>4. PICK x : x \in T
  BY <1>3
<1> DEFINE U == T \ {x}
<1>5. <<U, T>> \in StrictSubsetOrdering(S)
  BY <1>3, <1>4 DEF StrictSubsetOrdering
<1>6. U = {} \/ HasMax(U)
  BY <1>2, <1>3, <1>5
<1>7. CASE U = {}
  <2>1. \A y \in T : y = x
    BY <1>7
  <2> QED
    BY <1>3, <1>4, <2>1
<1>8. CASE HasMax(U)
  <2>1. PICK z \in U : \A y \in U : r[y] <= r[z]
    BY <1>8
  <2>2. r[x] \in Int /\ r[z] \in Int /\ \A y \in T : r[y] \in Int /\ (y = x \/ y \in U)
    BY <1>3, <1>4
  <2>3. CASE r[z] <= r[x]
    <3>1. \A y \in T : r[y] <= r[x]
      BY <2>1, <2>2, <2>3
    <3> QED
      BY <1>3, <1>4, <3>1
  <2>4. CASE ~(r[z] <= r[x])
    <3>1. \A y \in T : r[y] <= r[z]
      BY <2>1, <2>2, <2>4
    <3> QED
      BY <1>3, <2>1, <3>1
  <2> QED
    BY <2>3, <2>4
<1> QED
  BY <1>6, <1>7, <1>8

\* Checkouts and captures that wait for each other's voucher rows in a circle have
\* a capture among them that holds a row and waits for one with a higher id that
\* checkouts lock before it.  Follow the circle from whoever waits for the row of
\* greatest rank: somebody of the circle holds that row and waits for one below it.
THEOREM DeadlocksTakeDisorder == Spec => []NoOrderlyDeadlock
<1>1. VoucherInv => NoOrderlyDeadlock
  <2> SUFFICES ASSUME VoucherInv, NEW circle \in (SUBSET Orders) \ {{}},
                      \A o \in circle : \E v \in Awaited(o) : lock[v] \in circle \ {o}
               PROVE  \E o \in circle : OutOfOrder(o)
    BY Zenon DEF NoOrderlyDeadlock
  <2>1. \A o \in circle :
           \/ /\ pc[o] = "checkout"
              /\ \A v \in left[o] : lock[v] # o
              /\ Awaited(o) \subseteq NextInStack(o)
           \/ pc[o] = "capture" /\ Awaited(o) \subseteq NextInJoin(o)
    BY DEF Awaited
  <2> DEFINE Row(o) == CHOOSE v \in Awaited(o) : lock[v] \in circle \ {o}
             r == [o \in circle |-> Rank[Row(o)]]
  <2>2. \A o \in circle : Row(o) \in Awaited(o) /\ lock[Row(o)] \in circle \ {o}
    OBVIOUS
  <2> HIDE DEF Row
  <2>3. \A o \in circle : Row(o) \in left[o] /\ Row(o) \in Vouchers
    BY <2>1, <2>2 DEF NextInStack, NextInJoin, VoucherInv, Typed, TypeOK
  <2>4. r \in [circle -> Int]
    BY <2>3, ReservationAssumption
  <2>5. IsFiniteSet(circle)
    <3>1. circle \subseteq Active
      BY <2>1 DEF Active
    <3> QED
      BY <3>1, FS_Subset DEF VoucherInv, Typed
  <2>6. PICK o \in circle : \A p \in circle : r[p] <= r[o]
    <3>1. circle # {}
      OBVIOUS
    <3> HIDE DEF r
    <3> QED
      BY <2>4, <2>5, <3>1, FiniteArgMax
  <2>7. PICK p \in circle : p = lock[Row(o)] /\ p # o
    BY <2>2
  <2>8. Row(o) \in Done(p) /\ Row(o) \in Applied[p]
    <3>1. HoldsItsRows(p) /\ lock[Row(o)] = p /\ Row(o) \in Vouchers
      BY <2>3, <2>7 DEF VoucherInv, Transactions
    <3> QED
      BY <2>1, <3>1 DEF Done, HoldsItsRows
  <2>9. GoesInOrder(p) /\ Row(p) \in left[p]
    BY <2>3 DEF VoucherInv, Transactions
  <2>10. /\ Rank[Row(p)] <= Rank[Row(o)] /\ Row(o) # Row(p)
         /\ Rank[Row(o)] \in Nat /\ Rank[Row(p)] \in Nat
         /\ Rank[Row(o)] # Rank[Row(p)]
    BY <2>3, <2>6, <2>8, <2>9, ReservationAssumption DEF Done
  <2>11. Rank[Row(p)] < Rank[Row(o)] /\ ~(Rank[Row(o)] < Rank[Row(p)])
    BY <2>10
  <2>12. pc[p] = "capture"
    BY <2>1, <2>8, <2>9, <2>11 DEF GoesInOrder
  <2>13. Id[Row(o)] < Id[Row(p)]
    BY <2>8, <2>9, <2>12 DEF GoesInOrder
  <2> QED
    BY <2>2, <2>7, <2>8, <2>11, <2>12, <2>13 DEF OutOfOrder
<1> QED
  BY <1>1, VoucherInvHolds, PTL

\* What VoucherLedger sees of the vouchers counted first.
CountedStacks == [o \in Orders |-> Applied[o] \cap CountedFirst]
Counts == [v \in CountedFirst |-> redeemed[v]]
UserCounts == [v \in CountedFirst |-> userRedeemed[v]]

LEMMA LedgerCounts ==
    ASSUME NEW S
    PROVE  Ledger!Cardinality(S) = Cardinality(S)
BY DEF Ledger!Cardinality, Cardinality

LEMMA LedgerHoldings ==
    ASSUME NEW v \in CountedFirst, NEW u
    PROVE  Ledger!Holding(v) = Using(v, Pending) /\ Ledger!HoldingOf(v, u) = UsingOf(v, u, Pending)
<1>1. Ledger!Holding(v) = Using(v, Pending)
  BY DEF Ledger!Holding, Using, Pending
<1> QED
  BY <1>1 DEF Ledger!HoldingOf, UsingOf

LEMMA CheckoutReserves ==
    ASSUME VoucherInv, NEW o \in Orders, CommitCheckout(o)
    PROVE  Ledger!Reserve(o)
<1> USE DEF VoucherInv
<1>1. /\ status[o] = "NONE" /\ pc[o] = "checkout" /\ Done(o) = Applied[o]
      /\ UNCHANGED <<redeemed, userRedeemed>>
      /\ status' = [status EXCEPT ![o] = "PAYMENT_PENDING"]
  BY DEF CommitCheckout, counters, Transactions, InItsTime, Done
<1>2. o \notin Pending /\ Pending' = Pending \cup {o}
  BY <1>1 DEF Pending, Typed, TypeOK
<1>3. ASSUME NEW v \in CountedStacks[o]
      PROVE  HasRoom(v, o, Pending) /\ v \in CountedFirst
  BY <1>1 DEF CountedStacks, Room, LetThrough
<1>4. Ledger!CanReserve(o)
  <2> SUFFICES ASSUME NEW v \in CountedStacks[o]
               PROVE  /\ v \in Limited =>
                            Counts[v] + Cardinality(Ledger!Holding(v)) < MaxRedemptions[v]
                      /\ v \in LimitedPerUser =>
                            UserCounts[v][UserOf[o]]
                                + Cardinality(Ledger!HoldingOf(v, UserOf[o])) < MaxPerUser[v]
    BY LedgerCounts DEF Ledger!CanReserve, CountedStacks, Counts, UserCounts
  <2>1. /\ Ledger!Holding(v) = Using(v, Pending)
        /\ Ledger!HoldingOf(v, UserOf[o]) = UsingOf(v, UserOf[o], Pending)
    BY <1>3, LedgerHoldings
  <2>2. Counts[v] = redeemed[v] /\ UserCounts[v] = userRedeemed[v]
    BY <1>3 DEF Counts, UserCounts
  <2> QED
    BY <1>3, <2>1, <2>2 DEF HasRoom, UsingOf
<1> QED
  BY <1>1, <1>2, <1>4 DEF Ledger!Reserve

LEMMA RefusalReleases ==
    ASSUME VoucherInv, NEW o \in Orders, PaymentRefused(o)
    PROVE  Ledger!Release(o)
<1>1. /\ status[o] = "PAYMENT_PENDING" /\ status' = [status EXCEPT ![o] = "PAYMENT_FAILED"]
      /\ UNCHANGED <<redeemed, userRedeemed>>
  BY DEF PaymentRefused, counters
<1>2. o \in Pending /\ Pending' = Pending \ {o}
  BY <1>1 DEF Pending, VoucherInv, Typed, TypeOK
<1> QED
  BY <1>1, <1>2 DEF Ledger!Release

\* The capture of a revived order redeems no voucher counted first.
LEMMA CaptureRedeems ==
    ASSUME VoucherInv, NEW o \in Orders, CommitCapture(o)
    PROVE  Ledger!Redeem(o) \/ UNCHANGED Ledger!ledger
<1> USE DEF VoucherInv
<1>1. /\ \/ status[o] = "PAYMENT_PENDING"
         \/ status[o] = "PAYMENT_FAILED" /\ o \in Revived
      /\ status' = [status EXCEPT ![o] = "READY_TO_COLLECT"]
  BY DEF CommitCapture, Transactions, InItsTime
<1>2. Pending' = Pending \ {o}
  BY <1>1 DEF Pending, Typed, TypeOK
<1>3. ASSUME NEW v \in CountedFirst
      PROVE  /\ v \in Vouchers /\ redeemed[v] \in Nat
             /\ userRedeemed[v] \in [Users -> Nat]
             /\ redeemed'[v] = redeemed[v] + (IF v \in Applied[o] THEN 1 ELSE 0)
             /\ userRedeemed'[v] = [u \in Users |->
                   userRedeemed[v][u] + (IF v \in Applied[o] /\ u = UserOf[o] THEN 1 ELSE 0)]
  BY DEF CommitCapture, CountedFirst, Typed, TypeOK
<1>4. CASE status[o] = "PAYMENT_PENDING"
  <2>1. o \in Pending
    BY <1>4 DEF Pending
  <2>2. \A v \in CountedFirst : v \in CountedStacks[o] <=> v \in Applied[o]
    BY DEF CountedStacks
  <2>3. Counts' = [v \in CountedFirst |-> Counts[v] + (IF v \in CountedStacks[o] THEN 1 ELSE 0)]
    BY <1>3, <2>2 DEF Counts
  <2>4. UserCounts' = [v \in CountedFirst |-> [u \in Users |->
          UserCounts[v][u] + (IF v \in CountedStacks[o] /\ u = UserOf[o] THEN 1 ELSE 0)]]
    BY <1>3, <2>2 DEF UserCounts
  <2> QED
    BY <1>2, <2>1, <2>3, <2>4 DEF Ledger!Redeem, CountedStacks, Counts, UserCounts
<1>5. CASE status[o] # "PAYMENT_PENDING"
  <2>1. o \in Revived /\ Pending' = Pending
    BY <1>1, <1>2, <1>5 DEF Pending
  <2>2. ASSUME NEW v \in CountedFirst
        PROVE  redeemed'[v] = redeemed[v] /\ userRedeemed'[v] = userRedeemed[v]
    <3>1. v \notin Applied[o]
      BY <2>1 DEF CountedFirst
    <3>2. userRedeemed'[v] = [u \in Users |-> userRedeemed[v][u] + 0]
      BY <1>3, <3>1
    <3> QED
      BY <1>3, <3>1, <3>2
  <2>3. Counts' = Counts /\ UserCounts' = UserCounts
    BY <2>2 DEF Counts, UserCounts
  <2> QED
    BY <2>1, <2>3 DEF Ledger!ledger, Counts, UserCounts
<1> QED
  BY <1>4, <1>5

\* The statements of checkout, refusal and capture, for the vouchers counted
\* first, keep the promise of VoucherLedger: each COMMIT reserves, gives back or
\* redeems all vouchers of an order at once, and nothing else touches them.
THEOREM LedgerIsKept == Spec => ImplementsLedger
<1>1. Init => Ledger!LedgerInit
  <2> SUFFICES ASSUME Init PROVE Ledger!LedgerInit
    OBVIOUS
  <2>1. Pending = {}
    BY DEF Init, Pending
  <2>2. \A v \in CountedFirst : redeemed[v] = 0 /\ userRedeemed[v] = [u \in Users |-> 0]
    BY DEF Init, CountedFirst
  <2> QED
    BY <2>1, <2>2 DEF Ledger!LedgerInit
<1>2. VoucherInv /\ [Next]_vars => [Ledger!LedgerNext]_(Ledger!ledger)
  <2> SUFFICES ASSUME VoucherInv, [Next]_vars
               PROVE  Ledger!LedgerNext \/ UNCHANGED Ledger!ledger
    OBVIOUS
  <2>1. ASSUME UNCHANGED <<status, redeemed, userRedeemed>>
        PROVE  UNCHANGED Ledger!ledger
    BY <2>1 DEF Ledger!ledger, Pending
  <2>2. CASE UNCHANGED vars
    BY <2>1, <2>2 DEF vars, counters
  <2>3. ASSUME NEW o \in Orders,
               \/ BeginCheckout(o) \/ LockVoucher(o) \/ CheckLimits(o)
               \/ BeginCapture(o) \/ RedeemVoucher(o) \/ Abort(o)
        PROVE  UNCHANGED <<status, redeemed, userRedeemed>>
    BY <2>3 DEF BeginCheckout, LockVoucher, CheckLimits, BeginCapture, RedeemVoucher,
                Abort, Rollback, counters
  <2>4. ASSUME NEW o \in Orders, CommitCheckout(o) \/ PaymentRefused(o) \/ CommitCapture(o)
        PROVE  Ledger!LedgerNext \/ UNCHANGED Ledger!ledger
    BY <2>4, CheckoutReserves, RefusalReleases, CaptureRedeems DEF Ledger!LedgerNext
  <2> QED
    BY <2>1, <2>2, <2>3, <2>4 DEF Next
<1> QED
  BY <1>1, <1>2, VoucherInvHolds, PTL DEF Spec, ImplementsLedger, Ledger!LedgerSpec
=============================================================================
