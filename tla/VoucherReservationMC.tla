------------------------- MODULE VoucherReservationMC -------------------------
(* Small instances of VoucherReservation. *)
EXTENDS VoucherReservation, TLC

CONSTANTS o1, o2, o3, o4, u1, u2, v1, v2

Buyers == o1 :> u1 @@ o2 :> u2 @@ o3 :> u2 @@ o4 :> u1

\* Two stacks of both vouchers, and an order for each of the two alone.
Stacks == o1 :> {v1, v2} @@ o2 :> {v2} @@ o3 :> {v1, v2} @@ o4 :> {v1}

V1First == v1 :> 1 @@ v2 :> 2

\* v2 was created before v1: captures take the stacks the other way round.
V2Older == v1 :> 2 @@ v2 :> 1

V1TwiceV2Once == v1 :> 2 @@ v2 :> 1
OnceEach == [v \in Vouchers |-> 1]
=============================================================================
