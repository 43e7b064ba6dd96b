--------------------------- MODULE OrderPaymentsMC ---------------------------
(* Small instances of OrderPayments. *)
EXTENDS OrderPayments, TLC

CONSTANTS r1, r2, r3, r4, t1, u1, u2, k1, v1, v2

Order(user, method, total, vouchers) ==
    [user |-> user, key |-> k1, method |-> method, total |-> total, vouchers |-> vouchers]

\* Two users after the same voucher; u1 uses a second one as well, and tries again
\* twice: r2 and r3 retry r1, whose payment row is missing when it is stored first,
\* r3 without the vouchers and by card.  u2's client chose the same key.
RivalCart ==
    r1 :> Order(u1, "EWALLET", 250, {v1, v2})
 @@ r2 :> Order(u1, "EWALLET", 250, {v1, v2})
 @@ r3 :> Order(u1, "CARD", 300, {})
 @@ r4 :> Order(u2, "CARD", 50, {v1})

OneTopUp == t1 :> [user |-> u1, amount |-> 300]

V1First == v1 :> 1 @@ v2 :> 2

OnceEach == [v \in Vouchers |-> 1]

Report(p, status, event) == [txn |-> p, status |-> status, event |-> event]

\* Without a gateway_event_id, ApplyCallback identifies an event by payment and
\* status; a gateway that does send ids may report one capture under several.
Statuses == {"CAPTURED", "AUTHORIZED", "FAILED", "CANCELLED"}
EventIds == Payments \X (Statuses \cup {"CAPTURED again"})
ReportsOf(p, statuses) == {Report(p, s, <<p, s>>) : s \in statuses}
Recapture(p) == Report(p, "CAPTURED", <<p, "CAPTURED again">>)

\* Reports of every status, any number of times and in any order; two captures
\* also under a second id.
AnyReports ==
    ReportsOf(r2, {"CAPTURED", "AUTHORIZED", "FAILED"}) \cup ReportsOf(r3, {"CAPTURED"})
        \cup ReportsOf(r4, {"CAPTURED", "CANCELLED"}) \cup {Recapture(r2), Recapture(r4)}
        \cup ReportsOf(t1, {"CAPTURED"}) \cup {Recapture(t1)}
=============================================================================
