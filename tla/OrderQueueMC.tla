----------------------------- MODULE OrderQueueMC -----------------------------
(***************************************************************************)
(* Two workers, which apply two files of migrations before they poll: a    *)
(* column that is created and redefined and redefined again, as            *)
(* loyalty_accounts.tier is (0004, 0012, 0020), and a key that is dropped  *)
(* if it is there and added, as fk_payment_transactions_order is (0016).   *)
(***************************************************************************)
EXTENDS OrderQueue

CONSTANTS w1, w2

Does(kind, thing, form) == [kind |-> kind, thing |-> thing, form |-> form]

TwoFiles == <<
    <<Does("CREATE", "tier", "varchar"), Does("MODIFY", "tier", "enum")>>,
    <<Does("DROP", "key", "fk"), Does("ADD", "key", "fk"), Does("MODIFY", "tier", "varchar")>> >>
===============================================================================
