----------------------------- MODULE CartStoreMC -----------------------------
(* Small instances of CartStore. *)
EXTENDS CartStore, TLC

CONSTANTS r1, r2, r3, r4, r5, r6, u1, u2, latte, mocha

Ask(method, user, line, quantity, item) ==
    [method |-> method, user |-> user, line |-> line, quantity |-> quantity, item |-> item]
Stored(id, user, line, quantity) ==
    [id |-> id, user |-> user, line |-> line, quantity |-> quantity, options |-> line]

OneRowEach == {Stored(1, u1, latte, 1), Stored(2, u2, mocha, 1)}

\* u1 adds, changes, removes and clears; u2 tries to change a row of u1.
Mixed ==
    r1 :> Ask("upsert", u1, mocha, 2, 0)
 @@ r2 :> Ask("update", u1, mocha, 3, 1)
 @@ r3 :> Ask("update", u2, mocha, 1, 1)
 @@ r4 :> Ask("remove", u1, latte, 1, 1)
 @@ r5 :> Ask("upsert", u1, latte, 3, 0)
 @@ r6 :> Ask("clear", u1, latte, 1, 0)
=============================================================================
