------------------------------ MODULE CartStore ------------------------------
(***************************************************************************)
(* The cart_items table under concurrent requests                          *)
(* (backend/internal/cart/repository.go).                                  *)
(*                                                                         *)
(* UpsertCartItem and UpdateCartItem read with plain SELECTs, which lock   *)
(* nothing and see one snapshot, and then write by id; their writes lock   *)
(* the rows until COMMIT, so the write phase is one step and a deadlock is *)
(* an Abort.  Nothing but these reads keeps a line from being stored       *)
(* twice: the table has no unique key.                                     *)
(***************************************************************************)
EXTENDS Naturals

CONSTANTS
    Requests,
    Op,             \* Op[r]: what request r asks for
    Users,
    Lines,          \* store, menu item and customization ids of a row
    Plain,          \* the lines without customization options
    Quantities,
    Initial,        \* the rows there are when the requests arrive
    FirstId         \* AUTO_INCREMENT by then: above every id there has been

RowType ==
    [id : Nat \ {0}, user : Users, line : Lines, quantity : Quantities, options : Lines]
OpType ==
    [method : {"upsert", "update", "remove", "clear"}, user : Users, line : Lines,
     quantity : Quantities, item : Nat]

ASSUME CartStoreAssumption ==
    /\ Op \in [Requests -> OpType]
    /\ Plain \subseteq Lines
    /\ Quantities \subseteq Nat \ {0}
    /\ Initial \subseteq RowType
    /\ \A a, b \in Initial :
          a.id = b.id \/ (a.user = b.user /\ a.line = b.line) => a = b
    /\ \A a \in Initial : a.options = a.line
    /\ FirstId \in Nat /\ 0 < FirstId /\ \A a \in Initial : a.id < FirstId

VARIABLES
    rows,     \* cart_items; a row's options are its cart_item_customization_options
    nextId,   \* AUTO_INCREMENT
    pc,       \* where each request is
    found,    \* the row the first SELECT of the request found, 0 for none
    twin,     \* the identical row UpdateCartItem found, 0 for none
    overlap   \* history: a request was handled between the two steps of another

vars == <<rows, nextId, pc, found, twin, overlap>>

TypeOK ==
    /\ rows \subseteq RowType
    /\ nextId \in Nat \ {0}
    /\ pc \in [Requests -> {"idle", "write", "done", "failed"}]
    /\ overlap \in BOOLEAN
    /\ found \in [Requests -> Nat] /\ twin \in [Requests -> Nat]
    /\ \A a, b \in rows : a.id = b.id => a = b

Init ==
    /\ rows = Initial
    /\ nextId = FirstId
    /\ pc = [r \in Requests |-> "idle"]
    /\ found = [r \in Requests |-> 0]
    /\ twin = [r \in Requests |-> 0]
    /\ overlap = FALSE

-----------------------------------------------------------------------------
\* LIMIT 1: any matching id, 0 when there is none.
AnyId(matching) == IF matching = {} THEN {0} ELSE {a.id : a \in matching}

Same(a, o) == a.user = o.user /\ a.line = o.line

\* Slip: whose item it is is not looked at.
OwnAnyone(o) == {a \in rows : a.id = o.item}

Own(o) == {a \in rows : a.id = o.item /\ a.user = o.user}

Finish(r, result) == pc' = [pc EXCEPT ![r] = result]

Start(r, method) ==
    /\ pc[r] = "idle" /\ Op[r].method = method
    /\ overlap' = (overlap \/ \E q \in Requests : pc[q] = "write")

FindForUpsert(r) ==
    /\ Start(r, "upsert")
    /\ \E id \in AnyId({a \in rows : Same(a, Op[r])}) :
          found' = [found EXCEPT ![r] = id]
    /\ Finish(r, "write")
    /\ UNCHANGED <<rows, nextId, twin>>

\* Slip: the identical row is not looked for.
FindForUpdateNoTwin(r) ==
    /\ Start(r, "update")
    /\ IF Own(Op[r]) = {}
       THEN Finish(r, "failed") /\ UNCHANGED <<found, twin>>
       ELSE /\ found' = [found EXCEPT ![r] = Op[r].item]
            /\ UNCHANGED twin
            /\ Finish(r, "write")
    /\ UNCHANGED <<rows, nextId>>

FindForUpdate(r) ==
    /\ Start(r, "update")
    /\ IF Own(Op[r]) = {}
       THEN Finish(r, "failed") /\ UNCHANGED <<found, twin>>
       ELSE /\ found' = [found EXCEPT ![r] = Op[r].item]
            /\ \E id \in AnyId({a \in rows : Same(a, Op[r]) /\ a.id # Op[r].item}) :
                  twin' = [twin EXCEPT ![r] = id]
            /\ Finish(r, "write")
    /\ UNCHANGED <<rows, nextId>>

Ids(set) == {a.id : a \in set}

\* syncCartItemCustomizations
WithOptions(a, o) == [a EXCEPT !.options = o.line]

\* Row id after an UPDATE that sets its quantity, and the option rows.
SetQuantity(set, id, o) ==
    {IF a.id = id THEN WithOptions([a EXCEPT !.quantity = o.quantity], o) ELSE a : a \in set}

\* The UPDATE of a row that is gone changes nothing and is no error; inserting
\* option rows for it violates their foreign key.
MayCommit(set, id, o) == id \in Ids(set) \/ o.line \in Plain

Commit(r, id, after) ==
    IF MayCommit(after, id, Op[r])
    THEN rows' = after /\ Finish(r, "done")
    ELSE Finish(r, "failed") /\ UNCHANGED rows

WriteUpsert(r) ==
    /\ pc[r] = "write" /\ Op[r].method = "upsert"
    /\ IF found[r] # 0
       THEN Commit(r, found[r], SetQuantity(rows, found[r], Op[r])) /\ UNCHANGED nextId
       ELSE /\ rows' = rows \cup {[id |-> nextId, user |-> Op[r].user, line |-> Op[r].line,
                                   quantity |-> Op[r].quantity, options |-> Op[r].line]}
            /\ nextId' = nextId + 1
            /\ Finish(r, "done")
    /\ UNCHANGED <<found, twin, overlap>>

\* The line moves into its twin, which replaces it.
Merged(r) == {a \in SetQuantity(rows, twin[r], Op[r]) : a.id # found[r]}

Rewritten(r) ==
    {IF a.id = found[r] /\ a.user = Op[r].user
     THEN WithOptions([a EXCEPT !.line = Op[r].line, !.quantity = Op[r].quantity], Op[r])
     ELSE a : a \in rows}

WriteUpdate(r) ==
    /\ pc[r] = "write" /\ Op[r].method = "update"
    /\ IF twin[r] # 0
       THEN Commit(r, twin[r], Merged(r))
       ELSE Commit(r, found[r], Rewritten(r))
    /\ UNCHANGED <<nextId, found, twin, overlap>>

RemoveCartItem(r) ==
    /\ Start(r, "remove")
    /\ rows' = rows \ Own(Op[r])
    /\ Finish(r, IF Own(Op[r]) = {} THEN "failed" ELSE "done")
    /\ UNCHANGED <<nextId, found, twin>>

ClearCart(r) ==
    /\ Start(r, "clear")
    /\ rows' = {a \in rows : a.user # Op[r].user}
    /\ Finish(r, "done")
    /\ UNCHANGED <<nextId, found, twin>>

\* A deadlock victim or a cancelled request: ROLLBACK.
Abort(r) ==
    /\ pc[r] = "write"
    /\ Finish(r, "failed")
    /\ UNCHANGED <<rows, nextId, found, twin, overlap>>

Next ==
    \E r \in Requests :
        \/ FindForUpsert(r) \/ WriteUpsert(r)
        \/ FindForUpdate(r) \/ WriteUpdate(r)
        \/ RemoveCartItem(r) \/ ClearCart(r) \/ Abort(r)

Spec == Init /\ [][Next]_vars

-----------------------------------------------------------------------------
(* Properties *)

LineStoredOnce == \A a, b \in rows : a.user = b.user /\ a.line = b.line => a = b

\* Requests that do not overlap leave one row for a line, and its option rows
\* are those of its customization_ids.  (And TypeOK.)
CartConsistent ==
    TypeOK /\ (~overlap => LineStoredOnce /\ \A a \in rows : a.options = a.line)

\* Handled one at a time, the requests do to the table what a user expects
\* them to do to a cart.
QuantityOf(u, l) ==
    LET matching == {a \in rows : a.user = u /\ a.line = l}
    IN  IF matching = {} THEN 0 ELSE (CHOOSE a \in matching : TRUE).quantity

Quantity == [u \in Users |-> [l \in Lines |-> QuantityOf(u, l)]]
Abstract == INSTANCE Cart WITH cart <- Quantity

Does(o) ==
    CASE o.method = "upsert" -> Abstract!Put(o.user, o.line, o.quantity)
      [] o.method = "update" ->
            \E a \in Own(o) : Abstract!Replace(o.user, a.line, o.line, o.quantity)
      [] o.method = "remove" -> \E a \in Own(o) : Abstract!Drop(o.user, a.line)
      [] o.method = "clear"  -> Abstract!Empty(o.user)

ImplementsCart ==
    /\ Abstract!CartInit
    /\ [][~overlap' => \A r \in Requests : pc'[r] # pc[r] =>
              IF pc'[r] = "done" THEN Does(Op[r]) ELSE UNCHANGED Quantity]_vars
=============================================================================
