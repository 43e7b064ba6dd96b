---------------------------- MODULE CartStoreProofs ----------------------------
(***************************************************************************)
(* The theorems about CartStore, for any requests, users and lines.        *)
(***************************************************************************)
EXTENDS CartStore, TLAPS

FreshIds == \A a \in rows : a.id < nextId

Consistent == LineStoredOnce /\ \A a \in rows : a.options = a.line

\* A request's first step has found what is in the table at its second.
StillTrue(r) ==
    \/ /\ Op[r].method = "upsert"
       /\ \/ found[r] = 0 /\ \A a \in rows : ~Same(a, Op[r])
          \/ \E a \in rows : a.id = found[r] /\ Same(a, Op[r])
    \/ /\ Op[r].method = "update" /\ found[r] = Op[r].item
       /\ \E a \in rows : a.id = found[r] /\ a.user = Op[r].user
       /\ \/ twin[r] = 0 /\ \A a \in rows : Same(a, Op[r]) => a.id = found[r]
          \/ twin[r] # found[r] /\ \E a \in rows : a.id = twin[r] /\ Same(a, Op[r])

\* As long as no request was handled between the steps of another, at most one is
\* between its steps, and the table is what it was at the first.
OneAtATime ==
    /\ \A r, q \in Requests : pc[r] = "write" /\ pc[q] = "write" => r = q
    /\ \A r \in Requests : pc[r] = "write" => StillTrue(r)

StoreInv ==
    /\ TypeOK /\ FreshIds
    /\ ~overlap => Consistent /\ OneAtATime

-----------------------------------------------------------------------------
(* Types *)

LEMMA OpTyped ==
    ASSUME NEW r \in Requests
    PROVE  /\ Op[r].user \in Users /\ Op[r].line \in Lines /\ Op[r].quantity \in Quantities
           /\ Op[r].item \in Nat
           /\ Op[r].method \in {"upsert", "update", "remove", "clear"}
  BY CartStoreAssumption DEF OpType

\* A set of rows with the ids of a set of rows.
LEMMA SetQuantityTyped ==
    ASSUME TypeOK, FreshIds, NEW r \in Requests, NEW id
    PROVE  LET after == SetQuantity(rows, id, Op[r]) IN
           /\ after \subseteq RowType
           /\ \A a, b \in after : a.id = b.id => a = b
           /\ \A a \in after : a.id < nextId
<1> DEFINE new(a) == IF a.id = id THEN WithOptions([a EXCEPT !.quantity = Op[r].quantity], Op[r])
                     ELSE a
<1>1. ASSUME NEW a \in rows
      PROVE  new(a) \in RowType /\ new(a).id = a.id
  <2>1. a \in RowType
    BY DEF TypeOK
  <2> QED
    BY <2>1, OpTyped DEF RowType, WithOptions
<1>2. SetQuantity(rows, id, Op[r]) = {new(a) : a \in rows}
  BY DEF SetQuantity
<1> HIDE DEF new
<1>3. \A a \in rows : a.id < nextId /\ \A b \in rows : a.id = b.id => a = b
  BY DEF TypeOK, FreshIds
<1> QED
  BY <1>1, <1>2, <1>3

LEMMA RewrittenTyped ==
    ASSUME TypeOK, FreshIds, NEW r \in Requests
    PROVE  /\ Rewritten(r) \subseteq RowType
           /\ \A a, b \in Rewritten(r) : a.id = b.id => a = b
           /\ \A a \in Rewritten(r) : a.id < nextId
<1> DEFINE new(a) == IF a.id = found[r] /\ a.user = Op[r].user
                     THEN WithOptions([a EXCEPT !.line = Op[r].line, !.quantity = Op[r].quantity],
                                      Op[r])
                     ELSE a
<1>1. ASSUME NEW a \in rows
      PROVE  new(a) \in RowType /\ new(a).id = a.id
  <2>1. a \in RowType
    BY DEF TypeOK
  <2> QED
    BY <2>1, OpTyped DEF RowType, WithOptions
<1>2. Rewritten(r) = {new(a) : a \in rows}
  BY DEF Rewritten
<1> HIDE DEF new
<1>3. \A a \in rows : a.id < nextId /\ \A b \in rows : a.id = b.id => a = b
  BY DEF TypeOK, FreshIds
<1> QED
  BY <1>1, <1>2, <1>3

\* What a write leaves.
LEMMA Writes ==
    ASSUME TypeOK, NEW r \in Requests, WriteUpsert(r) \/ WriteUpdate(r)
    PROVE  /\ pc[r] = "write" /\ UNCHANGED <<found, twin, overlap>>
           /\ \/ pc' = [pc EXCEPT ![r] = "failed"] /\ UNCHANGED <<rows, nextId>>
              \/ /\ pc' = [pc EXCEPT ![r] = "done"]
                 /\ \/ /\ Op[r].method = "upsert" /\ found[r] # 0 /\ UNCHANGED nextId
                       /\ rows' = SetQuantity(rows, found[r], Op[r])
                    \/ /\ Op[r].method = "upsert" /\ found[r] = 0 /\ nextId' = nextId + 1
                       /\ rows' = rows \cup
                             {[id |-> nextId, user |-> Op[r].user, line |-> Op[r].line,
                               quantity |-> Op[r].quantity, options |-> Op[r].line]}
                    \/ /\ Op[r].method = "update" /\ twin[r] # 0 /\ UNCHANGED nextId
                       /\ rows' = Merged(r)
                    \/ /\ Op[r].method = "update" /\ twin[r] = 0 /\ UNCHANGED nextId
                       /\ rows' = Rewritten(r)
  BY DEF WriteUpsert, WriteUpdate, Commit, Finish

LEMMA Finds ==
    ASSUME TypeOK, NEW r \in Requests, FindForUpsert(r) \/ FindForUpdate(r)
    PROVE  /\ UNCHANGED <<rows, nextId>> /\ pc[r] = "idle"
           /\ overlap' = (overlap \/ \E q \in Requests : pc[q] = "write")
           /\ \/ pc' = [pc EXCEPT ![r] = "failed"] /\ UNCHANGED <<found, twin>>
              \/ /\ pc' = [pc EXCEPT ![r] = "write"] /\ StillTrue(r)'
                 /\ found' \in [Requests -> Nat] /\ twin' \in [Requests -> Nat]
<1>0. \A a \in rows : a.id \in Nat \ {0}
  BY DEF TypeOK, RowType
<1>1. CASE FindForUpsert(r)
  <2>1. PICK id \in AnyId({a \in rows : Same(a, Op[r])}) : found' = [found EXCEPT ![r] = id]
    BY <1>1 DEF FindForUpsert
  <2>2. /\ UNCHANGED <<rows, nextId, twin>> /\ pc[r] = "idle" /\ Op[r].method = "upsert"
        /\ overlap' = (overlap \/ \E q \in Requests : pc[q] = "write")
        /\ pc' = [pc EXCEPT ![r] = "write"]
    BY <1>1 DEF FindForUpsert, Start, Finish
  <2>3. id \in Nat /\ found'[r] = id /\ found' \in [Requests -> Nat]
    BY <1>0, <2>1 DEF AnyId, TypeOK
  <2>4. StillTrue(r)'
    BY <1>0, <2>1, <2>2, <2>3 DEF AnyId, StillTrue
  <2> QED
    BY <2>2, <2>3, <2>4 DEF TypeOK
<1>2. CASE FindForUpdate(r)
  <2>1. /\ UNCHANGED <<rows, nextId>> /\ pc[r] = "idle" /\ Op[r].method = "update"
        /\ overlap' = (overlap \/ \E q \in Requests : pc[q] = "write")
    BY <1>2 DEF FindForUpdate, Start
  <2>2. CASE Own(Op[r]) = {}
    BY <1>2, <2>1, <2>2 DEF FindForUpdate, Finish
  <2>3. CASE Own(Op[r]) # {}
    <3>1. PICK id \in AnyId({a \in rows : Same(a, Op[r]) /\ a.id # Op[r].item}) :
             twin' = [twin EXCEPT ![r] = id]
      BY <1>2, <2>3 DEF FindForUpdate
    <3>2. found' = [found EXCEPT ![r] = Op[r].item] /\ pc' = [pc EXCEPT ![r] = "write"]
      BY <1>2, <2>3 DEF FindForUpdate, Finish
    <3>3. /\ id \in Nat /\ twin'[r] = id /\ twin' \in [Requests -> Nat]
          /\ found'[r] = Op[r].item /\ found' \in [Requests -> Nat]
      BY <1>0, <3>1, <3>2, OpTyped DEF AnyId, TypeOK
    <3>4. \E a \in rows : a.id = Op[r].item /\ a.user = Op[r].user
      BY <2>3 DEF Own
    <3>5. \/ id = 0 /\ \A a \in rows : Same(a, Op[r]) => a.id = Op[r].item
          \/ id # Op[r].item /\ \E a \in rows : a.id = id /\ Same(a, Op[r])
      BY <3>1 DEF AnyId
    <3>6. StillTrue(r)'
      BY <2>1, <3>3, <3>4, <3>5 DEF StillTrue
    <3> QED
      BY <2>1, <3>2, <3>3, <3>6
  <2> QED
    BY <2>2, <2>3
<1> QED
  BY <1>1, <1>2

LEMMA Deletes ==
    ASSUME TypeOK, NEW r \in Requests, RemoveCartItem(r) \/ ClearCart(r)
    PROVE  /\ UNCHANGED <<nextId, found, twin>> /\ pc[r] = "idle" /\ rows' \subseteq rows
           /\ overlap' = (overlap \/ \E q \in Requests : pc[q] = "write")
           /\ \E result \in {"done", "failed"} : pc' = [pc EXCEPT ![r] = result]
  BY DEF RemoveCartItem, ClearCart, Start, Finish

LEMMA TypedKept ==
    ASSUME TypeOK, FreshIds, [Next]_vars
    PROVE  TypeOK' /\ FreshIds'
<1>1. ASSUME NEW r \in Requests, WriteUpsert(r) \/ WriteUpdate(r)
      PROVE  TypeOK' /\ FreshIds'
  <2>1. /\ pc' \in [Requests -> {"idle", "write", "done", "failed"}]
        /\ UNCHANGED <<found, twin, overlap>>
    BY <1>1, Writes DEF TypeOK
  <2>2. /\ rows' \subseteq RowType /\ nextId' \in Nat \ {0}
        /\ \A a, b \in rows' : a.id = b.id => a = b
        /\ \A a \in rows' : a.id < nextId'
    <3>1. CASE UNCHANGED <<rows, nextId>>
      BY <3>1 DEF TypeOK, FreshIds
    <3>2. CASE rows' = SetQuantity(rows, found[r], Op[r]) /\ UNCHANGED nextId
      BY <3>2, SetQuantityTyped DEF TypeOK
    <3>3. CASE rows' = Merged(r) /\ UNCHANGED nextId
      BY <3>3, SetQuantityTyped DEF Merged, TypeOK
    <3>4. CASE rows' = Rewritten(r) /\ UNCHANGED nextId
      BY <3>4, RewrittenTyped DEF TypeOK
    <3>5. CASE /\ nextId' = nextId + 1
               /\ rows' = rows \cup
                     {[id |-> nextId, user |-> Op[r].user, line |-> Op[r].line,
                       quantity |-> Op[r].quantity, options |-> Op[r].line]}
      <4> DEFINE new == [id |-> nextId, user |-> Op[r].user, line |-> Op[r].line,
                         quantity |-> Op[r].quantity, options |-> Op[r].line]
      <4>1. new \in RowType /\ new.id = nextId /\ nextId \in Nat \ {0}
        BY OpTyped DEF TypeOK, RowType
      <4>2. rows' = rows \cup {new} /\ nextId' = nextId + 1
        BY <3>5
      <4> HIDE DEF new
      <4>3. \A a \in rows : a.id \in Nat /\ a.id < nextId
        BY DEF TypeOK, FreshIds, RowType
      <4> QED
        BY <4>1, <4>2, <4>3 DEF TypeOK
    <3> QED
      BY <1>1, <3>1, <3>2, <3>3, <3>4, <3>5, Writes
  <2> QED
    BY <2>1, <2>2 DEF TypeOK, FreshIds
<1>2. ASSUME NEW r \in Requests, FindForUpsert(r) \/ FindForUpdate(r)
      PROVE  TypeOK' /\ FreshIds'
  BY <1>2, Finds DEF TypeOK, FreshIds
<1>3. ASSUME NEW r \in Requests, RemoveCartItem(r) \/ ClearCart(r)
      PROVE  TypeOK' /\ FreshIds'
  <2>1. /\ UNCHANGED <<nextId, found, twin>> /\ rows' \subseteq rows /\ overlap' \in BOOLEAN
        /\ pc' \in [Requests -> {"idle", "write", "done", "failed"}]
    BY <1>3, Deletes DEF TypeOK
  <2> QED
    BY <2>1 DEF TypeOK, FreshIds
<1>4. ASSUME NEW r \in Requests, Abort(r)
      PROVE  TypeOK' /\ FreshIds'
  BY <1>4 DEF TypeOK, FreshIds, Abort, Finish
<1>5. CASE UNCHANGED vars
  BY <1>5 DEF TypeOK, FreshIds, vars
<1> QED
  BY <1>1, <1>2, <1>3, <1>4, <1>5 DEF Next

-----------------------------------------------------------------------------
(* The rows of a line *)

Matching(set, u, l) == {a \in set : a.user = u /\ a.line = l}

\* The user's line becomes the one asked for, alone and with its options.
Becomes(r, line) ==
    \E new \in RowType :
        /\ new.quantity = Op[r].quantity /\ new.options = Op[r].line
        /\ \A u \in Users, l \in Lines :
              Matching(rows', u, l) =
                  IF u = Op[r].user /\ l = Op[r].line THEN {new}
                  ELSE IF u = Op[r].user /\ l = line THEN {}
                  ELSE Matching(rows, u, l)

LEMMA MatchingOnce ==
    ASSUME LineStoredOnce, NEW a \in rows
    PROVE  Matching(rows, a.user, a.line) = {a}
  BY DEF LineStoredOnce, Matching

\* The write of a request that found its row, or none.
LEMMA UpsertBecomes ==
    ASSUME TypeOK, Consistent, NEW r \in Requests, StillTrue(r), Op[r].method = "upsert",
           WriteUpsert(r) \/ WriteUpdate(r), pc'[r] = "done"
    PROVE  Becomes(r, Op[r].line)
<1>0. pc[r] \in {"idle", "write", "done", "failed"} /\ pc \in [Requests -> {"idle", "write", "done", "failed"}]
  BY DEF TypeOK
<1>1. CASE found[r] = 0
  <2> DEFINE new == [id |-> nextId, user |-> Op[r].user, line |-> Op[r].line,
                     quantity |-> Op[r].quantity, options |-> Op[r].line]
  <2>1. rows' = rows \cup {new}
    BY <1>0, <1>1, Writes
  <2>2. /\ new \in RowType /\ new.quantity = Op[r].quantity /\ new.options = Op[r].line
        /\ new.user = Op[r].user /\ new.line = Op[r].line
    BY OpTyped DEF TypeOK, RowType
  <2> HIDE DEF new
  <2>3. \A a \in rows : a.id # 0 /\ ~Same(a, Op[r])
    BY <1>1 DEF StillTrue, TypeOK, RowType
  <2>4. \A u \in Users, l \in Lines :
           Matching(rows', u, l) = IF u = Op[r].user /\ l = Op[r].line THEN {new}
                                   ELSE Matching(rows, u, l)
    BY <2>1, <2>2, <2>3 DEF Matching, Same
  <2> QED
    BY <2>2, <2>4 DEF Becomes
<1>2. CASE found[r] # 0
  <2>1. PICK a \in rows : a.id = found[r] /\ Same(a, Op[r])
    BY <1>2 DEF StillTrue
  <2> DEFINE new == WithOptions([a EXCEPT !.quantity = Op[r].quantity], Op[r])
  <2>2. rows' = {IF b.id = found[r]
                 THEN WithOptions([b EXCEPT !.quantity = Op[r].quantity], Op[r]) ELSE b : b \in rows}
    BY <1>0, <1>2, Writes DEF SetQuantity
  <2>3. \A b \in rows : b.id = found[r] <=> b = a
    BY <2>1 DEF TypeOK
  <2>4. rows' = {IF b = a THEN new ELSE b : b \in rows}
    BY <2>2, <2>3
  <2>5. /\ new \in RowType /\ new.quantity = Op[r].quantity /\ new.options = Op[r].line
        /\ new.user = Op[r].user /\ new.line = Op[r].line
    <3>1. a \in RowType
      BY DEF TypeOK
    <3> QED
      BY <2>1, <3>1, OpTyped DEF RowType, WithOptions, Same
  <2> HIDE DEF new
  <2>6. Matching(rows, Op[r].user, Op[r].line) = {a}
    BY <2>1, MatchingOnce DEF Consistent, Same
  <2>7. \A u \in Users, l \in Lines :
           Matching(rows', u, l) = IF u = Op[r].user /\ l = Op[r].line THEN {new}
                                   ELSE Matching(rows, u, l)
    BY <2>1, <2>4, <2>5, <2>6 DEF Matching, Same
  <2> QED
    BY <2>5, <2>7 DEF Becomes
<1> QED
  BY <1>1, <1>2

LEMMA UpdateBecomes ==
    ASSUME TypeOK, Consistent, NEW r \in Requests, StillTrue(r), Op[r].method = "update",
           WriteUpsert(r) \/ WriteUpdate(r), pc'[r] = "done",
           NEW a \in rows, a.id = found[r], a.user = Op[r].user
    PROVE  Becomes(r, a.line)
<1>0. /\ pc \in [Requests -> {"idle", "write", "done", "failed"}]
      /\ a \in RowType /\ \A b \in rows : b \in RowType /\ (b.id = found[r] <=> b = a)
  BY DEF TypeOK
<1>1. CASE twin[r] = 0
  <2> DEFINE new == WithOptions([a EXCEPT !.line = Op[r].line, !.quantity = Op[r].quantity], Op[r])
  <2>1. rows' = Rewritten(r)
    BY <1>0, <1>1, Writes
  <2>2. rows' = {IF b = a THEN new ELSE b : b \in rows}
    BY <1>0, <2>1 DEF Rewritten
  <2>3. /\ new \in RowType /\ new.quantity = Op[r].quantity /\ new.options = Op[r].line
        /\ new.user = Op[r].user /\ new.line = Op[r].line
    BY <1>0, OpTyped DEF RowType, WithOptions
  <2> HIDE DEF new
  <2>4. \A b \in rows : Same(b, Op[r]) => b = a
    BY <1>0, <1>1 DEF StillTrue, RowType
  <2>5. Matching(rows, Op[r].user, a.line) = {a}
    BY MatchingOnce DEF Consistent
  <2>6. \A u \in Users, l \in Lines :
           Matching(rows', u, l) =
               IF u = Op[r].user /\ l = Op[r].line THEN {new}
               ELSE IF u = Op[r].user /\ l = a.line THEN {} ELSE Matching(rows, u, l)
    BY <2>2, <2>3, <2>4, <2>5 DEF Matching, Same
  <2> QED
    BY <2>3, <2>6 DEF Becomes
<1>2. CASE twin[r] # 0
  <2>1. PICK b \in rows : b.id = twin[r] /\ Same(b, Op[r]) /\ b # a
    BY <1>0, <1>2 DEF StillTrue
  <2> DEFINE new == WithOptions([b EXCEPT !.quantity = Op[r].quantity], Op[r])
  <2>2. rows' = {d \in SetQuantity(rows, twin[r], Op[r]) : d.id # found[r]}
    BY <1>0, <1>2, Writes DEF Merged
  <2>3. \A d \in rows : d.id = twin[r] <=> d = b
    BY <2>1 DEF TypeOK
  <2>4. SetQuantity(rows, twin[r], Op[r]) = {IF d = b THEN new ELSE d : d \in rows}
    BY <2>3 DEF SetQuantity
  <2>5. /\ new \in RowType /\ new.quantity = Op[r].quantity /\ new.options = Op[r].line
        /\ new.user = Op[r].user /\ new.line = Op[r].line /\ new.id = twin[r]
    BY <1>0, <2>1, OpTyped DEF RowType, WithOptions, Same
  <2> HIDE DEF new
  <2>6. rows' = {new} \cup {d \in rows : d # a /\ d # b}
    BY <1>0, <2>1, <2>2, <2>4, <2>5
  <2>7. /\ Matching(rows, Op[r].user, a.line) = {a}
        /\ Matching(rows, Op[r].user, Op[r].line) = {b}
    BY <2>1, MatchingOnce DEF Consistent, Same
  <2>8. \A u \in Users, l \in Lines :
           Matching(rows', u, l) =
               IF u = Op[r].user /\ l = Op[r].line THEN {new}
               ELSE IF u = Op[r].user /\ l = a.line THEN {} ELSE Matching(rows, u, l)
    BY <2>1, <2>5, <2>6, <2>7 DEF Matching, Same
  <2> QED
    BY <2>5, <2>8 DEF Becomes
<1> QED
  BY <1>1, <1>2

LEMMA BecomesConsistent ==
    ASSUME TypeOK', Consistent, NEW r \in Requests, NEW line, Becomes(r, line)
    PROVE  Consistent'
<1>1. PICK new \in RowType :
         /\ new.options = Op[r].line
         /\ \A u \in Users, l \in Lines :
               Matching(rows', u, l) = IF u = Op[r].user /\ l = Op[r].line THEN {new}
                                       ELSE IF u = Op[r].user /\ l = line THEN {}
                                       ELSE Matching(rows, u, l)
  BY DEF Becomes
<1>2. \A a \in rows' : /\ a.user \in Users /\ a.line \in Lines
                       /\ a \in Matching(rows', a.user, a.line)
  BY DEF TypeOK, RowType, Matching
<1>3. ASSUME NEW a \in rows'
      PROVE  a.options = a.line
  BY <1>1, <1>2 DEF Matching, Consistent
<1>4. ASSUME NEW a \in rows', NEW b \in rows', a.user = b.user, a.line = b.line
      PROVE  a = b
  <2>1. a \in Matching(rows', a.user, a.line) /\ b \in Matching(rows', a.user, a.line)
    BY <1>2, <1>4
  <2> QED
    BY <1>1, <1>2, <2>1 DEF Matching, Consistent, LineStoredOnce
<1> QED
  BY <1>3, <1>4 DEF Consistent, LineStoredOnce

\* The line a request leaves, when it writes.
LEMMA WriteBecomes ==
    ASSUME TypeOK, Consistent, NEW r \in Requests, StillTrue(r),
           WriteUpsert(r) \/ WriteUpdate(r), pc'[r] = "done"
    PROVE  \/ Op[r].method = "upsert" /\ Becomes(r, Op[r].line)
           \/ Op[r].method = "update" /\ \E a \in Own(Op[r]) : Becomes(r, a.line)
<1>1. CASE Op[r].method = "upsert"
  BY <1>1, UpsertBecomes
<1>2. CASE Op[r].method = "update"
  <2>1. PICK a \in rows : a.id = found[r] /\ a.user = Op[r].user
    BY <1>2 DEF StillTrue
  <2>2. a \in Own(Op[r])
    BY <1>2, <2>1 DEF StillTrue, Own
  <2> QED
    BY <1>2, <2>1, <2>2, UpdateBecomes
<1> QED
  BY <1>1, <1>2 DEF StillTrue

LEMMA ConsistentKept ==
    ASSUME StoreInv, [Next]_vars, TypeOK', ~overlap'
    PROVE  Consistent' /\ OneAtATime'
<1>0. pc \in [Requests -> {"idle", "write", "done", "failed"}] /\ TypeOK
  BY DEF StoreInv, TypeOK
<1>1. ASSUME NEW r \in Requests, WriteUpsert(r) \/ WriteUpdate(r)
      PROVE  Consistent' /\ OneAtATime'
  <2>1. Consistent /\ OneAtATime /\ StillTrue(r)
    BY <1>0, <1>1, Writes DEF StoreInv, OneAtATime
  <2>2. CASE pc' = [pc EXCEPT ![r] = "failed"] /\ UNCHANGED rows
    <3>1. \A q \in Requests : pc'[q] # "write"
      BY <1>0, <1>1, <2>1, <2>2, Writes DEF OneAtATime
    <3> QED
      BY <2>1, <2>2, <3>1 DEF Consistent, LineStoredOnce, OneAtATime
  <2>3. CASE pc' = [pc EXCEPT ![r] = "done"]
    <3>1. \A q \in Requests : pc'[q] # "write"
      BY <1>0, <1>1, <2>1, <2>3, Writes DEF OneAtATime
    <3>2. pc'[r] = "done"
      BY <1>0, <2>3
    <3>3. Consistent'
      BY <1>0, <1>1, <2>1, <3>2, WriteBecomes, BecomesConsistent
    <3> QED
      BY <3>1, <3>3 DEF OneAtATime
  <2> QED
    BY <1>0, <1>1, <2>2, <2>3, Writes
<1>2. ASSUME NEW r \in Requests, FindForUpsert(r) \/ FindForUpdate(r)
      PROVE  Consistent' /\ OneAtATime'
  <2>1. UNCHANGED rows /\ ~overlap /\ \A q \in Requests : pc[q] # "write"
    BY <1>0, <1>2, Finds
  <2>2. Consistent'
    BY <2>1 DEF StoreInv, Consistent, LineStoredOnce
  <2>3. CASE pc' = [pc EXCEPT ![r] = "failed"]
    <3>1. \A q \in Requests : pc'[q] # "write"
      BY <1>0, <2>1, <2>3
    <3> QED
      BY <2>2, <3>1 DEF OneAtATime
  <2>4. CASE pc' = [pc EXCEPT ![r] = "write"] /\ StillTrue(r)'
    <3>1. \A q \in Requests : pc'[q] = "write" => q = r
      BY <1>0, <2>1, <2>4
    <3> QED
      BY <2>2, <2>4, <3>1 DEF OneAtATime
  <2> QED
    BY <1>0, <1>2, <2>3, <2>4, Finds
<1>3. ASSUME NEW r \in Requests, RemoveCartItem(r) \/ ClearCart(r)
      PROVE  Consistent' /\ OneAtATime'
  <2>1. rows' \subseteq rows /\ ~overlap /\ \A q \in Requests : pc[q] # "write"
    BY <1>0, <1>3, Deletes
  <2>2. Consistent'
    BY <2>1 DEF StoreInv, Consistent, LineStoredOnce
  <2>3. \A q \in Requests : pc'[q] # "write"
    BY <1>0, <1>3, <2>1, Deletes
  <2> QED
    BY <2>2, <2>3 DEF OneAtATime
<1>4. ASSUME NEW r \in Requests, Abort(r)
      PROVE  Consistent' /\ OneAtATime'
  <2>1. /\ UNCHANGED <<rows, overlap>> /\ pc[r] = "write"
        /\ pc' = [pc EXCEPT ![r] = "failed"]
    BY <1>4 DEF Abort, Finish
  <2>2. Consistent /\ OneAtATime
    BY <2>1 DEF StoreInv
  <2>3. \A q \in Requests : pc'[q] # "write"
    BY <1>0, <2>1, <2>2 DEF OneAtATime
  <2> QED
    BY <2>1, <2>2, <2>3 DEF Consistent, LineStoredOnce, OneAtATime
<1>5. CASE UNCHANGED vars
  BY <1>5 DEF vars, StoreInv, Consistent, LineStoredOnce, OneAtATime, StillTrue
<1> QED
  BY <1>1, <1>2, <1>3, <1>4, <1>5 DEF Next

LEMMA StoreInvHolds == Spec => []StoreInv
<1>1. ASSUME Init
      PROVE  StoreInv
  <2>1. /\ pc \in [Requests -> {"idle", "write", "done", "failed"}] /\ overlap \in BOOLEAN
        /\ found \in [Requests -> Nat] /\ twin \in [Requests -> Nat]
    BY <1>1 DEF Init
  <2>2. /\ rows \subseteq RowType /\ nextId \in Nat \ {0} /\ \A a \in rows : a.id < nextId
        /\ \A a, b \in rows : a.id = b.id => a = b
    BY <1>1, CartStoreAssumption DEF Init
  <2>3. Consistent /\ OneAtATime
    BY <1>1, CartStoreAssumption DEF Init, Consistent, LineStoredOnce, OneAtATime
  <2> QED
    BY <2>1, <2>2, <2>3 DEF StoreInv, TypeOK, FreshIds
<1>2. ASSUME StoreInv, [Next]_vars
      PROVE  StoreInv'
  BY <1>2, TypedKept, ConsistentKept DEF StoreInv
<1> QED
  BY <1>1, <1>2, PTL DEF Spec

\* Requests that do not overlap leave one row for a line, with the options of the
\* request that wrote it last: all that keeps a line single is the SELECT that
\* UpsertCartItem and UpdateCartItem make before they write.
THEOREM LinesStaySingle == Spec => []CartConsistent
<1>1. StoreInv => CartConsistent
  BY DEF StoreInv, Consistent, CartConsistent
<1> QED
  BY <1>1, StoreInvHolds, PTL

-----------------------------------------------------------------------------
(* The cart the table stands for *)

Any(set) == CHOOSE a \in set : TRUE

QuantityIn(set, u, l) ==
    IF Matching(set, u, l) = {} THEN 0 ELSE Any(Matching(set, u, l)).quantity

LEMMA QuantityOfRows ==
    /\ \A u, l : QuantityOf(u, l) = QuantityIn(rows, u, l)
    /\ \A u, l : QuantityOf(u, l)' = QuantityIn(rows', u, l)
  BY DEF QuantityOf, QuantityIn, Matching, Any

LEMMA QuantityInCases ==
    ASSUME NEW set, NEW u, NEW l
    PROVE  /\ Matching(set, u, l) = {} => QuantityIn(set, u, l) = 0
           /\ \A a : Matching(set, u, l) = {a} => QuantityIn(set, u, l) = a.quantity
           /\ \A other : Matching(set, u, l) = Matching(other, u, l) =>
                 QuantityIn(set, u, l) = QuantityIn(other, u, l)
<1>1. \A a : Any({a}) = a
  BY DEF Any
<1> QED
  BY <1>1 DEF QuantityIn

\* One row per line makes the quantity of a line that of its row.
LEMMA QuantityTyped ==
    ASSUME TypeOK, Consistent
    PROVE  /\ Quantity \in [Users -> [Lines -> Quantities \cup {0}]]
           /\ \A a \in rows : a.user \in Users /\ a.line \in Lines /\ a.quantity > 0
                              /\ Quantity[a.user][a.line] = a.quantity
<1>1. ASSUME NEW a \in rows
      PROVE  /\ a.user \in Users /\ a.line \in Lines /\ a.quantity > 0
             /\ a.quantity \in Quantities /\ QuantityIn(rows, a.user, a.line) = a.quantity
  <2>1. a \in RowType
    BY DEF TypeOK
  <2>2. /\ a.user \in Users /\ a.line \in Lines
        /\ a.quantity \in Quantities /\ a.quantity \in Nat \ {0}
    BY <2>1, CartStoreAssumption DEF RowType
  <2> QED
    BY <2>2, MatchingOnce, QuantityInCases DEF Consistent
<1>2. ASSUME NEW u \in Users, NEW l \in Lines
      PROVE  QuantityIn(rows, u, l) \in Quantities \cup {0}
  <2>1. CASE Matching(rows, u, l) = {}
    BY <2>1, QuantityInCases
  <2>2. CASE Matching(rows, u, l) # {}
    <3>1. PICK a \in rows : a.user = u /\ a.line = l
      BY <2>2 DEF Matching
    <3> QED
      BY <1>1, <3>1
  <2> QED
    BY <2>1, <2>2
<1>3. \A u \in Users, l \in Lines : Quantity[u][l] = QuantityIn(rows, u, l)
  BY QuantityOfRows DEF Quantity
<1>4. Quantity \in [Users -> [Lines -> Quantities \cup {0}]]
  BY <1>2, QuantityOfRows DEF Quantity
<1> QED
  BY <1>1, <1>3, <1>4

\* The abstract operations, cell by cell.
LEMMA ReplacedCells ==
    ASSUME NEW S, NEW Q \in [Users -> [Lines -> S]],
           NEW u \in Users, NEW l \in Lines, NEW m \in Lines, NEW q
    PROVE  [Q EXCEPT ![u] = [@ EXCEPT ![l] = 0, ![m] = q]] =
               [v \in Users |-> [k \in Lines |-> IF v = u /\ k = m THEN q
                                                 ELSE IF v = u /\ k = l THEN 0 ELSE Q[v][k]]]
<1>1. Q[u] \in [Lines -> S]
  OBVIOUS
<1>2. [Q[u] EXCEPT ![l] = 0] = [k \in Lines |-> IF k = l THEN 0 ELSE Q[u][k]]
  BY <1>1
<1>3. [Q[u] EXCEPT ![l] = 0, ![m] = q] =
          [k \in Lines |-> IF k = m THEN q ELSE IF k = l THEN 0 ELSE Q[u][k]]
  BY <1>2
<1>4. \A v \in Users : Q[v] = [k \in Lines |-> Q[v][k]]
  OBVIOUS
<1>5. [Q EXCEPT ![u] = [@ EXCEPT ![l] = 0, ![m] = q]] =
          [v \in Users |-> IF v = u THEN [Q[u] EXCEPT ![l] = 0, ![m] = q] ELSE Q[v]]
  OBVIOUS
<1>6. ASSUME NEW v \in Users
      PROVE  (IF v = u THEN [Q[u] EXCEPT ![l] = 0, ![m] = q] ELSE Q[v]) =
                 [k \in Lines |-> IF v = u /\ k = m THEN q
                                  ELSE IF v = u /\ k = l THEN 0 ELSE Q[v][k]]
  <2>1. CASE v = u
    BY <1>3, <2>1
  <2>2. CASE v # u
    BY <1>4, <2>2
  <2> QED
    BY <2>1, <2>2
<1> QED
  BY <1>5, <1>6

LEMMA PutCells ==
    ASSUME NEW S, NEW Q \in [Users -> [Lines -> S]],
           NEW u \in Users, NEW m \in Lines, NEW q
    PROVE  [Q EXCEPT ![u][m] = q] =
               [v \in Users |-> [k \in Lines |-> IF v = u /\ k = m THEN q ELSE Q[v][k]]]
<1>1. Q[u] \in [Lines -> S]
  OBVIOUS
<1>3. [Q[u] EXCEPT ![m] = q] = [k \in Lines |-> IF k = m THEN q ELSE Q[u][k]]
  BY <1>1
<1>4. \A v \in Users : Q[v] = [k \in Lines |-> Q[v][k]]
  OBVIOUS
<1>5. [Q EXCEPT ![u][m] = q] = [v \in Users |-> IF v = u THEN [Q[u] EXCEPT ![m] = q] ELSE Q[v]]
  OBVIOUS
<1>6. ASSUME NEW v \in Users
      PROVE  (IF v = u THEN [Q[u] EXCEPT ![m] = q] ELSE Q[v]) =
                 [k \in Lines |-> IF v = u /\ k = m THEN q ELSE Q[v][k]]
  <2>1. CASE v = u
    BY <1>3, <2>1
  <2>2. CASE v # u
    BY <1>4, <2>2
  <2> QED
    BY <2>1, <2>2
<1> QED
  BY <1>5, <1>6

LEMMA EmptiedCells ==
    ASSUME NEW S, NEW Q \in [Users -> [Lines -> S]], NEW u \in Users
    PROVE  [Q EXCEPT ![u] = [l \in Lines |-> 0]] =
               [v \in Users |-> [k \in Lines |-> IF v = u THEN 0 ELSE Q[v][k]]]
<1>1. \A v \in Users : Q[v] = [k \in Lines |-> Q[v][k]]
  OBVIOUS
<1>2. ASSUME NEW v \in Users
      PROVE  (IF v = u THEN [k \in Lines |-> 0] ELSE Q[v]) =
                 [k \in Lines |-> IF v = u THEN 0 ELSE Q[v][k]]
  BY <1>1
<1> QED
  BY <1>2

\* The quantities of a table, cell by cell.
LEMMA QuantityCells ==
    /\ Quantity = [u \in Users |-> [l \in Lines |-> QuantityIn(rows, u, l)]]
    /\ Quantity' = [u \in Users |-> [l \in Lines |-> QuantityIn(rows', u, l)]]
  BY QuantityOfRows DEF Quantity

\* A write does to the quantities what it does to the rows.
LEMMA BecomesReplaces ==
    ASSUME NEW r \in Requests, NEW line \in Lines, Becomes(r, line)
    PROVE  Quantity' = [u \in Users |-> [l \in Lines |->
               IF u = Op[r].user /\ l = Op[r].line THEN Op[r].quantity
               ELSE IF u = Op[r].user /\ l = line THEN 0 ELSE Quantity[u][l]]]
<1>1. PICK new \in RowType :
         /\ new.quantity = Op[r].quantity
         /\ \A u \in Users, l \in Lines :
               Matching(rows', u, l) = IF u = Op[r].user /\ l = Op[r].line THEN {new}
                                       ELSE IF u = Op[r].user /\ l = line THEN {}
                                       ELSE Matching(rows, u, l)
  BY DEF Becomes
<1>2. ASSUME NEW u \in Users, NEW l \in Lines
      PROVE  QuantityIn(rows', u, l) = IF u = Op[r].user /\ l = Op[r].line THEN Op[r].quantity
                                       ELSE IF u = Op[r].user /\ l = line THEN 0
                                       ELSE QuantityIn(rows, u, l)
  BY <1>1, QuantityInCases
<1>3. \A u \in Users, l \in Lines : Quantity[u][l] = QuantityIn(rows, u, l)
  BY QuantityCells
<1> QED
  BY <1>2, <1>3, QuantityCells

LEMMA WritesImplementCart ==
    ASSUME TypeOK, Consistent, NEW r \in Requests, StillTrue(r),
           WriteUpsert(r) \/ WriteUpdate(r), pc'[r] = "done"
    PROVE  Does(Op[r])
<1>1. Quantity \in [Users -> [Lines -> Quantities \cup {0}]]
  BY QuantityTyped
<1>2. CASE Op[r].method = "upsert" /\ Becomes(r, Op[r].line)
  <2>1. Quantity' = [u \in Users |-> [l \in Lines |->
            IF u = Op[r].user /\ l = Op[r].line THEN Op[r].quantity
            ELSE IF u = Op[r].user /\ l = Op[r].line THEN 0 ELSE Quantity[u][l]]]
    BY <1>2, BecomesReplaces, OpTyped
  <2>2. Quantity' = [u \in Users |-> [l \in Lines |->
            IF u = Op[r].user /\ l = Op[r].line THEN Op[r].quantity ELSE Quantity[u][l]]]
    BY <2>1
  <2>3. Quantity' = [Quantity EXCEPT ![Op[r].user][Op[r].line] = Op[r].quantity]
    BY <1>1, <2>2, PutCells, OpTyped
  <2>4. Abstract!Put(Op[r].user, Op[r].line, Op[r].quantity)
    BY <2>3 DEF Abstract!Put
  <2> QED
    BY <1>2, <2>4 DEF Does
<1>3. CASE Op[r].method = "update" /\ \E a \in Own(Op[r]) : Becomes(r, a.line)
  <2>1. PICK a \in Own(Op[r]) : Becomes(r, a.line)
    BY <1>3
  <2>2. a \in rows /\ a.user = Op[r].user
    BY DEF Own
  <2>3. a.line \in Lines /\ Quantity[Op[r].user][a.line] > 0
    BY <2>2, QuantityTyped
  <2>4. Quantity' = [u \in Users |-> [l \in Lines |->
            IF u = Op[r].user /\ l = Op[r].line THEN Op[r].quantity
            ELSE IF u = Op[r].user /\ l = a.line THEN 0 ELSE Quantity[u][l]]]
    BY <2>1, <2>3, BecomesReplaces
  <2>5. Quantity' = [Quantity EXCEPT ![Op[r].user] =
                        [@ EXCEPT ![a.line] = 0, ![Op[r].line] = Op[r].quantity]]
    BY <1>1, <2>3, <2>4, ReplacedCells, OpTyped
  <2>6. Abstract!Replace(Op[r].user, a.line, Op[r].line, Op[r].quantity)
    BY <2>3, <2>5 DEF Abstract!Replace
  <2> QED
    BY <1>3, <2>6 DEF Does
<1> QED
  BY <1>2, <1>3, WriteBecomes

LEMMA RemoveImplementsCart ==
    ASSUME TypeOK, Consistent, NEW r \in Requests, RemoveCartItem(r)
    PROVE  IF pc'[r] = "done" THEN Does(Op[r]) ELSE UNCHANGED Quantity
<1>1. Quantity \in [Users -> [Lines -> Quantities \cup {0}]]
  BY QuantityTyped
<1>2. /\ rows' = rows \ Own(Op[r]) /\ Op[r].method = "remove"
      /\ pc'[r] = IF Own(Op[r]) = {} THEN "failed" ELSE "done"
  BY DEF RemoveCartItem, Start, Finish, TypeOK
<1>3. CASE Own(Op[r]) = {}
  BY <1>2, <1>3, QuantityCells
<1>4. CASE Own(Op[r]) # {}
  <2>1. PICK a \in Own(Op[r]) : TRUE
    BY <1>4
  <2>2. a \in rows /\ a.user = Op[r].user /\ Own(Op[r]) = {a}
    BY DEF Own, TypeOK
  <2>3. a.user \in Users /\ a.line \in Lines /\ Matching(rows, a.user, a.line) = {a}
    BY <2>2, QuantityTyped, MatchingOnce DEF Consistent
  <2>4. \A u \in Users, l \in Lines :
           Matching(rows', u, l) = IF u = Op[r].user /\ l = a.line THEN {}
                                   ELSE Matching(rows, u, l)
    BY <1>2, <2>2, <2>3 DEF Matching
  <2>5. \A u \in Users, l \in Lines :
           QuantityIn(rows', u, l) = IF u = Op[r].user /\ l = a.line THEN 0 ELSE Quantity[u][l]
    BY <2>4, QuantityInCases, QuantityCells
  <2>6. Quantity' = [u \in Users |-> [l \in Lines |->
            IF u = Op[r].user /\ l = a.line THEN 0 ELSE Quantity[u][l]]]
    BY <2>5, QuantityCells
  <2>7. Quantity' = [Quantity EXCEPT ![Op[r].user][a.line] = 0]
    BY <1>1, <2>2, <2>3, <2>6, PutCells
  <2>8. Abstract!Drop(Op[r].user, a.line)
    BY <2>7 DEF Abstract!Drop
  <2> QED
    BY <1>2, <1>4, <2>1, <2>8 DEF Does
<1> QED
  BY <1>3, <1>4

LEMMA ClearImplementsCart ==
    ASSUME TypeOK, Consistent, NEW r \in Requests, ClearCart(r)
    PROVE  Does(Op[r])
<1>1. Quantity \in [Users -> [Lines -> Quantities \cup {0}]]
  BY QuantityTyped
<1>2. rows' = {a \in rows : a.user # Op[r].user} /\ Op[r].method = "clear"
  BY DEF ClearCart, Start
<1>3. \A u \in Users, l \in Lines :
         Matching(rows', u, l) = IF u = Op[r].user THEN {} ELSE Matching(rows, u, l)
  BY <1>2 DEF Matching
<1>4. \A u \in Users, l \in Lines :
         QuantityIn(rows', u, l) = IF u = Op[r].user THEN 0 ELSE Quantity[u][l]
  BY <1>3, QuantityInCases, QuantityCells
<1>5. Quantity' = [u \in Users |-> [l \in Lines |->
          IF u = Op[r].user THEN 0 ELSE Quantity[u][l]]]
  BY <1>4, QuantityCells
<1>6. Quantity' = [Quantity EXCEPT ![Op[r].user] = [l \in Lines |-> 0]]
  BY <1>1, <1>5, EmptiedCells, OpTyped
<1>7. Abstract!Empty(Op[r].user)
  BY <1>6 DEF Abstract!Empty
<1> QED
  BY <1>2, <1>7 DEF Does

LEMMA StepsImplementCart ==
    ASSUME StoreInv, [Next]_vars, ~overlap', NEW r \in Requests, pc'[r] # pc[r]
    PROVE  IF pc'[r] = "done" THEN Does(Op[r]) ELSE UNCHANGED Quantity
<1>0. /\ TypeOK /\ pc \in [Requests -> {"idle", "write", "done", "failed"}]
      /\ UNCHANGED rows => UNCHANGED Quantity
  BY QuantityCells DEF StoreInv, TypeOK
<1>1. ASSUME NEW q \in Requests, WriteUpsert(q) \/ WriteUpdate(q)
      PROVE  IF pc'[r] = "done" THEN Does(Op[r]) ELSE UNCHANGED Quantity
  <2>1. /\ ~overlap /\ pc[q] = "write" /\ pc'[r] \in {"done", "failed"} /\ q = r
        /\ pc'[r] = "failed" => UNCHANGED rows
    BY <1>0, <1>1, Writes
  <2>2. Consistent /\ StillTrue(r)
    BY <2>1 DEF StoreInv, OneAtATime
  <2>3. CASE pc'[r] = "done"
    BY <1>0, <1>1, <2>1, <2>2, <2>3, WritesImplementCart
  <2>4. CASE pc'[r] = "failed"
    BY <1>0, <2>1, <2>4
  <2> QED
    BY <2>1, <2>3, <2>4
<1>2. ASSUME NEW q \in Requests, FindForUpsert(q) \/ FindForUpdate(q)
      PROVE  IF pc'[r] = "done" THEN Does(Op[r]) ELSE UNCHANGED Quantity
  BY <1>0, <1>2, Finds
<1>3. ASSUME NEW q \in Requests, RemoveCartItem(q) \/ ClearCart(q)
      PROVE  IF pc'[r] = "done" THEN Does(Op[r]) ELSE UNCHANGED Quantity
  <2>1. ~overlap /\ q = r
    BY <1>0, <1>3, Deletes
  <2>2. Consistent
    BY <2>1 DEF StoreInv
  <2>3. CASE RemoveCartItem(r)
    BY <1>0, <2>2, <2>3, RemoveImplementsCart
  <2>4. CASE ClearCart(r)
    <3>1. pc'[r] = "done"
      BY <1>0, <2>4 DEF ClearCart, Finish
    <3> QED
      BY <1>0, <2>2, <2>4, <3>1, ClearImplementsCart
  <2> QED
    BY <1>3, <2>1, <2>3, <2>4
<1>4. ASSUME NEW q \in Requests, Abort(q)
      PROVE  IF pc'[r] = "done" THEN Does(Op[r]) ELSE UNCHANGED Quantity
  BY <1>0, <1>4 DEF Abort, Finish
<1>5. ~UNCHANGED vars
  BY DEF vars
<1> QED
  BY <1>1, <1>2, <1>3, <1>4, <1>5 DEF Next

\* The four repository methods, handled one at a time, do to the table what their
\* callers mean by them: put a quantity on a line, turn one line into another,
\* drop a line, empty the cart; and one that fails leaves the cart as it was.
THEOREM CartIsImplemented == Spec => ImplementsCart
<1>1. StoreInv /\ [Next]_vars =>
          [~overlap' => \A r \in Requests : pc'[r] # pc[r] =>
              IF pc'[r] = "done" THEN Does(Op[r]) ELSE UNCHANGED Quantity]_vars
  BY StepsImplementCart
<1>2. Init => Abstract!CartInit
  <2>1. Init => TypeOK /\ Consistent
    <3> SUFFICES ASSUME Init
                 PROVE  TypeOK /\ Consistent
      OBVIOUS
    <3>1. rows \subseteq RowType /\ nextId \in Nat \ {0} /\ \A a, b \in rows : a.id = b.id => a = b
      BY CartStoreAssumption DEF Init
    <3>2. /\ pc \in [Requests -> {"idle", "write", "done", "failed"}] /\ overlap \in BOOLEAN
          /\ found \in [Requests -> Nat] /\ twin \in [Requests -> Nat]
      BY DEF Init
    <3>3. Consistent
      BY CartStoreAssumption DEF Init, Consistent, LineStoredOnce
    <3> QED
      BY <3>1, <3>2, <3>3 DEF TypeOK
  <2> QED
    BY <2>1, QuantityTyped DEF Abstract!CartInit
<1> QED
  BY <1>1, <1>2, StoreInvHolds, PTL DEF Spec, ImplementsCart
=============================================================================
