---------------------------- MODULE PlatformProofs ----------------------------
(***************************************************************************)
(* Proofs about what runs beside the requests: the migrations that workers *)
(* start with (Migrations), the orders they take out of the queue          *)
(* (OrderQueue), and the keys handlers know a token by (SigningKeys).      *)
(***************************************************************************)
EXTENDS OrderQueue, SigningKeys, FiniteSetTheorems, SequenceTheorems, WellFoundedInduction, TLAPS

-----------------------------------------------------------------------------
(* Types *)

Place == [step : {"CHECK", "LOOK", "EXECUTE", "RUNNING", "EXITED"},
          file : Nat \ {0}, next : Nat \ {0}, acts : BOOLEAN]

MigrationTypeOK ==
    /\ schema \in [Things -> Forms \cup {"ABSENT"}]
    /\ recorded \subseteq DOMAIN Migration
    /\ at \in [Processes -> Place]

Reported == {"READY_TO_COLLECT", "UNPAID"}
Status == {"NONE", "QUEUED", "PROCESSING", "COMPLETED", "FAILED"} \cup Reported

QueueTypeOK ==
    /\ status \in [Orders -> Status]
    /\ selected \in [Processes -> SUBSET Orders]
    /\ batch \in [Processes -> Seq(Orders)]
    /\ failing \subseteq Processes
    /\ orphaned \subseteq Orders /\ lost \subseteq Orders

-----------------------------------------------------------------------------
(* Migrations *)

\* Where a process is, and that all files before its own are recorded.
BehindIsRecorded(p) ==
    /\ \A f \in 1..at[p].file - 1 : f \in recorded
    /\ at[p].step \in {"LOOK", "EXECUTE"} =>
           at[p].file \in DOMAIN Migration /\ at[p].next <= Len(Migration[at[p].file]) + 1
    /\ at[p].step = "EXECUTE" => at[p].next <= Len(Migration[at[p].file])
    /\ Running(p) => recorded = DOMAIN Migration

RecordedInOrder == \A f \in recorded : \A g \in 1..f - 1 : g \in recorded

\* Who applies a file that is recorded, or that another applies, shares it.
SharingIsKnown ==
    \A p \in Processes : \A f \in DOMAIN Migration :
        /\ Applies(p, f)
        /\ f \in recorded \/ \E q \in Processes : q # p /\ Applies(q, f)
      => f \in shared

\* A process has executed statement k of the file it applies, or has found nothing to do.
Done(p, f, k) ==
    /\ Applies(p, f)
    /\ k < at[p].next \/ (k = at[p].next /\ at[p].step = "EXECUTE" /\ ~at[p].acts)

DoneIsInEffect ==
    \A f \in DOMAIN Migration : \A k \in DOMAIN Migration[f] :
        /\ f \in recorded \/ \E p \in Processes : Done(p, f, k)
        /\ Lasts(f, k)
      => InEffect(Migration[f][k])

MigrationInv ==
    /\ MigrationTypeOK
    /\ \A p \in Processes : BehindIsRecorded(p)
    /\ RecordedInOrder /\ SharingIsKnown /\ DoneIsInEffect

\* The files and their statements, as the assumption gives them.
LEMMA FilesTyped ==
    /\ Len(Migration) \in Nat /\ DOMAIN Migration = 1..Len(Migration)
    /\ \A f \in DOMAIN Migration :
           /\ Len(Migration[f]) \in Nat /\ DOMAIN Migration[f] = 1..Len(Migration[f])
           /\ \A k \in DOMAIN Migration[f] : Migration[f][k] \in Statements
<1>1. Len(Migration) \in Nat /\ DOMAIN Migration = 1..Len(Migration)
  BY MigrationAssumption, LenProperties
<1>2. ASSUME NEW f \in DOMAIN Migration
      PROVE  /\ Len(Migration[f]) \in Nat /\ DOMAIN Migration[f] = 1..Len(Migration[f])
             /\ \A k \in DOMAIN Migration[f] : Migration[f][k] \in Statements
  <2>1. Migration[f] \in Seq(Statements)
    BY MigrationAssumption, LenProperties
  <2> QED
    BY <2>1, LenProperties
<1> QED
  BY <1>1, <1>2

LEMMA LastsBefore ==
    ASSUME shared \subseteq shared', NEW f, NEW k, Lasts(f, k)'
    PROVE  Lasts(f, k)
  BY DEF Lasts

\* One process moves, and the schema stays.
LEMMA MovesKeepInv ==
    ASSUME MigrationInv, NEW p \in Processes, NEW place \in Place,
           at' = [at EXCEPT ![p] = place], UNCHANGED <<schema, recorded>>,
           shared \subseteq shared', BehindIsRecorded(p)',
           \A f \in DOMAIN Migration : Applies(p, f)' =>
               \/ Applies(p, f)
               \/ f \notin recorded /\ ((\E q \in Processes : Applies(q, f)) => f \in shared'),
           \A f \in DOMAIN Migration : \A k \in DOMAIN Migration[f] :
               Done(p, f, k)' => Done(p, f, k) \/ InEffect(Migration[f][k])
    PROVE  MigrationInv'
<1>1. MigrationTypeOK' /\ \A q \in Processes : q # p => at'[q] = at[q]
  BY DEF MigrationInv, MigrationTypeOK
<1>2. ASSUME NEW q \in Processes, q # p
      PROVE  /\ BehindIsRecorded(q)'
             /\ \A f : Applies(q, f)' <=> Applies(q, f)
             /\ \A f, k : Done(q, f, k)' <=> Done(q, f, k)
  <2>1. at'[q] = at[q] /\ recorded' = recorded /\ BehindIsRecorded(q)
    BY <1>1, <1>2 DEF MigrationInv
  <2> QED
    BY <2>1 DEF BehindIsRecorded, Running, Applies, Done
<1>3. ASSUME NEW q \in Processes PROVE BehindIsRecorded(q)'
  BY <1>2
<1>4. RecordedInOrder'
  BY DEF MigrationInv, RecordedInOrder
<1>5. SharingIsKnown'
  <2>1. ASSUME NEW q \in Processes, NEW f \in DOMAIN Migration, Applies(q, f)',
               f \in recorded \/ \E r \in Processes : r # q /\ Applies(r, f)'
        PROVE  f \in shared'
    <3>1. CASE q = p
      <4>1. f \in recorded \/ \E r \in Processes : r # p /\ Applies(r, f)
        BY <1>2, <2>1, <3>1
      <4> QED
        BY <2>1, <3>1, <4>1 DEF MigrationInv, SharingIsKnown
    <3>2. CASE q # p /\ (f \in recorded \/ \E r \in Processes : r # q /\ Applies(r, f))
      BY <1>2, <2>1, <3>2 DEF MigrationInv, SharingIsKnown
    <3>3. CASE q # p /\ Applies(p, f)' /\ ~Applies(p, f)
      BY <1>2, <2>1, <3>3
    <3> QED
      BY <1>2, <2>1, <3>1, <3>2, <3>3
  <2> QED
    BY <2>1 DEF SharingIsKnown
<1>6. DoneIsInEffect'
  <2>1. ASSUME NEW f \in DOMAIN Migration, NEW k \in DOMAIN Migration[f], Lasts(f, k)',
               f \in recorded \/ \E q \in Processes : Done(q, f, k)'
        PROVE  InEffect(Migration[f][k])
    <3>1. Lasts(f, k)
      BY <2>1, LastsBefore
    <3>2. \/ f \in recorded \/ \E q \in Processes : Done(q, f, k)
          \/ InEffect(Migration[f][k])
      BY <1>2, <2>1
    <3> QED
      BY <3>1, <3>2 DEF MigrationInv, DoneIsInEffect
  <2> QED
    BY <2>1 DEF DoneIsInEffect, InEffect, Present
<1> QED
  BY <1>1, <1>3, <1>4, <1>5, <1>6 DEF MigrationInv

LEMMA InitMigrationInv == MigrationsInit => MigrationInv
<1> SUFFICES ASSUME MigrationsInit PROVE MigrationInv
  OBVIOUS
<1>1. MigrationTypeOK
  BY DEF MigrationsInit, MigrationTypeOK, Place, Starting, AtFirst
<1>2. \A p \in Processes : at[p].step = "CHECK" /\ at[p].file = 1
  BY DEF MigrationsInit, Starting, AtFirst
<1>3. recorded = {}
  BY DEF MigrationsInit
<1> QED
  BY <1>1, <1>2, <1>3 DEF MigrationInv, BehindIsRecorded, Running, RecordedInOrder,
                          SharingIsKnown, DoneIsInEffect, Done, Applies

LEMMA AppliedKeepsInv ==
    ASSUME MigrationInv, NEW p \in Processes, migrationApplied(p)
    PROVE  MigrationInv'
<1> DEFINE f == at[p].file
<1>1. /\ at \in [Processes -> Place] /\ at[p] \in Place /\ f \in Nat \ {0}
      /\ BehindIsRecorded(p) /\ recorded \subseteq DOMAIN Migration
  BY DEF MigrationInv, MigrationTypeOK, Place
<1>2. at[p].step = "CHECK" /\ UNCHANGED <<schema, recorded>>
  BY DEF migrationApplied
<1>3. CASE f > Len(Migration) /\ Go(p, "RUNNING") /\ UNCHANGED shared
  <2> DEFINE place == [at[p] EXCEPT !.step = "RUNNING"]
  <2>1. at' = [at EXCEPT ![p] = place] /\ place \in Place
    BY <1>1, <1>3 DEF Go, Place
  <2>2. at'[p].step = "RUNNING" /\ at'[p].file = f
    <3>1. at'[p] = place
      BY <1>1, <2>1
    <3> QED
      BY <1>1, <3>1 DEF Place
  <2>3. recorded = DOMAIN Migration
    <3>1. ASSUME NEW e \in DOMAIN Migration PROVE e \in recorded
      <4>1. e \in 1..f - 1
        BY <1>1, <1>3, FilesTyped
      <4> QED
        BY <1>1, <4>1 DEF BehindIsRecorded
    <3> QED
      BY <1>1, <3>1
  <2>4. BehindIsRecorded(p)'
    BY <1>1, <1>2, <2>2, <2>3 DEF BehindIsRecorded, Running
  <2>5. \A g, k : ~Applies(p, g)' /\ ~Done(p, g, k)'
    BY <2>2 DEF Applies, Done
  <2> QED
    BY <1>2, <1>3, <2>1, <2>4, <2>5, MovesKeepInv
<1>4. CASE f \in recorded /\ at' = [at EXCEPT ![p].file = f + 1] /\ UNCHANGED shared
  <2> DEFINE place == [at[p] EXCEPT !.file = f + 1]
  <2>1. at' = [at EXCEPT ![p] = place] /\ place \in Place
    BY <1>1, <1>4 DEF Place
  <2>2. at'[p].step = "CHECK" /\ at'[p].file = f + 1
    BY <1>1, <1>2, <2>1 DEF Place
  <2>3. BehindIsRecorded(p)'
    BY <1>1, <1>2, <1>4, <2>2 DEF BehindIsRecorded, Running
  <2>4. \A g, k : ~Applies(p, g)' /\ ~Done(p, g, k)'
    BY <2>2 DEF Applies, Done
  <2> QED
    BY <1>2, <1>4, <2>1, <2>3, <2>4, MovesKeepInv
<1>5. CASE /\ f <= Len(Migration) /\ f \notin recorded
           /\ at' = [at EXCEPT ![p].step = "LOOK", ![p].next = 1]
           /\ shared' = shared \cup (IF \E q \in Processes : Applies(q, f) THEN {f} ELSE {})
  <2> PICK one \in Nat \ {0} : one = 1
    OBVIOUS
  <2> DEFINE place == [at[p] EXCEPT !.step = "LOOK", !.next = one]
  <2>1. at' = [at EXCEPT ![p] = place] /\ place \in Place
    <3>1. at' = [at EXCEPT ![p].step = "LOOK", ![p].next = one]
      BY <1>5
    <3>2. place \in Place
      BY <1>1 DEF Place
    <3>3. [at EXCEPT ![p].step = "LOOK", ![p].next = one] = [at EXCEPT ![p] = place]
      OBVIOUS
    <3> QED
      BY <3>1, <3>2, <3>3
  <2>2. at'[p].step = "LOOK" /\ at'[p].file = f /\ at'[p].next = 1
    <3>1. at'[p] = place
      BY <1>1, <2>1
    <3> QED
      BY <1>1, <3>1 DEF Place
  <2>3. f \in DOMAIN Migration /\ Len(Migration[f]) \in Nat
    BY <1>1, <1>5, FilesTyped
  <2>4. BehindIsRecorded(p)'
    BY <1>1, <1>2, <2>2, <2>3 DEF BehindIsRecorded, Running
  <2>5. \A g \in DOMAIN Migration : \A k \in DOMAIN Migration[g] : ~Done(p, g, k)'
    BY <2>2, FilesTyped DEF Done
  <2>6. shared \subseteq shared' /\ ((\E q \in Processes : Applies(q, f)) => f \in shared')
    BY <1>5
  <2>7. \A g : Applies(p, g)' => g = f
    BY <2>2 DEF Applies
  <2> QED
    BY <1>2, <1>5, <2>1, <2>4, <2>5, <2>6, <2>7, MovesKeepInv
<1> QED
  BY <1>3, <1>4, <1>5 DEF migrationApplied

LEMMA LookKeepsInv ==
    ASSUME MigrationInv, NEW p \in Processes, Look(p)
    PROVE  MigrationInv'
<1> DEFINE f == at[p].file
           k == at[p].next
           s == Statement(p)
           acts == \/ s.kind \in {"CREATE", "MODIFY"}
                   \/ s.kind = "ADD" /\ ~Present(s.thing)
                   \/ s.kind = "DROP" /\ Present(s.thing)
           place == [at[p] EXCEPT !.step = "EXECUTE", !.acts = acts]
<1>1. /\ at \in [Processes -> Place] /\ at[p] \in Place /\ BehindIsRecorded(p)
      /\ at[p].step = "LOOK" /\ k <= Len(Migration[f]) /\ k \in Nat \ {0}
  BY DEF MigrationInv, MigrationTypeOK, Look, Place
<1>2. at' = [at EXCEPT ![p] = place] /\ place \in Place /\ UNCHANGED <<schema, recorded, shared>>
  BY <1>1 DEF Look, Place
<1>3. at'[p].step = "EXECUTE" /\ at'[p].file = f /\ at'[p].next = k /\ at'[p].acts = acts
  <2>1. at'[p] = place
    BY <1>1, <1>2
  <2> QED
    BY <1>1, <2>1 DEF Place
<1>4. BehindIsRecorded(p)'
  BY <1>1, <1>2, <1>3 DEF BehindIsRecorded, Running
<1>5. f \in DOMAIN Migration /\ k \in DOMAIN Migration[f] /\ s \in Statements
  BY <1>1, FilesTyped DEF BehindIsRecorded, Statement
<1>6. ~acts => InEffect(s)
  BY <1>5 DEF InEffect, Statements
<1>7. \A g : Applies(p, g)' => Applies(p, g)
  BY <1>1, <1>3 DEF Applies
<1>8. \A g, j : Done(p, g, j)' => Done(p, g, j) \/ InEffect(Migration[g][j])
  <2>1. ASSUME NEW g, NEW j, Done(p, g, j)', ~Done(p, g, j)
        PROVE  g = f /\ j = k /\ ~acts
    BY <1>1, <1>3, <2>1 DEF Done, Applies
  <2> QED
    BY <1>6, <2>1 DEF Statement
<1> QED
  BY <1>2, <1>4, <1>7, <1>8, MovesKeepInv

LEMMA EndsTyped ==
    /\ Starting \in Place /\ Starting.file = 1 /\ Starting.step = "CHECK"
    /\ Exited \in Place /\ Exited.file = 1 /\ Exited.step = "EXITED"
<1>1. Starting \in Place /\ Starting.file = 1 /\ Starting.step = "CHECK"
  BY DEF Starting, AtFirst, Place
<1>2. Exited \in Place /\ Exited.file = 1 /\ Exited.step = "EXITED"
  BY DEF Exited, AtFirst, Place
<1> QED
  BY <1>1, <1>2

\* A process that gives up, or begins again, has nothing behind it.
LEMMA StartsKeepInv ==
    ASSUME MigrationInv, NEW p \in Processes, Fatal(p) \/ at' = [at EXCEPT ![p] = Starting],
           UNCHANGED <<schema, recorded, shared>>
    PROVE  MigrationInv'
<1>1. at \in [Processes -> Place]
  BY DEF MigrationInv, MigrationTypeOK
<1>2. ASSUME NEW place \in {Starting, Exited}, at' = [at EXCEPT ![p] = place]
      PROVE  MigrationInv'
  <2>1. place \in Place /\ place.file = 1 /\ place.step \in {"CHECK", "EXITED"}
    BY EndsTyped
  <2>2. at'[p] = place
    BY <1>1, <1>2
  <2>3. BehindIsRecorded(p)'
    BY <2>1, <2>2 DEF BehindIsRecorded, Running
  <2>4. \A g, k : ~Applies(p, g)' /\ ~Done(p, g, k)'
    BY <2>1, <2>2 DEF Applies, Done
  <2> QED
    BY <1>2, <2>1, <2>3, <2>4, MovesKeepInv
<1> QED
  BY <1>2 DEF Fatal

-----------------------------------------------------------------------------
(* What a statement leaves in effect *)

LEMMA EffectIsInEffect ==
    ASSUME schema \in [Things -> Forms \cup {"ABSENT"}], NEW s \in Statements, Effect(s)
    PROVE  InEffect(s)' /\ schema' \in [Things -> Forms \cup {"ABSENT"}]
<1>1. s.thing \in Things /\ s.form \in Forms /\ s.form # "ABSENT"
      /\ s.kind \in {"CREATE", "ADD", "MODIFY", "DROP"}
  BY MigrationAssumption DEF Statements
<1>2. CASE s.kind = "CREATE" /\ Present(s.thing)
  BY <1>1, <1>2 DEF Effect, InEffect, Present
<1>3. CASE ~(s.kind = "CREATE" /\ Present(s.thing))
  <2>1. schema' = [schema EXCEPT ![s.thing] = IF s.kind = "DROP" THEN "ABSENT" ELSE s.form]
    BY <1>3 DEF Effect
  <2> QED
    BY <1>1, <2>1 DEF InEffect, Present
<1> QED
  BY <1>2, <1>3

\* Another statement keeps what it does not undo, if it does not fail.
LEMMA EffectKeeps ==
    ASSUME schema \in [Things -> Forms \cup {"ABSENT"}],
           NEW s \in Statements, NEW x \in Statements, Effect(s), InEffect(x), ~Undoes(s, x),
           s.kind = "ADD" => ~Present(s.thing),
           s.kind \in {"MODIFY", "DROP"} => Present(s.thing)
    PROVE  InEffect(x)'
<1>1. /\ s.thing \in Things /\ s.form \in Forms /\ s.form # "ABSENT"
      /\ x.thing \in Things /\ x.form \in Forms /\ x.form # "ABSENT"
      /\ s.kind \in {"CREATE", "ADD", "MODIFY", "DROP"}
      /\ x.kind \in {"CREATE", "ADD", "MODIFY", "DROP"}
  BY MigrationAssumption DEF Statements
<1>2. CASE schema' = schema
  BY <1>2 DEF InEffect, Present
<1>3. CASE schema' # schema
  <2>1. /\ schema' = [schema EXCEPT ![s.thing] = IF s.kind = "DROP" THEN "ABSENT" ELSE s.form]
        /\ ~(s.kind = "CREATE" /\ Present(s.thing))
    BY <1>3 DEF Effect
  <2>2. CASE x.thing # s.thing
    <3>1. schema'[x.thing] = schema[x.thing]
      BY <1>1, <2>1, <2>2
    <3> QED
      BY <3>1 DEF InEffect, Present
  <2>3. CASE x.thing = s.thing /\ s.kind = "DROP"
    <3>1. schema'[x.thing] = "ABSENT" /\ x.kind = "DROP"
      BY <1>1, <2>1, <2>3 DEF Undoes
    <3> QED
      BY <3>1 DEF InEffect, Present
  <2>4. CASE x.thing = s.thing /\ s.kind = "MODIFY"
    <3>1. schema'[x.thing] = s.form /\ x.kind # "DROP" /\ (x.kind = "MODIFY" => x.form = s.form)
      BY <1>1, <2>1, <2>4 DEF Undoes, InEffect
    <3> QED
      BY <1>1, <3>1 DEF InEffect, Present
  <2>5. CASE x.thing = s.thing /\ s.kind \in {"CREATE", "ADD"}
    <3>1. schema'[x.thing] = s.form /\ x.kind # "DROP" /\ ~Present(x.thing)
      BY <1>1, <2>1, <2>5 DEF Undoes
    <3>2. x.kind # "MODIFY"
      BY <1>1, <3>1 DEF InEffect, Present
    <3> QED
      BY <1>1, <3>1, <3>2 DEF InEffect, Present
  <2> QED
    BY <1>1, <2>2, <2>3, <2>4, <2>5
<1> QED
  BY <1>2, <1>3

\* Whoever executes a statement undoes nothing that lasts.
LEMMA NothingLastingUndone ==
    ASSUME MigrationInv, NEW p \in Processes, at[p].step = "EXECUTE",
           NEW g \in DOMAIN Migration, NEW j \in DOMAIN Migration[g],
           g \in recorded \/ \E q \in Processes : Done(q, g, j),
           Lasts(g, j)
    PROVE  ~Undoes(Statement(p), Migration[g][j])
<1> DEFINE f == at[p].file
           k == at[p].next
<1>1. /\ f \in DOMAIN Migration /\ k \in DOMAIN Migration[f] /\ Applies(p, f)
      /\ f \in Nat \ {0} /\ k \in Nat \ {0} /\ g \in Nat \ {0} /\ j \in Nat \ {0}
  BY FilesTyped DEF MigrationInv, MigrationTypeOK, Place, BehindIsRecorded, Applies
<1>2. SUFFICES ASSUME Undoes(Migration[f][k], Migration[g][j]) PROVE FALSE
  BY DEF Statement
<1>3. f \notin shared /\ (f < g \/ (f = g /\ k < j))
  BY <1>1, <1>2 DEF Lasts, Before
<1>4. f \notin recorded /\ \A q \in Processes : q # p => ~Applies(q, f)
  BY <1>1, <1>3 DEF MigrationInv, SharingIsKnown
<1>5. CASE g \in recorded
  <2>1. f \in recorded
    BY <1>1, <1>3, <1>5 DEF MigrationInv, RecordedInOrder
  <2> QED
    BY <1>4, <2>1
<1>6. ASSUME NEW q \in Processes, Done(q, g, j) PROVE FALSE
  <2>1. CASE f < g
    <3>1. at[q].file = g /\ BehindIsRecorded(q)
      BY <1>6 DEF Done, Applies, MigrationInv
    <3>2. f \in recorded
      BY <1>1, <2>1, <3>1 DEF BehindIsRecorded
    <3> QED
      BY <1>4, <3>2
  <2>2. CASE f = g /\ k < j
    <3>1. q = p
      BY <1>4, <1>6, <2>2 DEF Done
    <3> QED
      BY <1>1, <1>6, <2>2, <3>1 DEF Done
  <2> QED
    BY <1>3, <2>1, <2>2
<1> QED
  BY <1>5, <1>6

LEMMA ExecuteKeepsInv ==
    ASSUME MigrationInv, NEW p \in Processes, Execute(p)
    PROVE  MigrationInv'
<1> DEFINE f == at[p].file
           k == at[p].next
           s == Statement(p)
           place == [at[p] EXCEPT !.step = "LOOK", !.next = k + 1]
<1>1. CASE Fails(p)
  BY <1>1, StartsKeepInv DEF Execute
<1>2. CASE ~Fails(p)
  <2>1. /\ at \in [Processes -> Place] /\ at[p] \in Place /\ at[p].step = "EXECUTE"
        /\ f \in Nat \ {0} /\ k \in Nat \ {0} /\ at[p].acts \in BOOLEAN /\ BehindIsRecorded(p)
        /\ schema \in [Things -> Forms \cup {"ABSENT"}]
    BY DEF MigrationInv, MigrationTypeOK, Place, Execute
  <2>2. /\ f \in DOMAIN Migration /\ k \in DOMAIN Migration[f] /\ s \in Statements
        /\ s = Migration[f][k] /\ Len(Migration[f]) \in Nat /\ k <= Len(Migration[f])
    BY <2>1, FilesTyped DEF BehindIsRecorded, Statement
  <2> PICK x \in Statements : x = s
    BY <2>2
  <2>3. /\ at' = [at EXCEPT ![p] = place] /\ place \in Place
        /\ recorded' = recorded /\ shared' = shared
    BY <1>2, <2>1 DEF Execute, Place
  <2>4. at'[p].step = "LOOK" /\ at'[p].file = f /\ at'[p].next = k + 1
    <3>1. at'[p] = place
      BY <2>1, <2>3
    <3> QED
      BY <2>1, <3>1 DEF Place
  <2>5. /\ schema' \in [Things -> Forms \cup {"ABSENT"}]
        /\ at[p].acts => InEffect(x)'
        /\ at[p].acts \/ schema' = schema
    <3>1. CASE at[p].acts
      <4>1. Effect(x)
        BY <1>2, <3>1 DEF Execute
      <4> QED
        BY <2>1, <3>1, <4>1, EffectIsInEffect
    <3>2. CASE ~at[p].acts
      BY <1>2, <2>1, <3>2 DEF Execute
    <3> QED
      BY <3>1, <3>2
  <2>6. ASSUME NEW q \in Processes, q # p
        PROVE  at'[q] = at[q] /\ BehindIsRecorded(q)
    BY <2>1, <2>3, <2>6 DEF MigrationInv
  <2>7. MigrationTypeOK'
    BY <2>3, <2>5 DEF MigrationInv, MigrationTypeOK
  <2>8. ASSUME NEW q \in Processes PROVE BehindIsRecorded(q)'
    <3>1. CASE q = p
      BY <2>1, <2>2, <2>3, <2>4, <3>1 DEF BehindIsRecorded, Running
    <3>2. CASE q # p
      BY <2>3, <2>6, <3>2 DEF BehindIsRecorded, Running
    <3> QED
      BY <3>1, <3>2
  <2>9. \A q \in Processes : \A g : Applies(q, g)' <=> Applies(q, g)
    BY <2>1, <2>4, <2>6 DEF Applies
  <2>10. RecordedInOrder' /\ SharingIsKnown'
    BY <2>3, <2>9 DEF MigrationInv, RecordedInOrder, SharingIsKnown
  <2>11. DoneIsInEffect'
    <3>1. ASSUME NEW g \in DOMAIN Migration, NEW j \in DOMAIN Migration[g], Lasts(g, j)',
                 g \in recorded \/ \E q \in Processes : Done(q, g, j)'
          PROVE  InEffect(Migration[g][j])'
      <4>1. Lasts(g, j) /\ Migration[g][j] \in Statements
        BY <2>3, <3>1, LastsBefore, FilesTyped
      <4>2. CASE g \in recorded \/ \E q \in Processes : Done(q, g, j)
        <5>1. InEffect(Migration[g][j])
          BY <4>1, <4>2 DEF MigrationInv, DoneIsInEffect
        <5>2. CASE ~at[p].acts
          BY <2>5, <5>1, <5>2 DEF InEffect, Present
        <5>3. CASE at[p].acts
          <6>1. ~Undoes(s, Migration[g][j])
            BY <2>1, <4>1, <4>2, NothingLastingUndone
          <6>2. Effect(s) /\ (s.kind = "ADD" => ~Present(s.thing))
                /\ (s.kind \in {"MODIFY", "DROP"} => Present(s.thing))
            BY <1>2, <5>3 DEF Execute, Fails
          <6> QED
            BY <2>1, <2>2, <4>1, <5>1, <6>1, <6>2, EffectKeeps
        <5> QED
          BY <5>2, <5>3
      <4>3. CASE g \notin recorded /\ ~\E q \in Processes : Done(q, g, j)
        <5>1. PICK q \in Processes : Done(q, g, j)'
          BY <3>1, <4>3
        <5>2. q = p
          <6>1. q # p => (Done(q, g, j)' <=> Done(q, g, j))
            BY <2>6 DEF Done, Applies
          <6> QED
            BY <4>3, <5>1, <6>1
        <5>3. g = f /\ j < k + 1 /\ j \in Nat
          BY <2>4, <5>1, <5>2, FilesTyped DEF Done, Applies
        <5>4. ~(j < k)
          BY <2>1, <4>3, <5>3 DEF Done, Applies
        <5>5. j = k /\ at[p].acts
          <6>1. j = k
            BY <2>1, <5>3, <5>4
          <6> QED
            BY <2>1, <4>3, <5>3, <6>1 DEF Done, Applies
        <5>6. Migration[g][j] = x
          BY <2>2, <5>3, <5>5
        <5> QED
          BY <2>5, <5>5, <5>6
      <4> QED
        BY <4>2, <4>3
    <3> QED
      BY <2>3, <3>1 DEF DoneIsInEffect
  <2> QED
    BY <2>7, <2>8, <2>10, <2>11 DEF MigrationInv
<1> QED
  BY <1>1, <1>2

LEMMA RecordKeepsInv ==
    ASSUME MigrationInv, NEW p \in Processes, Record(p)
    PROVE  MigrationInv'
<1> DEFINE f == at[p].file
           place == [at[p] EXCEPT !.step = "CHECK", !.file = f + 1]
<1>1. CASE f \in recorded
  BY <1>1, StartsKeepInv DEF Record
<1>2. CASE f \notin recorded
  <2>1. /\ at \in [Processes -> Place] /\ at[p] \in Place /\ at[p].step = "LOOK"
        /\ f \in Nat \ {0} /\ at[p].next \in Nat \ {0} /\ BehindIsRecorded(p)
    BY DEF MigrationInv, MigrationTypeOK, Place, Record
  <2>2. /\ f \in DOMAIN Migration /\ Applies(p, f)
        /\ \A j \in DOMAIN Migration[f] : Done(p, f, j)
        /\ \A e \in 1..f - 1 : e \in recorded
    BY <2>1, FilesTyped DEF BehindIsRecorded, Record, Done, Applies
  <2>3. /\ at' = [at EXCEPT ![p] = place] /\ place \in Place
        /\ recorded' = recorded \cup {f} /\ schema' = schema /\ shared' = shared
    BY <1>2, <2>1 DEF Record, Place
  <2>4. at'[p].step = "CHECK" /\ at'[p].file = f + 1
    <3>1. at'[p] = place
      BY <2>1, <2>3
    <3> QED
      BY <2>1, <3>1 DEF Place
  <2>5. MigrationTypeOK'
    BY <2>2, <2>3 DEF MigrationInv, MigrationTypeOK
  <2>6. ASSUME NEW q \in Processes, q # p
        PROVE  /\ at'[q] = at[q] /\ BehindIsRecorded(q)
               /\ \A g, j : /\ Applies(q, g)' <=> Applies(q, g)
                            /\ Done(q, g, j)' <=> Done(q, g, j)
    <3>1. at'[q] = at[q]
      BY <2>1, <2>3, <2>6
    <3> QED
      BY <3>1 DEF MigrationInv, Applies, Done
  <2>7. \A g, j : ~Applies(p, g)' /\ ~Done(p, g, j)'
    BY <2>4 DEF Applies, Done
  <2>8. ASSUME NEW q \in Processes PROVE BehindIsRecorded(q)'
    <3>1. CASE q = p
      BY <2>1, <2>2, <2>3, <2>4, <3>1 DEF BehindIsRecorded, Running
    <3>2. CASE q # p
      <4>1. recorded \subseteq DOMAIN Migration
        BY DEF MigrationInv, MigrationTypeOK
      <4> QED
        BY <2>2, <2>3, <2>6, <3>2, <4>1 DEF BehindIsRecorded, Running
    <3> QED
      BY <3>1, <3>2
  <2>9. RecordedInOrder'
    BY <2>2, <2>3 DEF MigrationInv, RecordedInOrder
  <2>10. SharingIsKnown'
    <3>1. ASSUME NEW q \in Processes, NEW g \in DOMAIN Migration, Applies(q, g)',
                 g \in recorded' \/ \E r \in Processes : r # q /\ Applies(r, g)'
          PROVE  g \in shared
      <4>1. q # p /\ Applies(q, g)
        BY <2>6, <2>7, <3>1
      <4>2. g \in recorded \/ g = f \/ \E r \in Processes : r # q /\ Applies(r, g)
        BY <2>3, <2>6, <2>7, <3>1
      <4> QED
        BY <2>2, <4>1, <4>2 DEF MigrationInv, SharingIsKnown
    <3> QED
      BY <2>3, <3>1 DEF SharingIsKnown
  <2>11. DoneIsInEffect'
    <3>1. ASSUME NEW g \in DOMAIN Migration, NEW j \in DOMAIN Migration[g], Lasts(g, j)',
                 g \in recorded' \/ \E q \in Processes : Done(q, g, j)'
          PROVE  InEffect(Migration[g][j])
      <4>1. Lasts(g, j)
        BY <2>3, <3>1, LastsBefore
      <4>2. g \in recorded \/ \E q \in Processes : Done(q, g, j)
        BY <2>2, <2>3, <2>6, <2>7, <3>1
      <4> QED
        BY <4>1, <4>2 DEF MigrationInv, DoneIsInEffect
    <3> QED
      BY <2>3, <3>1 DEF DoneIsInEffect, InEffect, Present
  <2> QED
    BY <2>5, <2>8, <2>9, <2>10, <2>11 DEF MigrationInv
<1> QED
  BY <1>1, <1>2

LEMMA NextMigrationInv ==
    MigrationInv /\ [MigrationsNext]_migrationVars => MigrationInv'
<1> SUFFICES ASSUME MigrationInv, [MigrationsNext]_migrationVars PROVE MigrationInv'
  OBVIOUS
<1>1. CASE UNCHANGED migrationVars
  BY <1>1 DEF migrationVars, MigrationInv, MigrationTypeOK, BehindIsRecorded, Running,
              RecordedInOrder, SharingIsKnown, DoneIsInEffect, Done, Applies, Lasts, InEffect, Present
<1>2. ASSUME NEW p \in Processes, RunMigrations(p) PROVE MigrationInv'
  BY <1>2, AppliedKeepsInv, LookKeepsInv, ExecuteKeepsInv, RecordKeepsInv DEF RunMigrations
<1>3. ASSUME NEW p \in Processes, Restart(p) \/ Crash(p) PROVE MigrationInv'
  BY <1>3, StartsKeepInv DEF Restart, Crash
<1> QED
  BY <1>1, <1>2, <1>3 DEF MigrationsNext

LEMMA MigrationInvHolds == MigrationsSpec => []MigrationInv
  BY InitMigrationInv, NextMigrationInv, PTL DEF MigrationsSpec

\* Processes that start at once and processes that crash on the way leave no
\* file recorded that is not in effect (RunMigrations inserts a version after
\* the file's last statement), but for what a later statement undoes, or one in
\* a file that RunMigrations, which takes no lock, let two processes apply at once.
THEOREM SchemaOrdered == MigrationsSpec => []SchemaInOrder
<1>1. MigrationInv => SchemaInOrder
  BY DEF MigrationInv, MigrationTypeOK, BehindIsRecorded, RecordedInOrder, DoneIsInEffect,
         SchemaInOrder, Applies
<1> QED
  BY <1>1, MigrationInvHolds, PTL

\* Workers do to the schema what the migrations' specification says, and
\* nothing else: SchemaOrdered holds while they run and crash.
THEOREM WorkersMigrate == Spec => MigrationsSpec
<1>1. Init => MigrationsInit
  BY DEF Init
<1>2. [Next]_vars => [MigrationsNext]_migrationVars
  BY DEF Next, vars, MigrationsNext, Enqueue, PaymentReport, Poll, SelectQueued, CommitClaim,
     Complete, Fail, ClaimFails, CompleteFails, FailFails, WorkerCrash, ConnectionDropped
<1> QED
  BY <1>1, <1>2, PTL DEF Spec, MigrationsSpec

-----------------------------------------------------------------------------
(* The queue *)

\* Who has rows or a batch is a process that runs, and has one or the other.
ClaimsAreLive ==
    \A w \in Processes :
        /\ selected[w] # {} \/ batch[w] # <<>> => Running(w)
        /\ selected[w] # {} => batch[w] = <<>>

\* A row has one lock at most, and waits in the queue while it is locked.
LocksAreExclusive ==
    /\ \A o \in Locked : status[o] = "QUEUED"
    /\ \A v, w \in Processes : v # w => selected[v] \cap selected[w] = {}
    /\ \A w \in Processes : orphaned \cap selected[w] = {}

\* A claimed order never returns to the queue; it is in one batch.
BatchesAreExclusive ==
    /\ \A w \in Processes : \A o \in ToSet(batch[w]) : status[o] \notin {"NONE", "QUEUED"}
    /\ \A v, w \in Processes : v # w => ToSet(batch[v]) \cap ToSet(batch[w]) = {}

ProcessingHasBatch ==
    \A o \in Orders : status[o] = "PROCESSING" /\ o \notin lost =>
        \E w \in Processes : o \in ToSet(batch[w])

QueueInv ==
    /\ QueueTypeOK /\ ClaimsAreLive /\ LocksAreExclusive
    /\ BatchesAreExclusive /\ ProcessingHasBatch

LEMMA HeadAndTail ==
    ASSUME NEW S, NEW s \in Seq(S), s # <<>>
    PROVE  /\ Head(s) \in ToSet(s) /\ ToSet(s) \subseteq S
           /\ Tail(s) \in Seq(S)
           /\ ToSet(Tail(s)) \subseteq ToSet(s)
           /\ ToSet(s) \subseteq ToSet(Tail(s)) \cup {Head(s)}
<1> DEFINE n == Len(s)
<1>1. /\ n \in Nat /\ n > 0 /\ DOMAIN s = 1..n /\ s \in [1..n -> S]
      /\ Head(s) = s[1] /\ Tail(s) \in Seq(S)
      /\ DOMAIN Tail(s) = 1..n - 1
      /\ \A i \in 1..n - 1 : Tail(s)[i] = s[i + 1]
  BY LenProperties, EmptySeq, HeadTailProperties
<1> HIDE DEF n
<1>2. ASSUME NEW i \in 1..n PROVE s[i] = Head(s) \/ s[i] \in ToSet(Tail(s))
  <2>1. CASE i = 1
    BY <1>1, <2>1
  <2>2. CASE i # 1
    <3>1. i - 1 \in 1..n - 1 /\ Tail(s)[i - 1] = s[i]
      BY <1>1, <2>2
    <3> QED
      BY <1>1, <3>1 DEF ToSet
  <2> QED
    BY <2>1, <2>2
<1>3. ASSUME NEW i \in 1..n - 1 PROVE Tail(s)[i] \in ToSet(s)
  BY <1>1 DEF ToSet
<1>4. 1 \in DOMAIN s /\ Head(s) = s[1]
  BY <1>1
<1>5. Head(s) \in ToSet(s) /\ ToSet(s) \subseteq S
  BY <1>1, <1>4 DEF ToSet
<1>6. \A x \in ToSet(s) : \E i \in 1..n : x = s[i]
  BY <1>1 DEF ToSet
<1>7. \A x \in ToSet(Tail(s)) : \E i \in 1..n - 1 : x = Tail(s)[i]
  BY <1>1 DEF ToSet
<1> QED
  BY <1>1, <1>2, <1>3, <1>5, <1>6, <1>7

LEMMA InitQueueInv == Init => QueueInv
<1> SUFFICES ASSUME Init PROVE QueueInv
  OBVIOUS
<1>1. QueueTypeOK
  BY DEF Init, QueueTypeOK, Status
<1>2. \A w \in Processes : selected[w] = {} /\ batch[w] = <<>> /\ ToSet(batch[w]) = {}
  BY DEF Init, ToSet
<1> QED
  BY <1>1, <1>2 DEF Init, QueueInv, ClaimsAreLive, LocksAreExclusive, Locked,
                    BatchesAreExclusive, ProcessingHasBatch

\* Enqueue, and a report on an order that nobody has locked.
LEMMA OutsideKeepsInv ==
    ASSUME QueueInv, NEW o \in Orders, Enqueue(o) \/ PaymentReport(o)
    PROVE  QueueInv'
<1>1. PICK s \in {"QUEUED"} \cup Reported :
          /\ status' = [status EXCEPT ![o] = s]
          /\ (status[o] = "NONE") \/ (o \notin Locked /\ s \in Reported)
  BY DEF Enqueue, PaymentReport, Reported
<1>2. QueueTypeOK'
  BY <1>1 DEF QueueInv, QueueTypeOK, Status, Enqueue, PaymentReport
<1>3. UNCHANGED <<at, selected, batch, orphaned, lost>>
  BY DEF Enqueue, PaymentReport, migrationVars
<1>4. /\ \A e \in Orders : e # o => status'[e] = status[e]
      /\ status'[o] = s
  BY <1>1 DEF QueueInv, QueueTypeOK
<1>5. (status[o] = "NONE") \/ (o \notin Locked /\ s \notin {"NONE", "QUEUED", "PROCESSING"})
  BY <1>1 DEF Reported
<1>6. ClaimsAreLive'
  BY <1>3 DEF QueueInv, ClaimsAreLive, Running
<1>7. LocksAreExclusive'
  <2>1. Locked' = Locked
    BY <1>3 DEF Locked
  <2>2. Locked \subseteq Orders
    BY DEF QueueInv, QueueTypeOK, Locked
  <2>3. o \notin Locked
    BY <1>5 DEF QueueInv, LocksAreExclusive
  <2> QED
    BY <1>3, <1>4, <2>1, <2>2, <2>3 DEF QueueInv, LocksAreExclusive
<1>8. BatchesAreExclusive'
  <2>1. ASSUME NEW w \in Processes, NEW e \in ToSet(batch[w])
        PROVE  status'[e] \notin {"NONE", "QUEUED"}
    <3>1. status[e] \notin {"NONE", "QUEUED"} /\ e \in Orders
      <4>1. batch[w] \in Seq(Orders)
        BY DEF QueueInv, QueueTypeOK
      <4>2. e \in Orders
        BY <4>1, LenProperties DEF ToSet
      <4> QED
        BY <4>2 DEF QueueInv, BatchesAreExclusive
    <3> QED
      BY <1>4, <1>5, <3>1
  <2> QED
    BY <1>3, <2>1 DEF QueueInv, BatchesAreExclusive
<1>9. ProcessingHasBatch'
  <2>1. status'[o] # "PROCESSING"
    BY <1>1, <1>4 DEF Reported
  <2> QED
    BY <1>3, <1>4, <2>1 DEF QueueInv, ProcessingHasBatch
<1> QED
  BY <1>2, <1>6, <1>7, <1>8, <1>9 DEF QueueInv

LEMMA SelectKeepsInv ==
    ASSUME QueueInv, NEW w \in Processes, SelectQueued(w)
    PROVE  QueueInv'
<1> DEFINE queued == {o \in Orders \ Locked : status[o] = "QUEUED"}
           rows == First(BatchSize, queued)
<1>1. rows \subseteq queued
  BY DEF First
<1>2. /\ selected' = [selected EXCEPT ![w] = rows]
      /\ UNCHANGED <<at, status, batch, failing, orphaned, lost>>
      /\ Running(w) /\ batch[w] = <<>>
  BY DEF SelectQueued, migrationVars
<1> HIDE DEF rows
<1>3. /\ QueueTypeOK'
      /\ selected'[w] = rows
      /\ \A v \in Processes : v # w => selected'[v] = selected[v]
  BY <1>1, <1>2 DEF QueueInv, QueueTypeOK
<1>4. ClaimsAreLive'
  BY <1>2, <1>3 DEF QueueInv, ClaimsAreLive, Running
<1>5. LocksAreExclusive'
  <2>1. ASSUME NEW o \in rows PROVE o \notin Locked /\ status[o] = "QUEUED"
    BY <1>1
  <2>2. ASSUME NEW o \in Locked' PROVE o \in Locked \/ o \in rows
    BY <1>2, <1>3, <2>2 DEF Locked
  <2>3. ASSUME NEW v \in Processes PROVE selected[v] \cap rows = {}
    BY <2>1 DEF Locked
  <2>4. orphaned \cap rows = {}
    BY <2>1 DEF Locked
  <2> QED
    BY <1>2, <1>3, <2>1, <2>2, <2>3, <2>4 DEF QueueInv, LocksAreExclusive
<1> QED
  BY <1>2, <1>3, <1>4, <1>5 DEF QueueInv, BatchesAreExclusive, ProcessingHasBatch

\* What a claim does to the rows.
LEMMA PromoteChanges ==
    ASSUME QueueInv, NEW w \in Processes, Promote(w)
    PROVE  /\ status' \in [Orders -> Status]
           /\ \A o \in selected[w] : status'[o] = "PROCESSING"
           /\ \A o \in Orders : o \notin selected[w] => status'[o] = status[o]
  BY DEF QueueInv, QueueTypeOK, LocksAreExclusive, Locked, Promote, Status

LEMMA InOrderTyped ==
    ASSUME NEW rows, NEW s \in InOrder(rows)
    PROVE  s \in Seq(rows) /\ ToSet(s) = rows
<1>1. PICK n \in 0..BatchSize : s \in [1..n -> rows]
  BY DEF InOrder, SeqOf
<1>2. n \in Nat
  BY QueueAssumption
<1> QED
  BY <1>1, <1>2 DEF InOrder

\* The locks on selected rows are given up; the others hold what they held.
LEMMA ReleaseKeepsLocks ==
    ASSUME QueueInv, NEW w \in Processes,
           selected' = [selected EXCEPT ![w] = {}], orphaned' = orphaned,
           \A o \in Orders : o \notin selected[w] => status'[o] = status[o]
    PROVE  LocksAreExclusive'
<1>1. selected \in [Processes -> SUBSET Orders] /\ orphaned \subseteq Orders
  BY DEF QueueInv, QueueTypeOK
<1>2. selected'[w] = {} /\ \A v \in Processes : v # w => selected'[v] = selected[v]
  BY <1>1
<1>3. ASSUME NEW o \in Locked' PROVE o \in Locked /\ o \in Orders /\ o \notin selected[w]
  <2>1. CASE o \in orphaned
    BY <1>1, <2>1 DEF Locked, QueueInv, LocksAreExclusive
  <2>2. CASE o \notin orphaned
    <3>1. PICK v \in Processes : o \in selected'[v]
      BY <2>2 DEF Locked
    <3>2. v # w /\ o \in selected[v]
      BY <1>2, <3>1
    <3> QED
      BY <1>1, <3>2 DEF Locked, QueueInv, LocksAreExclusive
  <2> QED
    BY <2>1, <2>2
<1> QED
  BY <1>2, <1>3 DEF QueueInv, LocksAreExclusive

LEMMA CommitKeepsInv ==
    ASSUME QueueInv, NEW w \in Processes, CommitClaim(w)
    PROVE  QueueInv'
<1> DEFINE rows == selected[w]
<1>1. PICK intents \in InOrder(rows) : batch' = [batch EXCEPT ![w] = intents]
  BY DEF CommitClaim
<1>2. /\ intents \in Seq(rows) /\ ToSet(intents) = rows
      /\ rows \subseteq Orders /\ rows # {}
  BY <1>1, InOrderTyped DEF CommitClaim, QueueInv, QueueTypeOK
<1>3. /\ selected' = [selected EXCEPT ![w] = {}]
      /\ UNCHANGED <<at, failing, orphaned, lost>>
      /\ Running(w) /\ batch[w] = <<>>
  BY DEF CommitClaim, migrationVars, QueueInv, ClaimsAreLive
<1>4. /\ status' \in [Orders -> Status]
      /\ \A o \in rows : status'[o] = "PROCESSING"
      /\ \A o \in Orders : o \notin rows => status'[o] = status[o]
  BY PromoteChanges DEF CommitClaim
<1>5. intents \in Seq(Orders)
  BY <1>2
<1>6. /\ QueueTypeOK'
      /\ batch'[w] = intents /\ selected'[w] = {}
      /\ \A v \in Processes : v # w => batch'[v] = batch[v] /\ selected'[v] = selected[v]
  BY <1>1, <1>3, <1>4, <1>5 DEF QueueInv, QueueTypeOK
<1>7. ClaimsAreLive'
  BY <1>3, <1>6 DEF QueueInv, ClaimsAreLive, Running
<1>8. LocksAreExclusive'
  BY <1>3, <1>4, ReleaseKeepsLocks
<1>9. ASSUME NEW v \in Processes, NEW o \in ToSet(batch[v])
      PROVE  o \in Orders /\ o \notin rows /\ status[o] \notin {"NONE", "QUEUED"}
  <2>1. o \in Orders /\ status[o] \notin {"NONE", "QUEUED"}
    BY LenProperties DEF QueueInv, QueueTypeOK, BatchesAreExclusive, ToSet
  <2> QED
    BY <2>1 DEF QueueInv, LocksAreExclusive, Locked
<1>10. BatchesAreExclusive'
  <2>1. ToSet(batch'[w]) = rows
    BY <1>2, <1>6
  <2>2. \A v \in Processes : v # w => ToSet(batch'[v]) = ToSet(batch[v])
    BY <1>6
  <2> QED
    BY <1>4, <1>9, <2>1, <2>2 DEF QueueInv, BatchesAreExclusive
<1>11. ProcessingHasBatch'
  <2>1. ASSUME NEW o \in Orders, status'[o] = "PROCESSING", o \notin lost'
        PROVE  \E v \in Processes : o \in ToSet(batch'[v])
    <3>1. CASE o \in rows
      BY <1>2, <1>6, <3>1
    <3>2. CASE o \notin rows
      <4>1. PICK v \in Processes : o \in ToSet(batch[v])
        BY <1>3, <1>4, <2>1, <3>2 DEF QueueInv, ProcessingHasBatch
      <4>2. v # w
        BY <1>3, <4>1 DEF ToSet
      <4> QED
        BY <1>6, <4>1, <4>2
    <3> QED
      BY <3>1, <3>2
  <2> QED
    BY <2>1 DEF ProcessingHasBatch
<1> QED
  BY <1>6, <1>7, <1>8, <1>10, <1>11 DEF QueueInv

LEMMA ClaimFailsKeepsInv ==
    ASSUME QueueInv, NEW w \in Processes, ClaimFails(w)
    PROVE  QueueInv'
<1> DEFINE rows == selected[w]
<1>1. /\ selected' = [selected EXCEPT ![w] = {}]
      /\ UNCHANGED <<at, batch, failing, orphaned>>
  BY DEF ClaimFails, migrationVars
<1>2. rows \subseteq Orders /\ \A o \in rows : status[o] = "QUEUED"
  BY DEF QueueInv, QueueTypeOK, LocksAreExclusive, Locked
<1>3. /\ status' \in [Orders -> Status]
      /\ lost \subseteq lost' /\ lost' \subseteq Orders
      /\ \A o \in rows : status'[o] = "QUEUED" \/ (status'[o] = "PROCESSING" /\ o \in lost')
      /\ \A o \in Orders : o \notin rows => status'[o] = status[o]
  <2>1. CASE UNCHANGED <<status, lost>>
    BY <1>2, <2>1 DEF QueueInv, QueueTypeOK
  <2>2. CASE Promote(w) /\ lost' = lost \cup rows
    BY <1>2, <2>2, PromoteChanges DEF QueueInv, QueueTypeOK
  <2> QED
    BY <2>1, <2>2 DEF ClaimFails
<1>4. /\ QueueTypeOK'
      /\ selected'[w] = {}
      /\ \A v \in Processes : v # w => selected'[v] = selected[v]
  BY <1>1, <1>3 DEF QueueInv, QueueTypeOK
<1>5. ClaimsAreLive'
  BY <1>1, <1>4 DEF QueueInv, ClaimsAreLive, Running
<1>6. LocksAreExclusive'
  BY <1>1, <1>3, ReleaseKeepsLocks
<1>7. BatchesAreExclusive'
  <2>1. ASSUME NEW v \in Processes, NEW o \in ToSet(batch[v])
        PROVE  status'[o] \notin {"NONE", "QUEUED"}
    <3>1. o \in Orders /\ status[o] \notin {"NONE", "QUEUED"}
      BY LenProperties DEF QueueInv, QueueTypeOK, BatchesAreExclusive, ToSet
    <3> QED
      BY <1>2, <1>3, <3>1
  <2> QED
    BY <1>1, <2>1 DEF QueueInv, BatchesAreExclusive
<1>8. ProcessingHasBatch'
  BY <1>1, <1>3 DEF QueueInv, ProcessingHasBatch
<1> QED
  BY <1>4, <1>5, <1>6, <1>7, <1>8 DEF QueueInv

-----------------------------------------------------------------------------
(* The statements that decide an order *)

\* Statements change an order that is in PROCESSING, or set what is set already.
Decides(o) ==
    /\ status' \in [Orders -> Status]
    /\ \A e \in Orders : e # o => status'[e] = status[e]
    /\ status'[o] # status[o] =>
           status[o] = "PROCESSING" /\ status'[o] \in {"COMPLETED", "FAILED"}

LEMMA MarksDecide ==
    ASSUME QueueInv, NEW o \in Orders, MarkCompleted(o) \/ MarkFailed(o)
    PROVE  Decides(o) /\ status'[o] # "PROCESSING"
<1>1. status \in [Orders -> Status]
  BY DEF QueueInv, QueueTypeOK
<1>2. CASE MarkCompleted(o)
  BY <1>1, <1>2 DEF MarkCompleted, Decides, Status
<1>3. CASE MarkFailed(o)
  BY <1>1, <1>3 DEF MarkFailed, Decides, Status
<1> QED
  BY <1>2, <1>3

\* The intent a worker is at is an order of its batch, and of no one's rows.
LEMMA HeadHeld ==
    ASSUME QueueInv, NEW w \in Processes, Working(w)
    PROVE  /\ Head(batch[w]) \in Orders /\ Head(batch[w]) \in ToSet(batch[w])
           /\ batch[w] \in Seq(Orders) /\ batch[w] # <<>>
           /\ Head(batch[w]) \notin Locked
  BY HeadAndTail DEF QueueInv, QueueTypeOK, BatchesAreExclusive, LocksAreExclusive, Working

\* Whatever a statement says of the intent, claims stay what they are.
LEMMA DecidedKeepsClaims ==
    ASSUME QueueInv, NEW o \in Orders, o \notin Locked, Decides(o),
           UNCHANGED <<at, selected, orphaned>>
    PROVE  /\ LocksAreExclusive'
           /\ \A w \in Processes : \A e \in ToSet(batch[w]) : status'[e] \notin {"NONE", "QUEUED"}
<1>1. Locked' = Locked /\ Locked \subseteq Orders
  BY DEF Locked, QueueInv, QueueTypeOK
<1>2. LocksAreExclusive'
  BY <1>1 DEF QueueInv, LocksAreExclusive, Decides
<1>3. ASSUME NEW w \in Processes, NEW e \in ToSet(batch[w])
      PROVE  status'[e] \notin {"NONE", "QUEUED"}
  <2>1. e \in Orders /\ status[e] \notin {"NONE", "QUEUED"}
    BY LenProperties DEF QueueInv, QueueTypeOK, BatchesAreExclusive, ToSet
  <2> QED
    BY <2>1 DEF Decides
<1> QED
  BY <1>2, <1>3

\* A worker is through with an intent: the order is decided or counted as lost.
LEMMA ThroughKeepsInv ==
    ASSUME QueueInv, NEW w \in Processes, Working(w), NextIntent(w),
           Decides(Head(batch[w])), UNCHANGED <<at, selected, orphaned>>,
           lost \subseteq lost', lost' \subseteq Orders,
           status'[Head(batch[w])] # "PROCESSING" \/ Head(batch[w]) \in lost'
    PROVE  QueueInv'
<1> DEFINE o == Head(batch[w])
<1>1. /\ o \in Orders /\ o \in ToSet(batch[w]) /\ o \notin Locked
      /\ batch[w] \in Seq(Orders) /\ batch[w] # <<>>
  BY HeadHeld
<1>2. /\ Tail(batch[w]) \in Seq(Orders)
      /\ ToSet(Tail(batch[w])) \subseteq ToSet(batch[w])
      /\ ToSet(batch[w]) \subseteq ToSet(Tail(batch[w])) \cup {o}
  BY <1>1, HeadAndTail
<1>3. /\ batch' = [batch EXCEPT ![w] = Tail(batch[w])] /\ failing' \subseteq failing
  BY DEF NextIntent
<1>4. /\ QueueTypeOK'
      /\ batch'[w] = Tail(batch[w])
      /\ \A v \in Processes : v # w => batch'[v] = batch[v]
  BY <1>2, <1>3 DEF QueueInv, QueueTypeOK, Decides
<1>5. \A v \in Processes : ToSet(batch'[v]) \subseteq ToSet(batch[v])
  BY <1>2, <1>4
<1>6. ClaimsAreLive'
  BY <1>4 DEF QueueInv, ClaimsAreLive, Running, Working
<1>7. LocksAreExclusive' /\ BatchesAreExclusive'
  BY <1>1, <1>5, DecidedKeepsClaims DEF QueueInv, BatchesAreExclusive
<1>8. ProcessingHasBatch'
  <2>1. ASSUME NEW e \in Orders, status'[e] = "PROCESSING", e \notin lost'
        PROVE  \E v \in Processes : e \in ToSet(batch'[v])
    <3>1. e # o /\ status[e] = "PROCESSING" /\ e \notin lost
      BY <1>1, <2>1 DEF Decides
    <3>2. PICK v \in Processes : e \in ToSet(batch[v])
      BY <3>1 DEF QueueInv, ProcessingHasBatch
    <3>3. e \in ToSet(batch'[v])
      BY <1>2, <1>4, <3>1, <3>2
    <3> QED
      BY <3>3
  <2> QED
    BY <2>1 DEF ProcessingHasBatch
<1> QED
  BY <1>4, <1>6, <1>7, <1>8 DEF QueueInv

LEMMA DecideKeepsInv ==
    ASSUME QueueInv, NEW w \in Processes, Complete(w) \/ Fail(w) \/ FailFails(w)
    PROVE  QueueInv'
<1> DEFINE o == Head(batch[w])
<1>1. Working(w) /\ NextIntent(w) /\ UNCHANGED <<at, selected, orphaned>>
  BY DEF Complete, Fail, FailFails, migrationVars
<1>2. o \in Orders /\ status \in [Orders -> Status] /\ lost \subseteq Orders
  BY <1>1, HeadHeld DEF QueueInv, QueueTypeOK
<1>3. /\ Decides(o) /\ lost \subseteq lost' /\ lost' \subseteq Orders
      /\ status'[o] # "PROCESSING" \/ o \in lost'
  <2>1. CASE (MarkCompleted(o) \/ MarkFailed(o)) /\ UNCHANGED lost
    BY <1>2, <2>1, MarksDecide
  <2>2. CASE UNCHANGED status /\ lost' = IF status[o] = "PROCESSING" THEN lost \cup {o} ELSE lost
    BY <1>2, <2>2 DEF Decides
  <2> QED
    BY <2>1, <2>2 DEF Complete, Fail, FailFails
<1> QED
  BY <1>1, <1>3, ThroughKeepsInv

LEMMA CompleteFailsKeepsInv ==
    ASSUME QueueInv, NEW w \in Processes, CompleteFails(w)
    PROVE  QueueInv'
<1> DEFINE o == Head(batch[w])
<1>1. /\ Working(w) /\ UNCHANGED <<at, selected, batch, orphaned, lost>>
      /\ failing' = failing \cup {w}
  BY DEF CompleteFails, migrationVars
<1>2. o \in Orders /\ o \notin Locked /\ status \in [Orders -> Status]
  BY <1>1, HeadHeld DEF QueueInv, QueueTypeOK
<1>3. Decides(o)
  BY <1>2, MarksDecide DEF CompleteFails, Decides
<1>4. QueueTypeOK'
  BY <1>1, <1>3 DEF QueueInv, QueueTypeOK, Decides
<1>5. ClaimsAreLive'
  BY <1>1 DEF QueueInv, ClaimsAreLive, Running
<1>6. LocksAreExclusive' /\ BatchesAreExclusive'
  BY <1>1, <1>2, <1>3, DecidedKeepsClaims DEF QueueInv, BatchesAreExclusive
<1>7. ProcessingHasBatch'
  BY <1>1, <1>2, <1>3 DEF QueueInv, ProcessingHasBatch, Decides
<1> QED
  BY <1>4, <1>5, <1>6, <1>7 DEF QueueInv

-----------------------------------------------------------------------------
(* Crashes, dropped connections, and migrations *)

LEMMA CrashKeepsInv ==
    ASSUME QueueInv, MigrationTypeOK, NEW w \in Processes, WorkerCrash(w)
    PROVE  QueueInv'
<1>1. /\ orphaned' = orphaned \cup selected[w]
      /\ lost' = lost \cup {o \in ToSet(batch[w]) : status[o] = "PROCESSING"}
      /\ selected' = [selected EXCEPT ![w] = {}]
      /\ batch' = [batch EXCEPT ![w] = <<>>]
      /\ failing' \subseteq failing /\ status' = status
      /\ at' = [at EXCEPT ![w] = Exited]
  BY DEF WorkerCrash, Crash, Fatal
<1>2. selected[w] \subseteq Orders /\ ToSet(batch[w]) \subseteq Orders
  BY LenProperties DEF QueueInv, QueueTypeOK, ToSet
<1>3. <<>> \in Seq(Orders) /\ ToSet(<<>>) = {}
  BY DEF ToSet
<1>4. /\ QueueTypeOK'
      /\ selected'[w] = {} /\ batch'[w] = <<>>
      /\ \A v \in Processes : v # w => /\ selected'[v] = selected[v] /\ batch'[v] = batch[v]
                                      /\ at'[v] = at[v]
  BY <1>1, <1>2, <1>3 DEF QueueInv, QueueTypeOK, MigrationTypeOK
<1>5. ClaimsAreLive'
  BY <1>4 DEF QueueInv, ClaimsAreLive, Running
<1>6. LocksAreExclusive'
  <2>1. ASSUME NEW o \in Locked' PROVE o \in Locked
    BY <1>1, <1>4, <2>1 DEF Locked
  <2> QED
    BY <1>1, <1>4, <2>1 DEF QueueInv, LocksAreExclusive
<1>7. BatchesAreExclusive'
  <2>1. ToSet(batch'[w]) = {} /\ \A v \in Processes : v # w => ToSet(batch'[v]) = ToSet(batch[v])
    BY <1>3, <1>4
  <2> QED
    BY <1>1, <2>1 DEF QueueInv, BatchesAreExclusive
<1>8. ProcessingHasBatch'
  <2>1. ASSUME NEW o \in Orders, status[o] = "PROCESSING", o \notin lost'
        PROVE  \E v \in Processes : o \in ToSet(batch'[v])
    <3>1. PICK v \in Processes : o \in ToSet(batch[v])
      BY <1>1, <2>1 DEF QueueInv, ProcessingHasBatch
    <3>2. v # w
      BY <1>1, <2>1, <3>1
    <3> QED
      BY <1>4, <3>1, <3>2
  <2> QED
    BY <1>1, <2>1 DEF ProcessingHasBatch
<1> QED
  BY <1>4, <1>5, <1>6, <1>7, <1>8 DEF QueueInv

LEMMA DroppedKeepsInv ==
    ASSUME QueueInv, ConnectionDropped
    PROVE  QueueInv'
<1>1. orphaned' = {} /\ UNCHANGED <<at, status, selected, batch, failing, lost>>
  BY DEF ConnectionDropped, migrationVars
<1>2. Locked' \subseteq Locked
  BY <1>1 DEF Locked
<1> QED
  BY <1>1, <1>2 DEF QueueInv, QueueTypeOK, ClaimsAreLive, Running, LocksAreExclusive,
                    BatchesAreExclusive, ProcessingHasBatch

\* Who migrates or starts again has claimed nothing.
LEMMA StartUpKeepsInv ==
    ASSUME QueueInv, MigrationTypeOK, NEW p \in Processes, RunMigrations(p) \/ Restart(p),
           UNCHANGED queueVars
    PROVE  QueueInv'
<1>1. ~Running(p)
  BY DEF RunMigrations, migrationApplied, Look, Execute, Record, Restart, Running
<1>2. \A q \in Processes : q # p => at'[q] = at[q]
  BY DEF MigrationTypeOK, RunMigrations, migrationApplied, Go, Look, Execute, Record, Fatal, Restart
<1>3. ClaimsAreLive'
  BY <1>1, <1>2 DEF QueueInv, ClaimsAreLive, Running, queueVars
<1> QED
  BY <1>3 DEF QueueInv, QueueTypeOK, LocksAreExclusive, Locked, BatchesAreExclusive,
              ProcessingHasBatch, queueVars

LEMMA NextQueueInv ==
    MigrationInv /\ QueueInv /\ [Next]_vars => QueueInv'
<1> SUFFICES ASSUME MigrationTypeOK, QueueInv, [Next]_vars PROVE QueueInv'
  BY DEF MigrationInv
<1>1. CASE UNCHANGED vars
  BY <1>1 DEF vars, migrationVars, queueVars, QueueInv, QueueTypeOK, ClaimsAreLive, Running,
              LocksAreExclusive, Locked, BatchesAreExclusive, ProcessingHasBatch
<1>2. CASE Next
  <2>1. ASSUME NEW p \in Processes, RunMigrations(p) \/ Restart(p), UNCHANGED queueVars
        PROVE  QueueInv'
    BY <2>1, StartUpKeepsInv
  <2>2. ASSUME NEW o \in Orders, Enqueue(o) \/ PaymentReport(o) PROVE QueueInv'
    BY <2>2, OutsideKeepsInv
  <2>3. ASSUME NEW w \in Processes, Poll(w) PROVE QueueInv'
    BY <2>3, SelectKeepsInv, CommitKeepsInv, DecideKeepsInv DEF Poll
  <2>4. ASSUME NEW w \in Processes, ClaimFails(w) \/ CompleteFails(w) \/ FailFails(w)
        PROVE  QueueInv'
    BY <2>4, ClaimFailsKeepsInv, CompleteFailsKeepsInv, DecideKeepsInv
  <2>5. ASSUME NEW w \in Processes, WorkerCrash(w) PROVE QueueInv'
    BY <2>5, CrashKeepsInv
  <2> QED
    BY <1>2, <2>1, <2>2, <2>3, <2>4, <2>5, DroppedKeepsInv DEF Next
<1> QED
  BY <1>1, <1>2

LEMMA QueueInvHolds == Spec => [](MigrationInv /\ QueueInv)
  BY WorkersMigrate, MigrationInvHolds, InitQueueInv, NextQueueInv, PTL DEF Spec

LEMMA AtMostOne ==
    ASSUME NEW S, \A v, w \in S : v = w
    PROVE  Cardinality(S) <= 1
<1>1. CASE S = {}
  BY <1>1, FS_EmptySet
<1>2. CASE S # {}
  <2>1. PICK w : w \in S
    BY <1>2
  <2>2. S = {w}
    BY <2>1
  <2>3. Cardinality({w}) = 1
    BY FS_Singleton
  <2> QED
    BY <2>2, <2>3
<1> QED
  BY <1>1, <1>2

LEMMA QueueInvHolding == QueueInv => ProcessingIsHeld
<1> SUFFICES ASSUME QueueInv, NEW o \in Orders
    PROVE  LET holders == {w \in Processes : Running(w) /\ o \in ToSet(batch[w])}
           IN  /\ Cardinality(holders) <= 1
               /\ status[o] = "PROCESSING" /\ o \notin lost => holders # {}
               /\ o \in orphaned \cup UNION {selected[w] : w \in Processes} => status[o] = "QUEUED"
  BY DEF ProcessingIsHeld
<1> DEFINE holders == {w \in Processes : Running(w) /\ o \in ToSet(batch[w])}
<1>1. Cardinality(holders) <= 1
  <2>1. \A v, w \in holders : v = w
    BY DEF QueueInv, BatchesAreExclusive
  <2> QED
    BY <2>1, AtMostOne
<1>2. ASSUME status[o] = "PROCESSING", o \notin lost PROVE holders # {}
  <2>1. PICK w \in Processes : o \in ToSet(batch[w])
    BY <1>2 DEF QueueInv, ProcessingHasBatch
  <2>2. Running(w)
    BY <2>1 DEF QueueInv, ClaimsAreLive, ToSet
  <2> QED
    BY <2>1, <2>2
<1>3. o \in orphaned \cup UNION {selected[w] : w \in Processes} => status[o] = "QUEUED"
  BY DEF QueueInv, LocksAreExclusive, Locked
<1> QED
  BY <1>1, <1>2, <1>3

\* No order is in the batches of two workers (ClaimQueued selects FOR UPDATE
\* SKIP LOCKED and promotes what is still QUEUED), none stands in PROCESSING
\* without a worker that will get to it, except those an error or a crash left
\* behind, and a row that a claim has locked waits in the queue.
THEOREM ClaimsExclusive == Spec => []ProcessingIsHeld
  BY QueueInvHolds, QueueInvHolding, PTL

LEMMA NextVerdicts ==
    ASSUME QueueInv, [Next]_vars, NEW o \in Orders,
           status[o] \notin {"NONE", "QUEUED", "PROCESSING"}
    PROVE  status'[o] = status[o] \/ PaymentReport(o)
<1>1. status \in [Orders -> Status]
  BY DEF QueueInv, QueueTypeOK
<1>2. ASSUME NEW e \in Orders, Enqueue(e) \/ PaymentReport(e)
      PROVE  status'[o] = status[o] \/ PaymentReport(o)
  BY <1>1, <1>2 DEF Enqueue, PaymentReport
<1>3. ASSUME NEW w \in Processes, Promote(w) PROVE status'[o] = status[o]
  BY <1>3 DEF Promote
<1>4. ASSUME NEW e \in Orders, MarkCompleted(e) \/ MarkFailed(e) PROVE status'[o] = status[o]
  BY <1>1, <1>4 DEF MarkCompleted, MarkFailed
<1>5. ASSUME NEW w \in Processes, Complete(w) \/ Fail(w) \/ CompleteFails(w) \/ FailFails(w)
      PROVE  status'[o] = status[o]
  <2>1. Head(batch[w]) \in Orders
    BY <1>5, HeadHeld DEF Complete, Fail, CompleteFails, FailFails
  <2> QED
    BY <1>4, <1>5, <2>1 DEF Complete, Fail, CompleteFails, FailFails
<1>6. ASSUME NEW w \in Processes, SelectQueued(w) \/ CommitClaim(w) \/ ClaimFails(w) \/ WorkerCrash(w)
      PROVE  status'[o] = status[o]
  BY <1>3, <1>6 DEF SelectQueued, CommitClaim, ClaimFails, WorkerCrash
<1> QED
  BY <1>2, <1>5, <1>6 DEF Next, vars, queueVars, Poll, ConnectionDropped

\* What was decided of an order is revised by payment reports only: the statements
\* of Complete and Fail look at the status they change, and claims look at QUEUED.
THEOREM OnlyReportsReviseVerdicts == Spec => OnlyReportsRevise
<1>1. QueueInv /\ [Next]_vars
        => [\A o \in Orders : status[o] \notin {"NONE", "QUEUED", "PROCESSING"}
                               => status'[o] = status[o] \/ PaymentReport(o)]_vars
  BY NextVerdicts
<1> QED
  BY <1>1, QueueInvHolds, PTL DEF Spec, OnlyReportsRevise

-----------------------------------------------------------------------------
(* Signing keys, for any keys, tokens, answers of the issuer and handlers  *)


Longest == Max({Lifetime(a) : a \in Ages})

Steps == {"IDLE", "ACCEPTED", "REJECTED", "LOOKUP", "FETCHING", "SERVED", "FETCHED"}

HandlerStates ==
    [step : Steps, token : Tokens \cup {Free.token}, steady : BOOLEAN,
     since : Nat, keys : SUBSET Kids, until : Nat]

Typed ==
    /\ now \in Nat
    /\ published \subseteq Kids
    /\ withdrawn \in [DOMAIN withdrawn -> Nat]
    /\ cachedKeys \subseteq Kids /\ cacheExpiresAt \in Nat
    /\ handler \in [Handlers -> HandlerStates]

\* The keys were published at time t or later.
PublishedSince(keys, t) ==
    \A k \in keys : \/ k \in published
                    \/ k \in DOMAIN withdrawn /\ t <= withdrawn[k]

\* Keys that are good until a moment: however long their answer took, none was
\* withdrawn long before.
GoodUntil(keys, until) ==
    /\ \A k \in keys :
          \/ k \in published
          \/ k \in DOMAIN withdrawn /\ until <= withdrawn[k] + Timeout + Longest
    /\ until <= now + Longest

\* Time stands still while a handler does not wait for the issuer.
OnTime(h) ==
    LET hn == handler[h] IN
    /\ hn.step = "LOOKUP" => now < hn.token.exp
    /\ hn.step \in {"FETCHING", "SERVED"} =>
          hn.since < hn.token.exp /\ hn.since <= now /\ now <= hn.since + Timeout
    /\ hn.step = "FETCHED" => now < hn.token.exp + Timeout /\ now <= hn.until

KeysAreRight(h) ==
    LET hn == handler[h] IN
    /\ hn.step = "SERVED" => PublishedSince(hn.keys, hn.since) /\ hn.until \in Ages
    /\ hn.step = "FETCHED" => GoodUntil(hn.keys, hn.until)

\* A key that has been published all the while is in every answer.
SteadyIsServed(h) ==
    LET hn == handler[h] IN
    hn.step \notin Answered /\ hn.steady =>
        /\ hn.token.kid \in published
        /\ hn.step \in {"SERVED", "FETCHED"} => hn.token.kid \in hn.keys

HandlerInv(h) ==
    /\ handler[h].step \notin Answered => handler[h].token \in Tokens /\ handler[h].token.ours
    /\ OnTime(h) /\ KeysAreRight(h) /\ SteadyIsServed(h)

CacheIsRight == cachedKeys # {} => GoodUntil(cachedKeys, cacheExpiresAt)

KeysInv ==
    /\ Typed
    /\ \A k \in DOMAIN withdrawn : k \notin published
    /\ CacheIsRight
    /\ \A h \in Handlers : HandlerInv(h)

-----------------------------------------------------------------------------
(* The longest lifetime of an answer *)

\* A finite set has an element of greatest rank.
LEMMA FiniteArgMax ==
    ASSUME NEW S, IsFiniteSet(S), S # {}, NEW r \in [S -> Int]
    PROVE  \E x \in S : \A y \in S : r[y] <= r[x]
<1> DEFINE HasMax(T) == \E x \in T : \A y \in T : r[y] <= r[x]
           NoMax == {T \in SUBSET S : T # {} /\ ~HasMax(T)}
<1> SUFFICES ASSUME S \in NoMax PROVE FALSE
  OBVIOUS
<1>1. IsWellFoundedOn(StrictSubsetOrdering(S), SUBSET S)
  BY FS_StrictSubsetOrderingWellFounded, FS_FiniteSubsetsOfFinite
<1>2. PICK T \in NoMax : \A U \in NoMax : ~(<<U, T>> \in StrictSubsetOrdering(S))
  <2> HIDE DEF NoMax
  <2>1. NoMax \subseteq SUBSET S /\ NoMax # {}
    BY DEF NoMax
  <2> QED
    BY <1>1, <2>1, WFMin, Zenon
<1>3. T \subseteq S /\ T # {} /\ ~HasMax(T)
  BY <1>2
<1>4. PICK x : x \in T
  BY <1>3
<1> DEFINE U == T \ {x}
<1>5. <<U, T>> \in StrictSubsetOrdering(S)
  BY <1>3, <1>4 DEF StrictSubsetOrdering
<1>6. U = {} \/ HasMax(U)
  BY <1>2, <1>3, <1>5
<1>7. CASE U = {}
  <2>1. \A y \in T : y = x
    BY <1>7
  <2> QED
    BY <1>3, <1>4, <2>1
<1>8. CASE HasMax(U)
  <2>1. PICK z \in U : \A y \in U : r[y] <= r[z]
    BY <1>8
  <2>2. r[x] \in Int /\ r[z] \in Int /\ \A y \in T : r[y] \in Int /\ (y = x \/ y \in U)
    BY <1>3, <1>4
  <2>3. CASE r[z] <= r[x]
    <3>1. \A y \in T : r[y] <= r[x]
      BY <2>1, <2>2, <2>3
    <3> QED
      BY <1>3, <1>4, <3>1
  <2>4. CASE ~(r[z] <= r[x])
    <3>1. \A y \in T : r[y] <= r[z]
      BY <2>1, <2>2, <2>4
    <3> QED
      BY <1>3, <2>1, <3>1
  <2> QED
    BY <2>3, <2>4
<1> QED
  BY <1>6, <1>7, <1>8

LEMMA LongestIsLongest ==
    /\ Longest \in Nat
    /\ \A a \in Ages : Lifetime(a) \in Nat /\ Lifetime(a) <= Longest
<1> DEFINE L == {Lifetime(a) : a \in Ages}
           r == [a \in Ages |-> Lifetime(a)]
<1>1. \A a \in Ages : a \in Nat /\ Lifetime(a) \in Nat
  BY TimesAssumption DEF Lifetime
<1>2. r \in [Ages -> Int]
  BY <1>1
<1>3. \E a \in Ages : \A b \in Ages : r[b] <= r[a]
  <2> HIDE DEF r
  <2> QED
    BY <1>2, TimesAssumption, FiniteArgMax
<1>4. \E x \in L : \A y \in L : x >= y
  BY <1>1, <1>3
<1>5. Longest \in L /\ \A y \in L : Longest >= y
  <2> HIDE DEF L
  <2>1. Longest = CHOOSE x \in L : \A y \in L : x >= y
    BY DEF Longest, Max, L
  <2> QED
    BY <1>4, <2>1
<1> QED
  BY <1>1, <1>5

-----------------------------------------------------------------------------
(* One handler *)

LEMMA FreeIsState == Free \in HandlerStates
<1>1. Free.token \in Tokens \cup {Free.token} /\ "IDLE" \in Steps
  BY DEF Steps
<1>2. Free.token = [kid |-> {}, iat |-> 0, exp |-> 0, ours |-> FALSE]
  BY DEF Free
<1> DEFINE t == Free.token
<1>3. Free = [step |-> "IDLE", token |-> t, steady |-> FALSE, since |-> 0, keys |-> {},
              until |-> 0]
  BY <1>2 DEF Free
<1>4. t \in Tokens \cup {t}
  OBVIOUS
<1> HIDE DEF t
<1>5. [step |-> "IDLE", token |-> t, steady |-> FALSE, since |-> 0, keys |-> {},
       until |-> 0]
         \in [step : Steps, token : Tokens \cup {t}, steady : BOOLEAN,
              since : Nat, keys : SUBSET Kids, until : Nat]
  BY <1>1, <1>4
<1> QED
  BY <1>3, <1>5 DEF HandlerStates, t

LEMMA FreeIsIdle ==
    ASSUME NEW a \in Answered
    PROVE  /\ [Free EXCEPT !.step = a] \in HandlerStates
           /\ [Free EXCEPT !.step = a].step = a
<1>1. a \in Steps
  BY DEF Answered, Steps
<1> QED
  BY <1>1, FreeIsState DEF HandlerStates

\* A step of one handler that leaves the issuer and the clock alone.
LEMMA OneHandler ==
    ASSUME KeysInv, NEW h \in Handlers, NEW hn \in HandlerStates,
           handler' = [handler EXCEPT ![h] = hn], UNCHANGED <<now, published, withdrawn>>,
           cachedKeys' \subseteq Kids, cacheExpiresAt' \in Nat, CacheIsRight',
           HandlerInv(h)'
    PROVE  KeysInv'
<1> USE DEF KeysInv, Typed
<1>1. handler' \in [Handlers -> HandlerStates]
  OBVIOUS
<1>2. ASSUME NEW g \in Handlers, g # h
      PROVE  HandlerInv(g)'
  <2>1. handler'[g] = handler[g]
    BY <1>2
  <2>2. HandlerInv(g)
    BY Zenon
  <2> QED
    BY <2>1, <2>2
       DEF HandlerInv, OnTime, KeysAreRight, SteadyIsServed, PublishedSince, GoodUntil
<1>3. \A g \in Handlers : HandlerInv(g)'
  BY <1>2, Zenon
<1>4. Typed'
  BY <1>1
<1> QED
  BY <1>3, <1>4

LEMMA AnswerKeeps ==
    ASSUME KeysInv, NEW h \in Handlers, NEW a \in Answered, Answer(h, a),
           UNCHANGED <<now, published, withdrawn>>,
           cachedKeys' \subseteq Kids, cacheExpiresAt' \in Nat, CacheIsRight'
    PROVE  KeysInv' /\ handler'[h].step = a
<1> DEFINE hn == [Free EXCEPT !.step = a]
<1>1. hn \in HandlerStates /\ hn.step = a
  BY FreeIsIdle
<1>2. handler' = [handler EXCEPT ![h] = hn]
  BY DEF Answer
<1> HIDE DEF hn
<1>3. handler'[h] = hn
  BY <1>2 DEF KeysInv, Typed
<1>4. HandlerInv(h)'
  BY <1>1, <1>3 DEF HandlerInv, OnTime, KeysAreRight, SteadyIsServed, Answered
<1>5. KeysInv'
  BY <1>1, <1>2, <1>4, OneHandler
<1> QED
  BY <1>1, <1>3, <1>5

LEMMA CacheStays ==
    ASSUME KeysInv, UNCHANGED <<now, published, withdrawn, cachedKeys, cacheExpiresAt>>
    PROVE  cachedKeys' \subseteq Kids /\ cacheExpiresAt' \in Nat /\ CacheIsRight'
BY DEF KeysInv, Typed, CacheIsRight, GoodUntil

LEMMA VerifyKeeps ==
    ASSUME KeysInv, NEW h \in Handlers, NEW t \in Tokens, Verify(h, t)
    PROVE  KeysInv'
<1>1. UNCHANGED <<now, published, withdrawn, cachedKeys, cacheExpiresAt>>
  BY DEF Verify, issuerVars, cacheVars
<1>2. CASE ClaimsValid(t)
  <2> DEFINE hn == [Free EXCEPT !.step = "LOOKUP", !.token = t,
                                !.steady = t.kid \in published]
  <2>1. handler' = [handler EXCEPT ![h] = hn]
    BY <1>2 DEF Verify
  <2>2. /\ hn.step = "LOOKUP" /\ hn.token = t
        /\ hn.since = 0 /\ hn.keys = {} /\ hn.until = 0
    BY DEF Free
  <2>3. hn.steady <=> t.kid \in published
    BY DEF Free
  <2>4. hn \in HandlerStates
    <3>1. "LOOKUP" \in Steps /\ t \in Tokens \cup {Free.token}
      BY DEF Steps
    <3>2. \E b \in BOOLEAN : b = (t.kid \in published)
      <4>1. (t.kid \in published) \in BOOLEAN
        OBVIOUS
      <4> WITNESS (t.kid \in published) \in BOOLEAN
      <4> QED
        OBVIOUS
    <3>3. PICK b \in BOOLEAN : b = (t.kid \in published)
      BY <3>2, Zenon
    <3>4. hn = [Free EXCEPT !.step = "LOOKUP", !.token = t, !.steady = b]
      BY <3>3, Zenon
    <3> HIDE DEF hn
    <3> QED
      BY <3>1, <3>4, FreeIsState DEF HandlerStates
  <2> HIDE DEF hn
  <2>5. handler'[h] = hn
    BY <2>1 DEF KeysInv, Typed
  <2>6. t.ours /\ now < t.exp
    BY <1>2, TimesAssumption DEF ClaimsValid, KeysInv, Typed
  <2>7. HandlerInv(h)'
    BY <1>1, <2>2, <2>3, <2>5, <2>6 DEF HandlerInv, OnTime, KeysAreRight, SteadyIsServed
  <2> QED
    BY <1>1, <2>1, <2>4, <2>7, CacheStays, OneHandler
<1>3. CASE ~ClaimsValid(t)
  <2>1. Answer(h, "REJECTED")
    BY <1>3 DEF Verify
  <2> QED
    BY <1>1, <2>1, CacheStays, AnswerKeeps DEF Answered
<1> QED
  BY <1>2, <1>3

\* The handler asks the issuer.
LEMMA LookUpKeeps ==
    ASSUME KeysInv, NEW h \in Handlers, LookUp(h)
    PROVE  KeysInv'
<1>1. UNCHANGED <<now, published, withdrawn, cachedKeys, cacheExpiresAt>>
  BY DEF LookUp, issuerVars, cacheVars
<1>2. CASE Answer(h, "ACCEPTED")
  BY <1>1, <1>2, CacheStays, AnswerKeeps DEF Answered
<1>3. CASE handler' = [handler EXCEPT ![h].step = "FETCHING", ![h].since = now]
  <2> DEFINE hn == [handler[h] EXCEPT !.step = "FETCHING", !.since = now]
  <2>1. handler' = [handler EXCEPT ![h] = hn]
    BY <1>3 DEF KeysInv, Typed, HandlerStates
  <2>2. handler[h] \in HandlerStates /\ now \in Nat /\ "FETCHING" \in Steps
    BY DEF KeysInv, Typed, Steps
  <2>3. /\ hn \in HandlerStates
        /\ hn.step = "FETCHING" /\ hn.since = now
        /\ hn.token = handler[h].token /\ hn.steady = handler[h].steady
    BY <2>2 DEF HandlerStates
  <2> HIDE DEF hn
  <2>4. handler'[h] = hn
    BY <2>1 DEF KeysInv, Typed
  <2>5. handler[h].step = "LOOKUP" /\ HandlerInv(h)
    <3>1. handler[h].step = "LOOKUP"
      BY DEF LookUp
    <3> QED
      BY <3>1, Zenon DEF KeysInv
  <2>6. OnTime(h)'
    <3>1. now < hn.token.exp /\ now <= now + Timeout
      BY <2>2, <2>3, <2>5, TimesAssumption DEF HandlerInv, OnTime
    <3> QED
      BY <1>1, <2>2, <2>3, <2>4, <3>1 DEF OnTime
  <2>7. HandlerInv(h)'
    BY <1>1, <2>3, <2>4, <2>5, <2>6
       DEF HandlerInv, KeysAreRight, SteadyIsServed, Answered
  <2> QED
    BY <1>1, <2>1, <2>3, <2>7, CacheStays, OneHandler
<1> QED
  BY <1>2, <1>3 DEF LookUp

\* The answer leaves with what is published: whatever will be missing from that
\* is withdrawn later.
LEMMA ServeKeeps ==
    ASSUME KeysInv, NEW h \in Handlers, NEW age \in Ages, Serve(h, age)
    PROVE  KeysInv'
<1>1. UNCHANGED <<now, published, withdrawn, cachedKeys, cacheExpiresAt>>
  BY DEF Serve, issuerVars, cacheVars
<1> DEFINE hn == [handler[h] EXCEPT !.step = "SERVED", !.keys = published, !.until = age]
<1>2. handler' = [handler EXCEPT ![h] = hn]
  BY DEF Serve, KeysInv, Typed, HandlerStates
<1>3. handler[h] \in HandlerStates /\ age \in Nat /\ "SERVED" \in Steps /\ published \subseteq Kids
  BY TimesAssumption DEF KeysInv, Typed, Steps
<1>4. /\ hn \in HandlerStates
      /\ hn.step = "SERVED" /\ hn.keys = published /\ hn.until = age
      /\ hn.since = handler[h].since /\ hn.token = handler[h].token /\ hn.steady = handler[h].steady
  BY <1>3 DEF HandlerStates
<1> HIDE DEF hn
<1>5. handler'[h] = hn
  BY <1>2 DEF KeysInv, Typed
<1>6. handler[h].step = "FETCHING" /\ HandlerInv(h)
  <2>1. handler[h].step = "FETCHING"
    BY DEF Serve
  <2> QED
    BY <2>1, Zenon DEF KeysInv
<1>7. OnTime(h)'
  BY <1>1, <1>4, <1>5, <1>6 DEF HandlerInv, OnTime
<1>8. KeysAreRight(h)' /\ SteadyIsServed(h)'
  BY <1>1, <1>4, <1>5, <1>6
     DEF HandlerInv, KeysAreRight, SteadyIsServed, PublishedSince, Answered
<1>9. HandlerInv(h)'
  BY <1>1, <1>4, <1>5, <1>6, <1>7, <1>8 DEF HandlerInv, Answered
<1> QED
  BY <1>1, <1>2, <1>4, <1>9, CacheStays, OneHandler

\* The answer has been read: within the time-out, so its keys are good until at
\* most the time-out and a lifetime after the request.
LEMMA FetchKeeps ==
    ASSUME KeysInv, NEW h \in Handlers, fetchKeys(h)
    PROVE  KeysInv'
<1>1. UNCHANGED <<now, published, withdrawn, cachedKeys, cacheExpiresAt>>
  BY DEF fetchKeys, issuerVars, cacheVars
<1> DEFINE hn == [handler[h] EXCEPT !.step = "FETCHED", !.since = 0,
                               !.until = now + Lifetime(handler[h].until)]
<1>2. handler' = [handler EXCEPT ![h] = hn]
  BY DEF fetchKeys, KeysInv, Typed, HandlerStates
<1>3. /\ handler[h].step = "SERVED" /\ handler[h] \in HandlerStates
      /\ now \in Nat /\ withdrawn \in [DOMAIN withdrawn -> Nat] /\ "FETCHED" \in Steps
  BY DEF fetchKeys, KeysInv, Typed, Steps
<1>4. HandlerInv(h)
  BY DEF KeysInv
<1>5. handler[h].until \in Ages /\ PublishedSince(handler[h].keys, handler[h].since)
  BY <1>3, <1>4 DEF HandlerInv, KeysAreRight
<1>6. /\ Lifetime(handler[h].until) \in Nat /\ Lifetime(handler[h].until) <= Longest
      /\ Longest \in Nat /\ Timeout \in Nat
  BY <1>5, LongestIsLongest, TimesAssumption
<1>7. /\ hn \in HandlerStates
      /\ hn.step = "FETCHED" /\ hn.keys = handler[h].keys
      /\ hn.until = now + Lifetime(handler[h].until)
      /\ hn.token = handler[h].token /\ hn.steady = handler[h].steady
  <2> PICK z \in Nat : z = 0
    OBVIOUS
  <2>1. hn = [handler[h] EXCEPT !.step = "FETCHED", !.since = z,
                           !.until = now + Lifetime(handler[h].until)]
    OBVIOUS
  <2>2. now + Lifetime(handler[h].until) \in Nat
    BY <1>3, <1>6
  <2> HIDE DEF hn
  <2> QED
    BY <1>3, <2>1, <2>2 DEF HandlerStates
<1> HIDE DEF hn
<1>8. handler'[h] = hn
  BY <1>2 DEF KeysInv, Typed
<1>9. /\ handler[h].since < handler[h].token.exp /\ handler[h].since <= now
      /\ now <= handler[h].since + Timeout
      /\ handler[h].since \in Nat /\ handler[h].token \in Tokens /\ handler[h].token.exp \in Nat
  <2>1. handler[h].token \in Tokens
    BY <1>3, <1>4 DEF HandlerInv, Answered
  <2> QED
    BY <1>3, <1>4, <2>1, TimesAssumption DEF HandlerInv, OnTime, HandlerStates
<1>10. OnTime(h)'
  <2>1. now < hn.token.exp + Timeout /\ now <= hn.until
    BY <1>3, <1>6, <1>7, <1>9
  <2> QED
    BY <1>1, <1>7, <1>8, <2>1 DEF OnTime
<1>11. KeysAreRight(h)'
  <2>1. now + Lifetime(handler[h].until) <= now + Longest
    BY <1>3, <1>6
  <2>2. ASSUME NEW k \in handler[h].keys, k \notin published
        PROVE  /\ k \in DOMAIN withdrawn
               /\ now + Lifetime(handler[h].until) <= withdrawn[k] + Timeout + Longest
    <3>1. k \in DOMAIN withdrawn /\ handler[h].since <= withdrawn[k] /\ withdrawn[k] \in Nat
      BY <1>3, <1>5, <2>2 DEF PublishedSince
    <3> QED
      BY <1>3, <1>6, <1>9, <3>1
  <2>3. GoodUntil(handler[h].keys, now + Lifetime(handler[h].until))
    BY <2>1, <2>2 DEF GoodUntil
  <2> QED
    BY <1>1, <1>7, <1>8, <2>3 DEF KeysAreRight, GoodUntil
<1>12. SteadyIsServed(h)'
  BY <1>1, <1>3, <1>4, <1>7, <1>8 DEF HandlerInv, SteadyIsServed, Answered
<1>13. HandlerInv(h)'
  BY <1>3, <1>4, <1>7, <1>8, <1>10, <1>11, <1>12 DEF HandlerInv, Answered
<1> QED
  BY <1>1, <1>2, <1>7, <1>13, CacheStays, OneHandler

LEMMA StoreKeeps ==
    ASSUME KeysInv, NEW h \in Handlers, StoreKeys(h)
    PROVE  KeysInv'
<1>1. /\ UNCHANGED <<now, published, withdrawn>> /\ handler[h].step = "FETCHED"
      /\ cachedKeys' = handler[h].keys /\ cacheExpiresAt' = handler[h].until
      /\ Answer(h, IF handler[h].token.kid \in handler[h].keys THEN "ACCEPTED" ELSE "REJECTED")
  BY DEF StoreKeys, issuerVars
<1>2. cachedKeys' \subseteq Kids /\ cacheExpiresAt' \in Nat
  BY <1>1 DEF KeysInv, Typed, HandlerStates
<1>3. CacheIsRight'
  <2>1. HandlerInv(h)
    BY DEF KeysInv
  <2>2. GoodUntil(handler[h].keys, handler[h].until)
    BY <1>1, <2>1 DEF HandlerInv, KeysAreRight
  <2> QED
    BY <1>1, <2>2 DEF CacheIsRight, GoodUntil
<1>4. PICK a \in Answered : Answer(h, a)
  BY <1>1 DEF Answered
<1> QED
  BY <1>1, <1>2, <1>3, <1>4, AnswerKeeps

-----------------------------------------------------------------------------
(* Time, and the issuer *)

LEMMA TickKeeps ==
    ASSUME KeysInv, Tick
    PROVE  KeysInv'
<1>1. /\ now' = now + 1 /\ now \in Nat
      /\ UNCHANGED <<published, withdrawn, cachedKeys, cacheExpiresAt, handler>>
  BY DEF Tick, issuerVars, cacheVars, KeysInv, Typed
<1>2. Typed'
  BY <1>1 DEF KeysInv, Typed
<1>3. ASSUME NEW keys, NEW until \in Nat, GoodUntil(keys, until)
      PROVE  GoodUntil(keys, until)'
  BY <1>1, <1>3, LongestIsLongest DEF GoodUntil
<1>4. CacheIsRight'
  BY <1>1, <1>3 DEF CacheIsRight, KeysInv, Typed
<1>5. ASSUME NEW h \in Handlers
      PROVE  HandlerInv(h)'
  <2>1. HandlerInv(h) /\ handler[h] \in HandlerStates
    BY DEF KeysInv, Typed
  <2>2. \/ handler[h].step \in Answered
        \/ handler[h].step \in {"FETCHING", "SERVED"} /\ now < handler[h].since + Timeout
    BY DEF Tick, Waiting
  <2>3. handler[h].since \in Nat /\ Timeout \in Nat
    BY <2>1, TimesAssumption DEF HandlerStates
  <2>4. OnTime(h)'
    BY <1>1, <2>1, <2>2, <2>3 DEF HandlerInv, OnTime, Answered
  <2>5. KeysAreRight(h)' /\ SteadyIsServed(h)'
    BY <1>1, <2>1, <2>2
       DEF HandlerInv, KeysAreRight, SteadyIsServed, PublishedSince, Answered
  <2> QED
    BY <1>1, <2>1, <2>4, <2>5 DEF HandlerInv
<1> QED
  BY <1>1, <1>2, <1>4, <1>5 DEF KeysInv

LEMMA PublishKeeps ==
    ASSUME KeysInv, NEW k \in Kids, Publish(k)
    PROVE  KeysInv'
<1>1. /\ published' = published \cup {k} /\ k \notin DOMAIN withdrawn
      /\ UNCHANGED <<now, withdrawn, cachedKeys, cacheExpiresAt, handler>>
  BY DEF Publish, cacheVars
<1>2. Typed'
  BY <1>1 DEF KeysInv, Typed
<1>3. CacheIsRight'
  BY <1>1 DEF KeysInv, CacheIsRight, GoodUntil
<1>4. ASSUME NEW h \in Handlers
      PROVE  HandlerInv(h)'
  <2>1. HandlerInv(h)
    BY DEF KeysInv
  <2> QED
    BY <1>1, <2>1
       DEF HandlerInv, OnTime, KeysAreRight, SteadyIsServed, PublishedSince, GoodUntil
<1>5. \A j \in DOMAIN withdrawn' : j \notin published'
  BY <1>1 DEF KeysInv
<1> QED
  BY <1>2, <1>3, <1>4, <1>5 DEF KeysInv

\* A key that is withdrawn now was published until now.
LEMMA WithdrawKeeps ==
    ASSUME KeysInv, NEW k \in Kids, Withdraw(k)
    PROVE  KeysInv'
<1>1. /\ published' = published \ {k} /\ k \in published
      /\ DOMAIN withdrawn' = DOMAIN withdrawn \cup {k}
      /\ withdrawn'[k] = now
      /\ \A j \in DOMAIN withdrawn : j # k => withdrawn'[j] = withdrawn[j]
      /\ UNCHANGED <<now, cachedKeys, cacheExpiresAt>>
  BY DEF Withdraw, cacheVars
<1>2. /\ now \in Nat /\ Longest \in Nat /\ Timeout \in Nat
      /\ withdrawn \in [DOMAIN withdrawn -> Nat]
      /\ withdrawn' \in [DOMAIN withdrawn' -> Nat]
  BY LongestIsLongest, TimesAssumption DEF KeysInv, Typed, Withdraw
<1>3. ASSUME NEW h \in Handlers
      PROVE  /\ handler'[h].step = handler[h].step /\ handler'[h].token = handler[h].token
             /\ handler'[h].since = handler[h].since /\ handler'[h].keys = handler[h].keys
             /\ handler'[h].until = handler[h].until
             /\ handler'[h].steady => handler[h].steady /\ handler[h].token.kid # k
             /\ handler'[h] \in HandlerStates
  <2>1. handler'[h] = [handler[h] EXCEPT !.steady = handler[h].steady /\ handler[h].token.kid # k]
    BY DEF Withdraw
  <2>2. handler[h] \in HandlerStates
    BY DEF KeysInv, Typed
  <2>3. PICK b \in BOOLEAN : b = (handler[h].steady /\ handler[h].token.kid # k)
    OBVIOUS
  <2>4. handler'[h] = [handler[h] EXCEPT !.steady = b]
    BY <2>1, <2>3
  <2> QED
    BY <2>2, <2>3, <2>4 DEF HandlerStates
<1>4. Typed'
  <2>1. handler' \in [Handlers -> HandlerStates]
    BY <1>3 DEF Withdraw
  <2> QED
    BY <1>1, <1>2, <2>1 DEF KeysInv, Typed
<1>5. ASSUME NEW keys, NEW until \in Nat, GoodUntil(keys, until)
      PROVE  GoodUntil(keys, until)'
  BY <1>1, <1>2, <1>5 DEF GoodUntil
<1>6. CacheIsRight'
  BY <1>1, <1>5 DEF CacheIsRight, KeysInv, Typed
<1>7. ASSUME NEW h \in Handlers
      PROVE  HandlerInv(h)'
  <2>1. HandlerInv(h) /\ handler[h] \in HandlerStates
    BY DEF KeysInv, Typed
  <2>2. OnTime(h)'
    BY <1>1, <1>3, <2>1 DEF HandlerInv, OnTime
  <2>3. KeysAreRight(h)'
    <3>1. CASE handler[h].step = "SERVED"
      <4>1. PublishedSince(handler[h].keys, handler[h].since) /\ handler[h].since <= now
        BY <2>1, <3>1 DEF HandlerInv, KeysAreRight, OnTime
      <4>2. PublishedSince(handler[h].keys, handler[h].since)'
        BY <1>1, <1>3, <4>1 DEF PublishedSince
      <4> QED
        BY <1>3, <2>1, <3>1, <4>2 DEF HandlerInv, KeysAreRight
    <3>2. CASE handler[h].step = "FETCHED"
      <4>1. GoodUntil(handler[h].keys, handler[h].until) /\ handler[h].until \in Nat
        BY <2>1, <3>2 DEF HandlerInv, KeysAreRight, HandlerStates
      <4> QED
        BY <1>3, <1>5, <3>2, <4>1 DEF KeysAreRight
    <3> QED
      BY <1>3, <3>1, <3>2 DEF KeysAreRight
  <2>4. SteadyIsServed(h)'
    BY <1>1, <1>3, <2>1 DEF HandlerInv, SteadyIsServed
  <2> QED
    BY <1>3, <2>1, <2>2, <2>3, <2>4 DEF HandlerInv
<1>8. \A j \in DOMAIN withdrawn' : j \notin published'
  BY <1>1 DEF KeysInv
<1> QED
  BY <1>4, <1>6, <1>7, <1>8 DEF KeysInv

-----------------------------------------------------------------------------
(* The theorems *)

LEMMA KeysInvHolds == KeysSpec => []KeysInv
<1>1. KeysInit => KeysInv
  <2> SUFFICES ASSUME KeysInit PROVE KeysInv
    OBVIOUS
  <2>1. Typed
    BY FreeIsState DEF KeysInit, Typed
  <2>2. CacheIsRight
    BY DEF KeysInit, CacheIsRight
  <2>3. ASSUME NEW h \in Handlers
        PROVE  HandlerInv(h)
    <3>1. handler[h].step = "IDLE"
      BY DEF KeysInit, Free
    <3> QED
      BY <3>1 DEF HandlerInv, OnTime, KeysAreRight, SteadyIsServed, Answered
  <2>4. DOMAIN withdrawn = {}
    BY DEF KeysInit
  <2> QED
    BY <2>1, <2>2, <2>3, <2>4 DEF KeysInv
<1>2. KeysInv /\ [KeysNext]_keysVars => KeysInv'
  <2> SUFFICES ASSUME KeysInv, [KeysNext]_keysVars PROVE KeysInv'
    OBVIOUS
  <2>1. CASE UNCHANGED keysVars
    BY <2>1 DEF keysVars, KeysInv, Typed, CacheIsRight, HandlerInv, OnTime, KeysAreRight,
                SteadyIsServed, PublishedSince, GoodUntil
  <2>2. ASSUME NEW h \in Handlers, FetchFails(h)
        PROVE  KeysInv'
    <3>1. /\ UNCHANGED <<now, published, withdrawn, cachedKeys, cacheExpiresAt>>
          /\ Answer(h, "IDLE") /\ "IDLE" \in Answered
      BY <2>2 DEF FetchFails, issuerVars, cacheVars, Answered
    <3> QED
      BY <3>1, CacheStays, AnswerKeeps
  <2> QED
    BY <2>1, <2>2, TickKeeps, PublishKeeps, WithdrawKeeps, VerifyKeeps, LookUpKeeps,
       ServeKeeps, FetchKeeps, StoreKeeps DEF KeysNext, Step
<1> QED
  BY <1>1, <1>2, PTL DEF KeysSpec

\* Who lets a request in or turns it away, and on what grounds.
LEMMA GroundsOfAnswers ==
    ASSUME KeysInv, [KeysNext]_keysVars, NEW h \in Handlers, NEW a \in {"ACCEPTED", "REJECTED"},
           Ends(h, a)
    PROVE  \/ /\ a = "ACCEPTED" /\ handler[h].step = "LOOKUP"
              /\ now < cacheExpiresAt /\ handler[h].token.kid \in cachedKeys
           \/ /\ handler[h].step = "FETCHED"
              /\ a = "ACCEPTED" <=> handler[h].token.kid \in handler[h].keys
           \/ a = "REJECTED" /\ handler[h].step \in Answered
<1>1. handler'[h].step = a /\ handler[h].step # a /\ handler \in [Handlers -> HandlerStates]
  BY DEF Ends, KeysInv, Typed
<1>2. ASSUME NEW b \in Answered, Answer(h, b)
      PROVE  a = b
  <2>1. handler'[h] = [Free EXCEPT !.step = b]
    BY <1>1, <1>2 DEF Answer
  <2> QED
    BY <1>1, <2>1, FreeIsIdle
<1>3. handler'[h] # handler[h]
  BY <1>1
<1>4. ~UNCHANGED keysVars /\ ~Tick
  BY <1>3 DEF keysVars, Tick
<1>5. ASSUME NEW k \in Kids, Publish(k) \/ Withdraw(k)
      PROVE  FALSE
  <2>1. handler'[h].step = handler[h].step
    BY <1>1, <1>5 DEF Publish, Withdraw, HandlerStates
  <2> QED
    BY <1>1, <2>1
<1>6. ASSUME NEW g \in Handlers, g # h
      PROVE  /\ ~Step(g)
             /\ \A t \in Tokens : ~Verify(g, t)
             /\ \A age \in Ages : ~Serve(g, age)
  <2>1. \A b \in Answered : ~Answer(g, b)
    BY <1>1, <1>3, <1>6 DEF Answer
  <2>2. ~LookUp(g)
    BY <1>1, <1>3, <1>6, <2>1 DEF LookUp, Answered
  <2>3. ~FetchFails(g)
    BY <2>1 DEF FetchFails, Answered
  <2>4. ~fetchKeys(g)
    BY <1>1, <1>3, <1>6 DEF fetchKeys
  <2>5. ~StoreKeys(g)
    BY <2>1 DEF StoreKeys, Answered
  <2>6. \A t \in Tokens : ~Verify(g, t)
    BY <1>1, <1>3, <1>6, <2>1 DEF Verify, Answered
  <2>7. \A age \in Ages : ~Serve(g, age)
    BY <1>1, <1>3, <1>6 DEF Serve
  <2> QED
    BY <2>2, <2>3, <2>4, <2>5, <2>6, <2>7 DEF Step
<1>7. CASE LookUp(h)
  <2>1. CASE now < cacheExpiresAt /\ handler[h].token.kid \in cachedKeys
    BY <1>2, <1>7, <2>1 DEF LookUp, Answered
  <2>2. CASE handler' = [handler EXCEPT ![h].step = "FETCHING", ![h].since = now]
    <3>1. handler'[h].step = "FETCHING"
      BY <1>1, <2>2 DEF HandlerStates
    <3> QED
      BY <1>1, <3>1
  <2> QED
    BY <1>7, <2>1, <2>2 DEF LookUp
<1>8. ~FetchFails(h)
  BY <1>2 DEF FetchFails, Answered
<1>9. ~fetchKeys(h)
  <2> SUFFICES ASSUME fetchKeys(h) PROVE FALSE
    OBVIOUS
  <2>1. handler'[h].step = "FETCHED"
    BY <1>1 DEF fetchKeys, HandlerStates
  <2> QED
    BY <1>1, <2>1
<1>10. CASE StoreKeys(h)
  BY <1>2, <1>10 DEF StoreKeys, Answered
<1>11. ASSUME NEW t \in Tokens, Verify(h, t)
       PROVE  a = "REJECTED" /\ handler[h].step \in Answered
  <2>1. handler[h].step \in Answered
    BY <1>11 DEF Verify
  <2>2. CASE ClaimsValid(t)
    <3>1. handler'[h] = [Free EXCEPT !.step = "LOOKUP", !.token = t,
                                !.steady = t.kid \in published]
      BY <1>1, <1>11, <2>2 DEF Verify
    <3>2. handler'[h].step = "LOOKUP"
      BY <3>1 DEF Free
    <3> QED
      BY <1>1, <3>2
  <2>3. CASE ~ClaimsValid(t)
    BY <1>2, <1>11, <2>1, <2>3 DEF Verify, Answered
  <2> QED
    BY <2>2, <2>3
<1>12. ASSUME NEW age \in Ages, Serve(h, age)
       PROVE  FALSE
  <2>1. handler'[h].step = "SERVED"
    BY <1>1, <1>12 DEF Serve, HandlerStates
  <2> QED
    BY <1>1, <2>1
<1> QED
  BY <1>4, <1>5, <1>6, <1>7, <1>8, <1>9, <1>10, <1>11, <1>12 DEF KeysNext, Step

\* verifyFirebaseIDToken and publicKey let in only tokens of this project, not
\* long after they expired, whose key the issuer publishes or withdrew at most
\* one time-out and one lifetime ago: however many handlers refill the cache
\* of keys, each for itself, in whatever order their answers arrive.
THEOREM OnlyRecentKeysOpen == KeysSpec => AcceptedIsRecent
<1> DEFINE Recent(h) ==
       LET token == handler[h].token IN
       /\ token.ours /\ now < token.exp + Timeout
       /\ \/ token.kid \in published
          \/ /\ token.kid \in DOMAIN withdrawn
             /\ now <= withdrawn[token.kid] + Timeout + Max({Lifetime(a) : a \in Ages})
<1>1. ASSUME KeysInv, [KeysNext]_keysVars, NEW h \in Handlers, Ends(h, "ACCEPTED")
      PROVE  Recent(h)
  <2>1. /\ HandlerInv(h) /\ handler[h] \in HandlerStates /\ now \in Nat
        /\ withdrawn \in [DOMAIN withdrawn -> Nat]
        /\ cacheExpiresAt \in Nat /\ cachedKeys \subseteq Kids /\ CacheIsRight
    BY <1>1 DEF KeysInv, Typed
  <2>2. Longest \in Nat /\ Timeout \in Nat
    BY LongestIsLongest, TimesAssumption
  <2>3. \/ /\ handler[h].step = "LOOKUP"
           /\ now < cacheExpiresAt /\ handler[h].token.kid \in cachedKeys
        \/ handler[h].step = "FETCHED" /\ handler[h].token.kid \in handler[h].keys
    BY <1>1, GroundsOfAnswers
  <2>4. handler[h].token \in Tokens /\ handler[h].token.ours /\ handler[h].token.exp \in Nat
    BY <2>1, <2>3, TimesAssumption DEF HandlerInv, Answered
  <2>5. now < handler[h].token.exp + Timeout
    BY <2>1, <2>2, <2>3, <2>4 DEF HandlerInv, OnTime
  <2>6. PICK keys \in SUBSET Kids, until \in Nat :
            GoodUntil(keys, until) /\ handler[h].token.kid \in keys /\ now <= until
    <3>1. CASE handler[h].step = "LOOKUP"
      <4>1. GoodUntil(cachedKeys, cacheExpiresAt) /\ now <= cacheExpiresAt
        BY <2>1, <2>3, <3>1 DEF CacheIsRight
      <4> QED
        BY <2>1, <2>3, <3>1, <4>1
    <3>2. CASE handler[h].step = "FETCHED"
      <4>1. /\ GoodUntil(handler[h].keys, handler[h].until)
            /\ now <= handler[h].until /\ handler[h].until \in Nat
        BY <2>1, <3>2 DEF HandlerInv, KeysAreRight, OnTime, HandlerStates
      <4>2. handler[h].keys \subseteq Kids
        BY <2>1 DEF HandlerStates
      <4> QED
        BY <2>3, <3>2, <4>1, <4>2
    <3> QED
      BY <2>3, <3>1, <3>2
  <2>7. \/ handler[h].token.kid \in published
        \/ /\ handler[h].token.kid \in DOMAIN withdrawn
           /\ now <= withdrawn[handler[h].token.kid] + Timeout + Longest
    BY <2>1, <2>2, <2>6 DEF GoodUntil
  <2> QED
    BY <2>4, <2>5, <2>7 DEF Longest
<1>2. KeysInv /\ [KeysNext]_keysVars => [\A h \in Handlers : Ends(h, "ACCEPTED") => Recent(h)]_keysVars
  BY <1>1
<1> QED
  BY <1>2, KeysInvHolds, PTL DEF KeysSpec, AcceptedIsRecent

\* publicKey and fetchKeys never turn a good token away because of what the
\* cache holds or another handler stored, if the issuer published its key all the while.
THEOREM PublishedKeysOpen == KeysSpec => PublishedIsAccepted
<1>1. ASSUME KeysInv, [KeysNext]_keysVars, NEW h \in Handlers, handler[h].step \notin Answered,
             Ends(h, "REJECTED")
      PROVE  ~handler[h].steady
  <2>1. HandlerInv(h)
    BY <1>1 DEF KeysInv
  <2>2. handler[h].step = "FETCHED" /\ handler[h].token.kid \notin handler[h].keys
    BY <1>1, GroundsOfAnswers
  <2> QED
    BY <1>1, <2>1, <2>2 DEF HandlerInv, SteadyIsServed
<1>2. KeysInv /\ [KeysNext]_keysVars =>
         [\A h \in Handlers :
            handler[h].step \notin Answered /\ Ends(h, "REJECTED") => ~handler[h].steady]_keysVars
  BY <1>1
<1> QED
  BY <1>2, KeysInvHolds, PTL DEF KeysSpec, PublishedIsAccepted
===============================================================================
