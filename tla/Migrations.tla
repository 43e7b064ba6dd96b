------------------------------ MODULE Migrations ------------------------------
(***************************************************************************)
(* RunMigrations (backend/internal/database), which the API and every      *)
(* worker run when they start, without a lock between them.                *)
(*                                                                         *)
(* MySQL commits with every DDL statement, so a file is not applied        *)
(* atomically.  A statement is about one thing: a table, a column, a key.  *)
(* Most are guarded: the file looks into information_schema for a thing it *)
(* would ADD or DROP, and then alters the table or does nothing.  Others   *)
(* look at nothing: CREATE TABLE IF NOT EXISTS, and MODIFY, which gives a  *)
(* column its definition whatever it was.                                  *)
(***************************************************************************)
EXTENDS Integers, Sequences, FiniteSets

CONSTANTS
    Things, Forms,
    Migration,   \* the files in order: the statements of each
    Processes,
    MaxCrashes   \* bound

Statements == [kind : {"CREATE", "ADD", "MODIFY", "DROP"}, thing : Things, form : Forms]

ASSUME MigrationAssumption == "ABSENT" \notin Forms /\ Migration \in Seq(Seq(Statements))

VARIABLES
    schema,    \* the form of each thing, or "ABSENT"
    recorded,  \* schema_migrations
    at,        \* where a process is: step, file, next statement, whether it found cause to act
    shared,    \* history: files that one process began while another was applying them
    crashes

migrationVars == <<schema, recorded, at, shared, crashes>>

AtFirst(step) == [step |-> step, file |-> 1, next |-> 1, acts |-> FALSE]
Starting == AtFirst("CHECK")
Exited == AtFirst("EXITED")
Running(p) == at[p].step = "RUNNING"
Applies(p, f) == at[p].step \in {"LOOK", "EXECUTE"} /\ at[p].file = f

MigrationsInit ==
    /\ schema = [t \in Things |-> "ABSENT"]
    /\ recorded = {} /\ shared = {} /\ crashes = 0
    /\ at = [p \in Processes |-> Starting]

Go(p, step) == at' = [at EXCEPT ![p].step = step]
Fatal(p) == at' = [at EXCEPT ![p] = Exited]

\* The next file that is not recorded; after the last one the process goes to work.
migrationApplied(p) ==
    /\ at[p].step = "CHECK"
    /\ LET f == at[p].file IN
       \/ f > Len(Migration) /\ Go(p, "RUNNING") /\ UNCHANGED shared
       \/ f \in recorded /\ at' = [at EXCEPT ![p].file = f + 1] /\ UNCHANGED shared
       \/ /\ f <= Len(Migration) /\ f \notin recorded
          /\ at' = [at EXCEPT ![p].step = "LOOK", ![p].next = 1]
          /\ shared' = shared \cup (IF \E q \in Processes : Applies(q, f) THEN {f} ELSE {})
    /\ UNCHANGED <<schema, recorded, crashes>>

Statement(p) == Migration[at[p].file][at[p].next]
Present(t) == schema[t] # "ABSENT"

\* Slip: the files are not guarded.
LookAtNothing(p) ==
    /\ at[p].step = "LOOK" /\ at[p].next <= Len(Migration[at[p].file])
    /\ at' = [at EXCEPT ![p].step = "EXECUTE", ![p].acts = TRUE]
    /\ UNCHANGED <<schema, recorded, shared, crashes>>

Look(p) ==
    /\ at[p].step = "LOOK" /\ at[p].next <= Len(Migration[at[p].file])
    /\ LET s == Statement(p) IN
       at' = [at EXCEPT ![p].step = "EXECUTE",
                        ![p].acts = \/ s.kind \in {"CREATE", "MODIFY"}
                                    \/ s.kind = "ADD" /\ ~Present(s.thing)
                                    \/ s.kind = "DROP" /\ Present(s.thing)]
    /\ UNCHANGED <<schema, recorded, shared, crashes>>

\* What has come to be there cannot be added, nor changed or dropped what is not.
Fails(p) ==
    LET s == Statement(p) IN
    /\ at[p].acts
    /\ \/ s.kind = "ADD" /\ Present(s.thing)
       \/ s.kind \in {"MODIFY", "DROP"} /\ ~Present(s.thing)

Effect(s) ==
    schema' = IF s.kind = "CREATE" /\ Present(s.thing) THEN schema
              ELSE [schema EXCEPT ![s.thing] = IF s.kind = "DROP" THEN "ABSENT" ELSE s.form]

\* Slip: after an error the file is recorded nevertheless.
ExecuteOrRecord(p) ==
    /\ at[p].step = "EXECUTE"
    /\ IF Fails(p)
       THEN /\ at' = [at EXCEPT ![p].step = "LOOK", ![p].next = Len(Migration[at[p].file]) + 1]
            /\ UNCHANGED schema
       ELSE /\ IF at[p].acts THEN Effect(Statement(p)) ELSE UNCHANGED schema
            /\ at' = [at EXCEPT ![p].step = "LOOK", ![p].next = @ + 1]
    /\ UNCHANGED <<recorded, shared, crashes>>

\* On an error the process exits (log.Fatalf).
Execute(p) ==
    /\ at[p].step = "EXECUTE"
    /\ IF Fails(p)
       THEN Fatal(p) /\ UNCHANGED schema
       ELSE /\ IF at[p].acts THEN Effect(Statement(p)) ELSE UNCHANGED schema
            /\ at' = [at EXCEPT ![p].step = "LOOK", ![p].next = @ + 1]
    /\ UNCHANGED <<recorded, shared, crashes>>

\* The version is the primary key: the second of two inserts fails.
Record(p) ==
    /\ at[p].step = "LOOK" /\ at[p].next > Len(Migration[at[p].file])
    /\ IF at[p].file \in recorded
       THEN Fatal(p) /\ UNCHANGED recorded
       ELSE /\ recorded' = recorded \cup {at[p].file}
            /\ at' = [at EXCEPT ![p].step = "CHECK", ![p].file = @ + 1]
    /\ UNCHANGED <<schema, shared, crashes>>

RunMigrations(p) == migrationApplied(p) \/ Look(p) \/ Execute(p) \/ Record(p)

\* At any point, whatever the process does.
Crash(p) ==
    /\ crashes < MaxCrashes /\ at[p].step # "EXITED"
    /\ crashes' = crashes + 1
    /\ Fatal(p) /\ UNCHANGED <<schema, recorded, shared>>

\* The platform starts a process again that has exited.
Restart(p) ==
    /\ at[p].step = "EXITED"
    /\ at' = [at EXCEPT ![p] = Starting]
    /\ UNCHANGED <<schema, recorded, shared, crashes>>

MigrationsNext == \E p \in Processes : RunMigrations(p) \/ Restart(p) \/ Crash(p)

MigrationsSpec == MigrationsInit /\ [][MigrationsNext]_migrationVars

-----------------------------------------------------------------------------
(* Properties *)

\* What a statement is there for.
InEffect(s) ==
    \/ s.kind \in {"CREATE", "ADD"} /\ Present(s.thing)
    \/ s.kind = "MODIFY" /\ schema[s.thing] = s.form
    \/ s.kind = "DROP" /\ ~Present(s.thing)

\* Statement t takes that away.
Undoes(t, s) ==
    /\ t.thing = s.thing
    /\ \/ t.kind = "DROP" /\ s.kind # "DROP"
       \/ t.kind = "MODIFY" /\ s.kind = "MODIFY" /\ t.form # s.form
       \/ t.kind \in {"CREATE", "ADD"} /\ s.kind = "DROP"

Before(g, j, f, k) == g < f \/ (g = f /\ j < k)

\* Only statements before statement k of file f, of files that only one process at a
\* time applied, could undo it.
Lasts(f, k) ==
    \A g \in DOMAIN Migration : \A j \in DOMAIN Migration[g] :
        Undoes(Migration[g][j], Migration[f][k]) => Before(g, j, f, k) /\ g \notin shared

\* Although several processes may apply files at once, and one may crash in the middle
\* of a file, a recorded file is in effect, but for statements that a later one undoes
\* or that undo what a file applied by two processes at once does: the slower of the
\* two may come after the file, and later ones, are recorded.
SchemaInOrder ==
    /\ \A f \in recorded : \A k \in DOMAIN Migration[f] : Lasts(f, k) => InEffect(Migration[f][k])
    /\ \A p \in Processes : \A f \in DOMAIN Migration :
           (Applies(p, f) \/ f \in recorded) => 1..f - 1 \subseteq recorded
    /\ \A p \in Processes : Running(p) => recorded = DOMAIN Migration

\* However starts collide and wherever a process crashed, in the end all run.
AllStartUp == <>[](\A p \in Processes : Running(p))
===============================================================================
