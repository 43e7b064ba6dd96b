------------------------------ MODULE OrderQueue ------------------------------
(***************************************************************************)
(* The workers (backend/cmd/worker) that take queued orders out of         *)
(* order_intents in batches (backend/internal/ordering), from their start, *)
(* which is Migrations' subject.  The API starts as they do; as a process  *)
(* that never polls it would add nothing here.                             *)
(*                                                                         *)
(* A claim selects rows, skipping those another transaction has locked,    *)
(* and commits with the rows in PROCESSING; an order is then completed, or *)
(* failed, by a statement of its own.  Nothing in the backend queues an    *)
(* order; payment reports move orders whatever the workers do.             *)
(***************************************************************************)
EXTENDS Migrations, SequencesExt

CONSTANTS
    Orders,     \* numbered in the order of (created_at, tracking_id)
    BatchSize,
    MaxFaults   \* bound: statements that end in an error

ASSUME QueueAssumption ==
    /\ Orders \subseteq Nat
    /\ BatchSize \in Nat \ {0}

VARIABLES
    status,    \* order_intents.status, "NONE" when there is no row
    selected,  \* the rows a worker's claim has read and locked
    batch,     \* the claimed intents a worker has not been through
    failing,   \* workers whose Complete of the first of them returned an error
    orphaned,  \* rows locked by transactions of crashed workers
    faults,
    lost       \* history: orders left in PROCESSING by a crash or an error

queueVars == <<status, selected, batch, failing, orphaned, faults, lost>>
vars == <<migrationVars, queueVars>>

Init ==
    /\ MigrationsInit
    /\ status = [o \in Orders |-> "NONE"]
    /\ selected = [w \in Processes |-> {}]
    /\ batch = [w \in Processes |-> <<>>]
    /\ failing = {} /\ orphaned = {} /\ faults = 0 /\ lost = {}

Fault == faults < MaxFaults /\ faults' = faults + 1
Working(w) == Running(w) /\ selected[w] = {} /\ batch[w] # <<>>
Locked == orphaned \cup UNION {selected[w] : w \in Processes}

-----------------------------------------------------------------------------
(* Elsewhere *)

\* By a process that runs.
Enqueue(o) ==
    /\ status[o] = "NONE" /\ recorded = DOMAIN Migration
    /\ status' = [status EXCEPT ![o] = "QUEUED"]
    /\ UNCHANGED <<migrationVars, selected, batch, failing, orphaned, faults, lost>>

\* payments' ApplyCallback overwrites the status, whatever it is, once no claim has
\* the row locked.  Workers tell PAYMENT_FAILED and PAYMENT_PENDING from nothing else
\* that is not queued: UNPAID is both.
PaymentReport(o) ==
    /\ status[o] # "NONE" /\ o \notin Locked
    /\ \E s \in {"READY_TO_COLLECT", "UNPAID"} :
           status' = [status EXCEPT ![o] = s]
    /\ UNCHANGED <<migrationVars, selected, batch, failing, orphaned, faults, lost>>

-----------------------------------------------------------------------------
(* ClaimQueued *)

First(n, orders) == {o \in orders : Cardinality({e \in orders : e < o}) < n}

\* Slip: SELECT without FOR UPDATE SKIP LOCKED.
SelectQueuedUnlocked(w) ==
    /\ Running(w) /\ selected[w] = {} /\ batch[w] = <<>>
    /\ LET queued == {o \in Orders : status[o] = "QUEUED"}
       IN  queued # {} /\ selected' = [selected EXCEPT ![w] = First(BatchSize, queued)]
    /\ UNCHANGED <<migrationVars, status, batch, failing, orphaned, faults, lost>>

SelectQueued(w) ==
    /\ Running(w) /\ selected[w] = {} /\ batch[w] = <<>>
    /\ LET queued == {o \in Orders \ Locked : status[o] = "QUEUED"}
       IN  queued # {} /\ selected' = [selected EXCEPT ![w] = First(BatchSize, queued)]
    /\ UNCHANGED <<migrationVars, status, batch, failing, orphaned, faults, lost>>

Promote(w) ==
    status' = [o \in Orders |-> IF o \in selected[w] /\ status[o] = "QUEUED"
                                THEN "PROCESSING" ELSE status[o]]

\* ORDER BY created_at, tracking_id.
InOrder(orders) ==
    {s \in SeqOf(orders, BatchSize) :
        /\ ToSet(s) = orders
        /\ \A i, j \in DOMAIN s : i < j => s[i] < s[j]}

CommitClaim(w) ==
    /\ selected[w] # {}
    /\ Promote(w)
    /\ \E intents \in InOrder(selected[w]) : batch' = [batch EXCEPT ![w] = intents]
    /\ selected' = [selected EXCEPT ![w] = {}]
    /\ UNCHANGED <<migrationVars, failing, orphaned, faults, lost>>

\* An error before or at the commit; at the commit, the answer alone may be lost.
ClaimFails(w) ==
    /\ selected[w] # {} /\ Fault
    /\ selected' = [selected EXCEPT ![w] = {}]
    /\ \/ UNCHANGED <<status, lost>>
       \/ Promote(w) /\ lost' = lost \cup selected[w]
    /\ UNCHANGED <<migrationVars, batch, failing, orphaned>>

-----------------------------------------------------------------------------
(* ProcessBatch *)

NextIntent(w) ==
    /\ batch' = [batch EXCEPT ![w] = Tail(@)]
    /\ failing' = failing \ {w}

MarkCompleted(o) ==
    status' = [status EXCEPT ![o] = IF @ \in {"PROCESSING", "COMPLETED"} THEN "COMPLETED" ELSE @]

Complete(w) ==
    /\ Working(w) /\ w \notin failing
    /\ MarkCompleted(Head(batch[w])) /\ NextIntent(w)
    /\ UNCHANGED <<migrationVars, selected, orphaned, faults, lost>>

\* With or without having had its effect.
CompleteFails(w) ==
    /\ Working(w) /\ w \notin failing /\ Fault
    /\ UNCHANGED status \/ MarkCompleted(Head(batch[w]))
    /\ failing' = failing \cup {w}
    /\ UNCHANGED <<migrationVars, selected, batch, orphaned, lost>>

\* Slip: Fail does not look at the status.
MarkFailedAnyhow(o) == status' = [status EXCEPT ![o] = "FAILED"]

MarkFailed(o) ==
    status' = [status EXCEPT ![o] = IF @ = "PROCESSING" THEN "FAILED" ELSE @]

\* Slip: the batch ends with the first intent that cannot be completed.
FailAndReturn(w) ==
    /\ Working(w) /\ w \in failing
    /\ MarkFailed(Head(batch[w]))
    /\ batch' = [batch EXCEPT ![w] = <<>>] /\ failing' = failing \ {w}
    /\ UNCHANGED <<migrationVars, selected, orphaned, faults, lost>>

Fail(w) ==
    /\ Working(w) /\ w \in failing
    /\ MarkFailed(Head(batch[w])) /\ NextIntent(w)
    /\ UNCHANGED <<migrationVars, selected, orphaned, faults, lost>>

\* The error is logged, and the next intent's turn comes.
FailFails(w) ==
    /\ Working(w) /\ w \in failing /\ Fault
    /\ LET o == Head(batch[w]) IN
       \/ UNCHANGED status /\ lost' = IF status[o] = "PROCESSING" THEN lost \cup {o} ELSE lost
       \/ MarkFailed(o) /\ UNCHANGED lost
    /\ NextIntent(w)
    /\ UNCHANGED <<migrationVars, selected, orphaned>>

-----------------------------------------------------------------------------
(* A crash takes the batch with it; a claim is rolled back, its rows unlocked, when *)
(* the database notices.                                                            *)

WorkerCrash(w) ==
    /\ Crash(w)
    /\ orphaned' = orphaned \cup selected[w]
    /\ lost' = lost \cup {o \in ToSet(batch[w]) : status[o] = "PROCESSING"}
    /\ selected' = [selected EXCEPT ![w] = {}]
    /\ batch' = [batch EXCEPT ![w] = <<>>] /\ failing' = failing \ {w}
    /\ UNCHANGED <<status, faults>>

ConnectionDropped ==
    /\ orphaned # {} /\ orphaned' = {}
    /\ UNCHANGED <<migrationVars, status, selected, batch, failing, faults, lost>>

-----------------------------------------------------------------------------
Poll(w) == SelectQueued(w) \/ CommitClaim(w) \/ Complete(w) \/ Fail(w)

Next ==
    \/ \E p \in Processes : (RunMigrations(p) \/ Restart(p)) /\ UNCHANGED queueVars
    \/ \E o \in Orders : Enqueue(o) \/ PaymentReport(o)
    \/ \E w \in Processes : Poll(w) \/ ClaimFails(w) \/ CompleteFails(w) \/ FailFails(w) \/ WorkerCrash(w)
    \/ ConnectionDropped

Spec == Init /\ [][Next]_vars

\* Processes run and are started again, workers poll with every tick of the
\* ticker, and the database drops dead connections in the end.
Fairness ==
    /\ \A p \in Processes : WF_vars((RunMigrations(p) \/ Restart(p)) /\ UNCHANGED queueVars)
    /\ \A w \in Processes : WF_vars(Poll(w))
    /\ WF_vars(ConnectionDropped)
FairSpec == Spec /\ Fairness

-----------------------------------------------------------------------------
(* Properties *)

\* Every order in PROCESSING is in the batch of one worker, and only one, which
\* will get to it, except where a crash or an error left it behind: nothing
\* takes up an order that is left in PROCESSING.
ProcessingIsHeld ==
    \A o \in Orders :
        LET holders == {w \in Processes : Running(w) /\ o \in ToSet(batch[w])}
        IN  /\ Cardinality(holders) <= 1
            /\ status[o] = "PROCESSING" /\ o \notin lost => holders # {}
            /\ o \in orphaned \cup UNION {selected[w] : w \in Processes} => status[o] = "QUEUED"

\* Nothing but a payment report revises what was decided of an order: a worker that
\* has it in its batch leaves what the report said, and does not fail what it completed,
\* although it may not have learned that it did.
OnlyReportsRevise ==
    [][\A o \in Orders :
          status[o] \notin {"NONE", "QUEUED", "PROCESSING"}
              => status'[o] = status[o] \/ PaymentReport(o)]_vars

\* A queued order is decided in the end, unless a crash or an error left it behind.
QueuedIsDecided ==
    \A o \in Orders :
        status[o] = "QUEUED" ~> o \in lost \/ status[o] \notin {"QUEUED", "PROCESSING"}
===============================================================================
