----------------------------- MODULE CatalogCache -----------------------------
(***************************************************************************)
(* The menu cache in Redis (backend/internal/catalog/service.go):          *)
(* ListCategories with its cached store context, versioned menu keys and   *)
(* rebuild lock, against edits in the database and InvalidateMenuCache.    *)
(*                                                                         *)
(* One step is one Redis command or one database read.  Any command may    *)
(* fail, one that writes with or without its effect.  Edits (of products,  *)
(* options, and the store's zone and brand, which decide the prices) are   *)
(* counted: a value that was read or cached is the number of edits that    *)
(* the database had seen when it was read.                                 *)
(***************************************************************************)
EXTENDS Naturals, FiniteSets

CONSTANTS
    Readers,          \* handlers, each of which serves one request at a time
    MaxAttempts,      \* how often a reader tries the lock (8 in the code)
    MaxEdits,         \* bound
    MaxRequests,      \* bound: requests in all
    MaxInvalidations, \* bound: increments of a version
    MaxFaults,        \* bound: commands and queries that fail, contexts and locks that expire
    None

ASSUME CatalogAssumption ==
    /\ MaxAttempts \in Nat \ {0}
    /\ {MaxEdits, MaxInvalidations, MaxFaults, MaxRequests} \subseteq Nat

\* How a request names the store, which is also how the key of the cached store
\* context does; and the name that versions and menus go by, the code first.
Paths == {"code", "id", "both"}
Names == {"code", "id"}
Name(p) == IF p = "id" THEN "id" ELSE "code"
By(n) == {p \in Paths : Name(p) = n}

VARIABLES
    db,          \* the edits there have been
    version,     \* catalog:menu:version:store:<name>
    context,     \* catalog:storectx:...:<path>
    menus,       \* catalog:menu:...:<name>...:v:<version>
    locks,       \* the keys for which lock:<menu key> is set
    pc, path, attempt,
    using,       \* the context and the version a reader goes by
    answer,      \* what it will answer, as far as it has read
    held,        \* the readers that got a lock and are to delete it
    invalidator, \* where InvalidateMenuCache is
    requests, faults,
    target,      \* history: the edits before the invalidation under way
    settled,     \* history: the edits before the last invalidation that did all it has to
    since,       \* history: settled when the request came
    misread,     \* history: the readers that could not read the version
    disturbed    \* history: the names for which an invalidation left an older context

readerVars == <<pc, path, requests, attempt, using, answer, held, since, misread>>
redis == <<version, context, menus, locks>>
invalidation == <<invalidator, target, settled, disturbed>>
\* What a request leaves alone once it has begun.
elsewhere == <<db, invalidation, path, requests, since>>
vars == <<db, redis, readerVars, invalidation, faults>>

Edits == 0..MaxEdits
Menu == [menu : Edits, context : Edits]
MenuKeys == Names \X (0..MaxInvalidations)
Building == {"recheck", "read", "store", "unlock"}

TypeOK ==
    /\ db \in Edits /\ target \in Edits /\ settled \in Edits
    /\ version \in [Names -> 0..MaxInvalidations]
    /\ context \in [Paths -> Edits \cup {None}]
    /\ menus \in [MenuKeys -> Menu \cup {None}]
    /\ locks \subseteq MenuKeys
    /\ pc \in [Readers -> {"idle", "context", "resolve", "setContext", "version", "menu",
                           "lock", "wait", "done"} \cup Building]
    /\ path \in [Readers -> Paths]
    /\ attempt \in [Readers -> 0..MaxAttempts]
    /\ using \in [Readers -> [context : Edits, version : 0..MaxInvalidations]]
    /\ answer \in [Readers -> Menu \cup {None}]
    /\ held \subseteq {r \in Readers : pc[r] \in Building}
    /\ since \in [Readers -> Edits] /\ disturbed \subseteq Names
    /\ invalidator \in {"idle", "delCode", "delId", "incrCode", "incrId", "delOnly", "incrOnly"}

Init ==
    /\ db = 0 /\ target = 0 /\ settled = 0
    /\ version = [n \in Names |-> 0]
    /\ context = [p \in Paths |-> None]
    /\ menus = [k \in MenuKeys |-> None]
    /\ locks = {} /\ held = {} /\ misread = {}
    /\ pc = [r \in Readers |-> "idle"]
    /\ path = [r \in Readers |-> "code"]
    /\ attempt = [r \in Readers |-> 0]
    /\ using = [r \in Readers |-> [context |-> 0, version |-> 0]]
    /\ answer = [r \in Readers |-> None]
    /\ since = [r \in Readers |-> 0]
    /\ invalidator = "idle" /\ disturbed = {}
    /\ requests = 0 /\ faults = 0

-----------------------------------------------------------------------------
(* A request *)

\* Slip: the version is not part of the menu's key.
UnversionedKey(r) == <<Name(path[r]), 0>>

Key(r) == <<Name(path[r]), using[r].version>>

Go(r, from, to) == pc[r] = from /\ pc' = [pc EXCEPT ![r] = to]

Fails == faults < MaxFaults /\ faults' = faults + 1

Underway(r) == pc[r] \notin {"idle", "done"}

Answer(r, menu) == answer' = [answer EXCEPT ![r] = menu]

\* A GET that finds a value, and one that finds none or fails.
Finds(value) == value # None /\ UNCHANGED faults

Misses(value) == \/ value = None /\ UNCHANGED faults
                 \/ Fails

\* The deferred unlock runs only if there is a lock to delete.
Return(r) == IF r \in held THEN "unlock" ELSE "done"

Begin(r, p) ==
    /\ Go(r, "idle", "context") \/ Go(r, "done", "context")
    /\ requests < MaxRequests /\ requests' = requests + 1
    /\ path' = [path EXCEPT ![r] = p]
    /\ attempt' = [attempt EXCEPT ![r] = 0]
    /\ answer' = [answer EXCEPT ![r] = None]
    /\ since' = [since EXCEPT ![r] = settled]
    /\ misread' = misread \ {r}
    /\ UNCHANGED <<db, redis, using, held, invalidation, faults>>

\* resolveStoreContextCached: the GET, the query if that found nothing or
\* failed, and a SET whose error nobody looks at.
GetContext(r) ==
    /\ \/ /\ Finds(context[path[r]]) /\ Go(r, "context", "version")
          /\ using' = [using EXCEPT ![r].context = context[path[r]]]
       \/ Misses(context[path[r]]) /\ Go(r, "context", "resolve") /\ UNCHANGED using
    /\ UNCHANGED <<elsewhere, redis, attempt, answer, held, misread>>

ResolveStoreContext(r) ==
    /\ \/ /\ Go(r, "resolve", "setContext")
          /\ using' = [using EXCEPT ![r].context = db]
          /\ UNCHANGED faults
       \/ Fails /\ Go(r, "resolve", "done") /\ UNCHANGED using
    /\ UNCHANGED <<elsewhere, redis, attempt, answer, held, misread>>

SetContext(r) ==
    /\ Go(r, "setContext", "version")
    /\ \/ context' = [context EXCEPT ![path[r]] = using[r].context] /\ UNCHANGED faults
       \/ Fails /\ UNCHANGED context
    /\ UNCHANGED <<elsewhere, version, menus, locks, attempt, using, answer, held, misread>>

\* getStoreCacheVersion: an error counts as version 0.
GetVersion(r) ==
    /\ Go(r, "version", "menu")
    /\ \/ using' = [using EXCEPT ![r].version = version[Name(path[r])]] /\ UNCHANGED <<faults, misread>>
       \/ Fails /\ using' = [using EXCEPT ![r].version = 0] /\ misread' = misread \cup {r}
    /\ UNCHANGED <<elsewhere, redis, attempt, answer, held>>

AfterWait(r) == IF attempt[r] < MaxAttempts THEN "lock" ELSE "read"

\* GET of the menu: before the lock, between two attempts at it, and under it.
GetMenu(r) ==
    /\ \/ /\ Finds(menus[Key(r)]) /\ Answer(r, menus[Key(r)])
          /\ \E from \in {"menu", "wait", "recheck"} : Go(r, from, Return(r))
       \/ /\ Misses(menus[Key(r)]) /\ UNCHANGED answer
          /\ \/ Go(r, "menu", "lock")
             \/ Go(r, "wait", AfterWait(r))
             \/ Go(r, "recheck", "read")
    /\ UNCHANGED <<elsewhere, redis, attempt, using, held, misread>>

\* Slip: a waiter waits until the lock is deleted.
TryLockOnly(r) ==
    /\ locks' = locks \cup {Key(r)}
    /\ \/ /\ Key(r) \notin locks /\ Go(r, "lock", "recheck")
          /\ held' = held \cup {r} /\ UNCHANGED faults
       \/ Fails /\ Go(r, "lock", "read") /\ UNCHANGED held
    /\ UNCHANGED <<elsewhere, version, context, menus, attempt, using, answer, misread>>

\* waitForMenuRebuildSlot: one SET NX.  A reader that gets an error builds the
\* menu without the lock, even if Redis has set it.
TryLock(r) ==
    /\ \/ /\ Key(r) \notin locks /\ locks' = locks \cup {Key(r)}
          /\ Go(r, "lock", "recheck") /\ held' = held \cup {r}
          /\ UNCHANGED <<attempt, faults>>
       \/ /\ Key(r) \in locks
          /\ Go(r, "lock", "wait") /\ attempt' = [attempt EXCEPT ![r] = @ + 1]
          /\ UNCHANGED <<locks, held, faults>>
       \/ /\ Fails /\ Go(r, "lock", "read")
          /\ locks' \in {locks, locks \cup {Key(r)}}
          /\ UNCHANGED <<attempt, held>>
    /\ UNCHANGED <<elsewhere, version, context, menus, using, answer, misread>>

\* Categories, products, option groups and options are read one after the other:
\* the menu is as old as the first of them.
ReadMenu(r) ==
    /\ \/ /\ Go(r, "read", "store") /\ UNCHANGED faults
          /\ Answer(r, [menu |-> db, context |-> using[r].context])
       \/ Fails /\ Go(r, "read", Return(r)) /\ UNCHANGED answer
    /\ UNCHANGED <<elsewhere, redis, attempt, using, held, misread>>

StoreMenu(r) ==
    /\ Go(r, "store", Return(r))
    /\ \/ menus' = [menus EXCEPT ![Key(r)] = answer[r]] /\ UNCHANGED faults
       \/ Fails /\ UNCHANGED menus
    /\ UNCHANGED <<elsewhere, version, context, locks, attempt, using, answer, held,
                   misread>>

\* DEL, whosever lock it is by now: the token is not compared.
Unlock(r) ==
    /\ Go(r, "unlock", "done")
    /\ held' = held \ {r}
    /\ \/ locks' = locks \ {Key(r)} /\ UNCHANGED faults
       \/ Fails /\ UNCHANGED locks
    /\ UNCHANGED <<elsewhere, version, context, menus, attempt, using, answer, misread>>

Read(r) ==
    \/ \E p \in Paths : Begin(r, p)
    \/ GetContext(r) \/ ResolveStoreContext(r) \/ SetContext(r) \/ GetVersion(r)
    \/ GetMenu(r) \/ TryLock(r) \/ ReadMenu(r) \/ StoreMenu(r) \/ Unlock(r)

-----------------------------------------------------------------------------
(* Edits, InvalidateMenuCache, and time *)

Edit ==
    /\ db < MaxEdits /\ db' = db + 1
    /\ UNCHANGED <<redis, readerVars, invalidation, faults>>

\* A store whose id cannot be looked up is invalidated under its code only.
InvalidateMenuCache ==
    /\ invalidator = "idle" /\ settled # db
    /\ version["code"] < MaxInvalidations
    /\ \/ invalidator' = "delCode" /\ UNCHANGED faults
       \/ Fails /\ invalidator' = "delOnly"
    /\ target' = db
    /\ UNCHANGED <<db, redis, readerVars, settled, disturbed>>

\* A request on one of these paths that goes by a context from before the
\* invalidation and has got no further than the given places.
Outdated(paths, places) ==
    \E r \in Readers : /\ path[r] \in paths /\ pc[r] \in places
                       /\ using[r].context < target

\* A context from before the invalidation under a key that it does not delete.
Overlooked(n) == \E p \in By(n) \ {n} : context[p] # None /\ context[p] < target

DisturbedIf(n, left) == disturbed' = IF left THEN disturbed \cup {n} ELSE disturbed

\* Slip: only the context under the store's code is deleted.
DelContextOfCode(n, from, to) ==
    /\ invalidator = from /\ invalidator' = to
    /\ context' = [context EXCEPT !["code"] = None]
    /\ DisturbedIf(n, Outdated({n}, {"setContext"}))
    /\ UNCHANGED <<db, version, menus, locks, readerVars, target, settled, faults>>

DelContext(n, from, to) ==
    /\ invalidator = from /\ invalidator' = to
    /\ \/ /\ context' = [context EXCEPT ![n] = None] /\ UNCHANGED faults
          /\ DisturbedIf(n, Outdated({n}, {"setContext"}))
       \/ Fails /\ UNCHANGED context /\ DisturbedIf(n, TRUE)
    /\ UNCHANGED <<db, version, menus, locks, readerVars, target, settled>>

\* An error ends the invalidation, whether or not Redis has counted.
IncrVersion(n, from, to) ==
    /\ invalidator = from
    /\ LET counted == [version EXCEPT ![n] = @ + 1] IN
       \/ /\ version' = counted /\ invalidator' = to
          /\ settled' = IF from = "incrId" THEN target ELSE settled
          /\ UNCHANGED faults
       \/ /\ Fails /\ version' \in {version, counted}
          /\ invalidator' = "idle" /\ UNCHANGED settled
    /\ DisturbedIf(n, Outdated(By(n), {"setContext", "version"}) \/ Overlooked(n))
    /\ UNCHANGED <<db, context, menus, locks, readerVars, target>>

ContextExpires(p) ==
    /\ context[p] # None /\ Fails
    /\ context' = [context EXCEPT ![p] = None]
    /\ UNCHANGED <<db, version, menus, locks, readerVars, invalidation>>

LockExpires(k) ==
    /\ Fails
    /\ locks' = locks \ {k}
    /\ UNCHANGED <<db, version, context, menus, readerVars, invalidation>>

Invalidating ==
    \/ DelContext("code", "delCode", "delId") \/ DelContext("id", "delId", "incrCode")
    \/ IncrVersion("code", "incrCode", "incrId") \/ IncrVersion("id", "incrId", "idle")
    \/ DelContext("code", "delOnly", "incrOnly") \/ IncrVersion("code", "incrOnly", "idle")

Next ==
    \/ \E r \in Readers : Read(r)
    \/ Edit \/ InvalidateMenuCache \/ Invalidating
    \/ \E p \in Paths : ContextExpires(p)
    \/ \E k \in locks : LockExpires(k)

Spec == Init /\ [][Next]_vars

-----------------------------------------------------------------------------
(* Properties *)

Answered(r) == pc[r] = "done" /\ answer[r] # None

\* A request that came after an invalidation of all its keys is answered with a
\* menu no older than that invalidation, whichever way the request names the
\* store and whoever built the menu; unless it could not read the version.
FreshMenu ==
    \A r \in Readers : Answered(r) /\ r \notin misread => answer[r].menu >= since[r]

\* So are the prices, which depend on the store's context, unless an invalidation
\* left an older context for the request's name of the store: in a request that had
\* not yet read the version, under a key whose DEL was lost, or under the key of
\* requests that name both the code and the id, which no invalidation deletes.
FreshContext ==
    \A r \in Readers :
        Answered(r) /\ r \notin misread /\ Name(path[r]) \notin disturbed =>
            answer[r].context >= since[r]

\* A request never waits for somebody else's lock to be deleted: with the bounded
\* attempts of TypeOK, every request is answered.
NoRequestStuck == TypeOK /\ \A r \in Readers : Underway(r) => ENABLED Read(r)
=============================================================================
