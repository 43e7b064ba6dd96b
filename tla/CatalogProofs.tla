---------------------------- MODULE CatalogProofs ----------------------------
(***************************************************************************)
(* The theorems about CatalogCache, for any number of handlers, requests,  *)
(* edits, invalidations and faults.                                        *)
(***************************************************************************)
EXTENDS CatalogCache, TLAPS

Typed ==
    /\ db \in Edits /\ target \in Edits /\ settled \in Edits
    /\ settled <= target /\ target <= db
    /\ version \in [Names -> 0..MaxInvalidations]
    /\ context \in [Paths -> Edits \cup {None}]
    /\ menus \in [MenuKeys -> Menu \cup {None}]
    /\ pc \in [Readers -> {"idle", "context", "resolve", "setContext", "version", "menu",
                           "lock", "wait", "done"} \cup Building]
    /\ path \in [Readers -> Paths]
    /\ using \in [Readers -> [context : Edits, version : 0..MaxInvalidations]]
    /\ answer \in [Readers -> Menu \cup {None}]
    /\ since \in [Readers -> Edits] /\ \A r \in Readers : since[r] <= settled
    /\ disturbed \subseteq Names

\* A request that goes by a version.
ByVersion(r) == pc[r] \in {"menu", "lock", "wait"} \cup Building
ByKey(r, k) == ByVersion(r) /\ Key(r) = k

\* The version of the code is ahead of the id's; what is to come is not in use.
Versions ==
    /\ version["id"] <= version["code"]
    /\ invalidator = "incrId" => version["id"] < version["code"]
    /\ invalidator \notin {"idle", "incrId"} => version["code"] < MaxInvalidations
    /\ \A n \in Names : version[n] = 0 => settled = 0
    /\ \A n \in Names, v \in 0..MaxInvalidations :
          version[n] < v => menus[<<n, v>>] = None
    /\ \A r \in Readers : ByVersion(r) =>
          /\ using[r].version <= version[Name(path[r])]
          /\ r \notin misread /\ using[r].version = 0 => since[r] = 0

\* A request has an answer only once it found or built a menu.
Answers ==
    \A r \in Readers :
        /\ pc[r] \in {"context", "resolve", "setContext", "version", "menu", "lock", "wait",
                      "recheck", "read"} => answer[r] = None
        /\ pc[r] = "store" => answer[r] \in Menu /\ answer[r].context = using[r].context

\* What is under key k, and what will be stored there, is no older than x.
MenuFloor(k, x) ==
    /\ menus[k] # None => menus[k].menu >= x
    /\ \A r \in Readers : pc[r] = "store" /\ Key(r) = k => answer[r].menu >= x

ContextFloor(k, x) ==
    /\ menus[k] # None => menus[k].context >= x
    /\ \A r \in Readers : ByKey(r, k) => using[r].context >= x

\* No request on these paths at one of these places goes by a context older than x.
HeldFrom(paths, places, x) ==
    \A r \in Readers : path[r] \in paths /\ pc[r] \in places => using[r].context >= x

CachedFrom(paths, x) == \A p \in paths : context[p] # None => context[p] >= x

CurrentKey(n) == <<n, version[n]>>

FreshMenus ==
    /\ \A n \in Names : MenuFloor(CurrentKey(n), settled)
    /\ invalidator = "incrId" => MenuFloor(CurrentKey("code"), target)
    /\ \A r \in Readers : ByVersion(r) /\ r \notin misread => MenuFloor(Key(r), since[r])
    /\ \A r \in Readers : pc[r] \in {"unlock", "done"} /\ answer[r] # None /\ r \notin misread =>
          answer[r].menu >= since[r]

\* The context under n was deleted by the invalidation under way.
ContextDeleted(n) ==
    \/ n = "code" /\ invalidator \in {"delId", "incrCode", "incrId"}
    \/ n = "id" /\ invalidator \in {"incrCode", "incrId"}

Unread == {"setContext", "version"}

FreshContexts(n) ==
    /\ CachedFrom(By(n), settled) /\ HeldFrom(By(n), Unread, settled)
    /\ ContextFloor(CurrentKey(n), settled)
    /\ ContextDeleted(n) => CachedFrom({n}, target) /\ HeldFrom({n}, {"setContext"}, target)
    /\ n = "code" /\ invalidator = "incrId" =>
          /\ CachedFrom(By(n), target) /\ HeldFrom(By(n), Unread, target)
          /\ ContextFloor(CurrentKey(n), target)
    /\ \A r \in Readers : path[r] \in By(n) /\ r \notin misread =>
          /\ ByVersion(r) => ContextFloor(Key(r), since[r])
          /\ pc[r] \in {"unlock", "done"} /\ answer[r] # None => answer[r].context >= since[r]

CatalogInv ==
    /\ Typed /\ Versions /\ Answers /\ FreshMenus
    /\ \A n \in Names \ disturbed : FreshContexts(n)

LEMMA Named ==
    /\ Names \subseteq Paths /\ \A p \in Paths : Name(p) \in Names
    /\ \A n \in Names : n \in By(n) /\ By(n) \subseteq Paths
    /\ By("id") = {"id"}
BY DEF Names, Paths, Name, By

-----------------------------------------------------------------------------
(* Types *)

LEMMA ReaderTyped ==
    ASSUME Typed, NEW r \in Readers, Read(r)
    PROVE  Typed'
<1> USE DEF Typed, Go, Return, Building
<1>1. UNCHANGED <<db, version, target, settled, disturbed>>
  BY DEF Read, Begin, GetContext, ResolveStoreContext, SetContext, GetVersion, GetMenu,
         TryLock, ReadMenu, StoreMenu, Unlock, elsewhere, invalidation, redis
<1>2. ASSUME NEW p \in Paths, Begin(r, p)
      PROVE  Typed'
  <2>1. /\ pc' = [pc EXCEPT ![r] = "context"] /\ path' = [path EXCEPT ![r] = p]
        /\ answer' = [answer EXCEPT ![r] = None] /\ since' = [since EXCEPT ![r] = settled]
        /\ UNCHANGED <<context, menus, using>>
    BY <1>2 DEF Begin, redis
  <2>2. /\ pc' \in [Readers -> {"idle", "context", "resolve", "setContext", "version", "menu",
                                "lock", "wait", "done"} \cup Building]
        /\ path' \in [Readers -> Paths] /\ answer' \in [Readers -> Menu \cup {None}]
    BY <2>1
  <2>3. since' \in [Readers -> Edits] /\ \A q \in Readers : since'[q] <= settled
    BY <2>1, CatalogAssumption DEF Edits
  <2> QED
    BY <1>1, <2>1, <2>2, <2>3
<1>3. CASE GetContext(r)
  <2>1. /\ UNCHANGED <<context, menus, path, answer, since>>
        /\ pc' = [pc EXCEPT ![r] = "version"] \/ pc' = [pc EXCEPT ![r] = "resolve"]
    BY <1>3 DEF GetContext, elsewhere, redis
  <2>2. using' = using \/ \E c \in Edits : using' = [using EXCEPT ![r].context = c]
    BY <1>3 DEF GetContext, Finds
  <2>3. using' \in [Readers -> [context : Edits, version : 0..MaxInvalidations]]
    BY <2>2
  <2> QED
    BY <1>1, <2>1, <2>3
<1>4. CASE ResolveStoreContext(r)
  BY <1>1, <1>4 DEF ResolveStoreContext, elsewhere, redis
<1>5. CASE SetContext(r)
  BY <1>1, <1>5 DEF SetContext, elsewhere
<1>6. CASE GetVersion(r)
  <2>1. version[Name(path[r])] \in 0..MaxInvalidations /\ 0 \in 0..MaxInvalidations
    BY Named, CatalogAssumption
  <2>2. using' \in [Readers -> [context : Edits, version : 0..MaxInvalidations]]
    BY <1>6, <2>1 DEF GetVersion
  <2> QED
    BY <1>1, <1>6, <2>2 DEF GetVersion, elsewhere, redis
<1>7. CASE GetMenu(r)
  BY <1>1, <1>7 DEF GetMenu, elsewhere, redis, Finds, Answer, AfterWait, Key, MenuKeys, Paths, Names, Name
<1>8. CASE TryLock(r)
  BY <1>1, <1>8 DEF TryLock, elsewhere
<1>9. CASE ReadMenu(r)
  <2>1. /\ UNCHANGED <<context, menus, path, using, since>>
        /\ \E to \in {"store", "unlock", "done"} : pc' = [pc EXCEPT ![r] = to]
    BY <1>9 DEF ReadMenu, elsewhere, redis
  <2>2. [menu |-> db, context |-> using[r].context] \in Menu
    BY DEF Menu
  <2>3. answer' \in [Readers -> Menu \cup {None}]
    BY <1>9, <2>2 DEF ReadMenu, Answer
  <2> QED
    BY <1>1, <2>1, <2>3
<1>10. CASE StoreMenu(r)
  BY <1>1, <1>10 DEF StoreMenu, elsewhere
<1>11. CASE Unlock(r)
  BY <1>1, <1>11 DEF Unlock, elsewhere
<1> QED
  BY <1>2, <1>3, <1>4, <1>5, <1>6, <1>7, <1>8, <1>9, <1>10, <1>11 DEF Read

\* The versions, and how far the invalidation has come, for TLC's bound.
LEMMA InvalidationTyped ==
    ASSUME Typed, Versions, Invalidating
    PROVE  Typed' /\ UNCHANGED <<db, pc, path, using, answer, since, misread, menus, target>>
<1> USE DEF Typed
<1>1. /\ UNCHANGED <<db, pc, path, using, answer, since, misread, menus, target>>
      /\ settled' \in {settled, target}
      /\ disturbed' \subseteq Names
  BY DEF Invalidating, DelContext, IncrVersion, readerVars, DisturbedIf, Names
<1>2. context' \in [Paths -> Edits \cup {None}]
  BY DEF Invalidating, DelContext, IncrVersion, Paths
<1>3. version' \in [Names -> 0..MaxInvalidations]
  <2>1. ASSUME NEW n \in Names, version[n] < MaxInvalidations
        PROVE  [version EXCEPT ![n] = @ + 1] \in [Names -> 0..MaxInvalidations]
    BY <2>1, CatalogAssumption
  <2>2. /\ version["id"] \in 0..MaxInvalidations /\ version["code"] \in 0..MaxInvalidations
        /\ "id" \in Names /\ "code" \in Names
    BY DEF Names
  <2>3. CASE UNCHANGED version
    BY <2>3
  <2>4. CASE /\ invalidator \in {"incrCode", "incrOnly"}
             /\ version' = [version EXCEPT !["code"] = @ + 1]
    BY <2>1, <2>2, <2>4 DEF Versions
  <2>5. CASE invalidator = "incrId" /\ version' = [version EXCEPT !["id"] = @ + 1]
    <3>1. version["id"] < MaxInvalidations
      BY <2>2, <2>5, CatalogAssumption DEF Versions
    <3> QED
      BY <2>1, <2>2, <2>5, <3>1
  <2> QED
    BY <2>3, <2>4, <2>5 DEF Invalidating, DelContext, IncrVersion
<1>4. settled' <= target' /\ \A r \in Readers : since'[r] <= settled'
  <2>1. settled \in Nat /\ target \in Nat /\ \A r \in Readers : since[r] \in Nat
    BY CatalogAssumption DEF Edits
  <2> QED
    BY <1>1, <2>1
<1> QED
  BY <1>1, <1>2, <1>3, <1>4

LEMMA TypedKept ==
    ASSUME Typed, Versions, [Next]_vars
    PROVE  Typed'
<1>1. CASE UNCHANGED vars
  BY <1>1 DEF Typed, vars, redis, readerVars, invalidation
<1>2. CASE Edit
  <2>1. /\ db' = db + 1 /\ db < MaxEdits
        /\ UNCHANGED <<version, context, menus, pc, path, using, answer, since, target,
                       settled, disturbed>>
    BY <1>2 DEF Edit, redis, readerVars, invalidation
  <2>2. db' \in Edits /\ target <= db'
    BY <2>1, CatalogAssumption DEF Typed, Edits
  <2> QED
    BY <2>1, <2>2 DEF Typed
<1>3. CASE InvalidateMenuCache
  <2>1. /\ target' = db
        /\ UNCHANGED <<db, version, context, menus, pc, path, using, answer, since,
                       settled, disturbed>>
    BY <1>3 DEF InvalidateMenuCache, redis, readerVars
  <2>2. settled <= db /\ db <= db
    BY CatalogAssumption DEF Typed, Edits
  <2> QED
    BY <2>1, <2>2 DEF Typed
<1>4. ASSUME NEW p \in Paths, ContextExpires(p)
      PROVE  Typed'
  BY <1>4 DEF Typed, ContextExpires, readerVars, invalidation
<1>5. ASSUME NEW k \in locks, LockExpires(k)
      PROVE  Typed'
  BY <1>5 DEF Typed, LockExpires, readerVars, invalidation
<1> QED
  BY <1>1, <1>2, <1>3, <1>4, <1>5, ReaderTyped, InvalidationTyped DEF Next

-----------------------------------------------------------------------------
(* The steps of a request *)

LEMMA OthersWait ==
    ASSUME Typed, NEW r \in Readers, Read(r)
    PROVE  /\ UNCHANGED <<db, version, invalidator, target, settled, disturbed>>
           /\ \A q \in Readers \ {r} :
                 /\ pc'[q] = pc[q] /\ path'[q] = path[q] /\ using'[q] = using[q]
                 /\ answer'[q] = answer[q] /\ since'[q] = since[q]
                 /\ q \in misread' <=> q \in misread
<1> USE DEF Typed, Go, Answer
<1>1. UNCHANGED <<db, version, invalidator, target, settled, disturbed>>
  BY DEF Read, Begin, GetContext, ResolveStoreContext, SetContext, GetVersion, GetMenu,
         TryLock, ReadMenu, StoreMenu, Unlock, elsewhere, invalidation, redis
<1> SUFFICES ASSUME NEW q \in Readers \ {r}
             PROVE  /\ pc'[q] = pc[q] /\ path'[q] = path[q] /\ using'[q] = using[q]
                    /\ answer'[q] = answer[q] /\ since'[q] = since[q]
                    /\ q \in misread' <=> q \in misread
  BY <1>1
<1>2. CASE \E p \in Paths : Begin(r, p)
  BY <1>2 DEF Begin
<1>3. CASE GetContext(r) \/ ResolveStoreContext(r) \/ SetContext(r)
  BY <1>3 DEF GetContext, ResolveStoreContext, SetContext, elsewhere
<1>4. CASE GetVersion(r)
  BY <1>4 DEF GetVersion, elsewhere
<1>5. CASE GetMenu(r) \/ TryLock(r)
  BY <1>5 DEF GetMenu, TryLock, elsewhere
<1>6. CASE ReadMenu(r) \/ StoreMenu(r) \/ Unlock(r)
  BY <1>6 DEF ReadMenu, StoreMenu, Unlock, elsewhere
<1> QED
  BY <1>2, <1>3, <1>4, <1>5, <1>6 DEF Read

\* A request that goes by a version has read it now, or goes on.
LEMMA VersionsAreRead ==
    ASSUME Typed, NEW r \in Readers, Read(r), ByVersion(r)'
    PROVE  /\ path'[r] = path[r] /\ since'[r] = since[r]
           /\ \/ /\ ByVersion(r) /\ using'[r] = using[r]
                 /\ r \in misread' <=> r \in misread
              \/ /\ pc[r] = "version" /\ pc'[r] = "menu"
                 /\ using'[r].context = using[r].context
                 /\ \/ /\ using'[r].version = version[Name(path[r])]
                       /\ r \in misread' <=> r \in misread
                    \/ using'[r].version = 0 /\ r \in misread'
<1> USE DEF Typed, Go, Answer, ByVersion, Building
<1>1. ~\E p \in Paths : Begin(r, p)
  BY DEF Begin
<1>2. ~GetContext(r) /\ ~ResolveStoreContext(r) /\ ~SetContext(r)
  BY DEF GetContext, ResolveStoreContext, SetContext
<1>3. CASE GetVersion(r)
  BY <1>3 DEF GetVersion, elsewhere
<1>4. CASE GetMenu(r)
  BY <1>4 DEF GetMenu, elsewhere
<1>5. CASE TryLock(r)
  BY <1>5 DEF TryLock, elsewhere
<1>6. CASE ReadMenu(r) \/ StoreMenu(r) \/ Unlock(r)
  BY <1>6 DEF ReadMenu, StoreMenu, Unlock, elsewhere
<1> QED
  BY <1>1, <1>2, <1>3, <1>4, <1>5, <1>6 DEF Read

\* Only what a request built is stored, under its key; and what it built shows
\* the database of that moment, at the prices of its context.
LEMMA MenusAreBuilt ==
    ASSUME Typed, NEW r \in Readers, Read(r)
    PROVE  /\ \/ UNCHANGED menus
              \/ pc[r] = "store" /\ menus' = [menus EXCEPT ![Key(r)] = answer[r]]
           /\ pc'[r] = "store" =>
                 /\ pc[r] = "read" /\ using'[r] = using[r] /\ path'[r] = path[r]
                 /\ answer'[r] = [menu |-> db, context |-> using[r].context]
<1> USE DEF Typed, Go, Answer, Building
<1>1. CASE \E p \in Paths : Begin(r, p)
  BY <1>1 DEF Begin, redis
<1>2. CASE GetContext(r) \/ ResolveStoreContext(r) \/ SetContext(r)
  BY <1>2 DEF GetContext, ResolveStoreContext, SetContext, redis
<1>3. CASE GetVersion(r)
  BY <1>3 DEF GetVersion, redis
<1>4. CASE GetMenu(r)
  BY <1>4 DEF GetMenu, redis, Return, AfterWait
<1>5. CASE TryLock(r)
  BY <1>5 DEF TryLock
<1>6. CASE ReadMenu(r)
  BY <1>6 DEF ReadMenu, elsewhere, redis, Return
<1>7. CASE StoreMenu(r)
  BY <1>7 DEF StoreMenu, Return
<1>8. CASE Unlock(r)
  BY <1>8 DEF Unlock
<1> QED
  BY <1>1, <1>2, <1>3, <1>4, <1>5, <1>6, <1>7, <1>8 DEF Read

\* Until then it has none.
LEMMA NoAnswerYet ==
    ASSUME Typed, Answers, NEW r \in Readers, Read(r),
           pc'[r] \in {"context", "resolve", "setContext", "version", "menu", "lock", "wait",
                       "recheck", "read"}
    PROVE  answer'[r] = None
<1> USE DEF Typed, Go, Answer, Building
<1>1. CASE \E p \in Paths : Begin(r, p)
  BY <1>1 DEF Begin
<1>2. CASE GetContext(r) \/ ResolveStoreContext(r) \/ SetContext(r)
  BY <1>2 DEF GetContext, ResolveStoreContext, SetContext, Answers
<1>3. CASE GetVersion(r)
  BY <1>3 DEF GetVersion, Answers
<1>4. CASE GetMenu(r)
  <2>1. answer' = answer /\ pc[r] \in {"menu", "wait", "recheck"}
    BY <1>4 DEF GetMenu, Return, AfterWait
  <2> QED
    BY <2>1 DEF Answers
<1>5. CASE TryLock(r)
  BY <1>5 DEF TryLock, Answers
<1>6. CASE ReadMenu(r) \/ StoreMenu(r) \/ Unlock(r)
  BY <1>6 DEF ReadMenu, StoreMenu, Unlock, Return
<1> QED
  BY <1>1, <1>2, <1>3, <1>4, <1>5, <1>6 DEF Read

\* Where an answer comes from.
LEMMA AnswersAreFound ==
    ASSUME Typed, Answers, NEW r \in Readers, Read(r), pc'[r] \in {"unlock", "done"},
           answer'[r] # None
    PROVE  /\ since'[r] = since[r] /\ path'[r] = path[r]
           /\ r \in misread' <=> r \in misread
           /\ \/ pc[r] \in {"store", "unlock"} /\ answer'[r] = answer[r]
              \/ ByVersion(r) /\ menus[Key(r)] # None /\ answer'[r] = menus[Key(r)]
<1> USE DEF Typed, Go, Answer, Building
<1>1. ~\E p \in Paths : Begin(r, p)
  BY DEF Begin
<1>2. ~GetContext(r) /\ ~SetContext(r) /\ ~GetVersion(r) /\ ~TryLock(r)
  BY DEF GetContext, SetContext, GetVersion, TryLock
<1>3. ~ResolveStoreContext(r)
  BY DEF ResolveStoreContext, Answers
<1>4. CASE GetMenu(r)
  <2>1. /\ since' = since /\ misread' = misread /\ path' = path
        /\ answer' = [answer EXCEPT ![r] = menus[Key(r)]] /\ menus[Key(r)] # None
        /\ pc[r] \in {"menu", "wait", "recheck"}
    BY <1>4 DEF GetMenu, Finds, elsewhere, AfterWait
  <2> QED
    BY <2>1 DEF ByVersion
<1>5. CASE ReadMenu(r)
  BY <1>5 DEF ReadMenu, Answers
<1>6. CASE StoreMenu(r) \/ Unlock(r)
  BY <1>6 DEF StoreMenu, Unlock, elsewhere
<1> QED
  BY <1>1, <1>2, <1>3, <1>4, <1>5, <1>6 DEF Read

\* Where the context that a request goes by, and the cached one, come from.
LEMMA ContextsAreRead ==
    ASSUME Typed, NEW r \in Readers, Read(r)
    PROVE  /\ \/ UNCHANGED context
              \/ /\ pc[r] = "setContext"
                 /\ context' = [context EXCEPT ![path[r]] = using[r].context]
           /\ pc'[r] \in {"setContext", "version"} =>
                 /\ path'[r] = path[r]
                 /\ \/ /\ pc'[r] = "version" /\ context[path[r]] # None
                       /\ using'[r].context = context[path[r]]
                    \/ using'[r].context = db
                    \/ /\ pc[r] = "setContext" /\ pc'[r] = "version"
                       /\ using'[r] = using[r]
<1> USE DEF Typed, Go, Answer, Building
<1>1. CASE \E p \in Paths : Begin(r, p)
  BY <1>1 DEF Begin, redis
<1>2. CASE GetContext(r)
  BY <1>2 DEF GetContext, Finds, redis, elsewhere
<1>3. CASE ResolveStoreContext(r) \/ SetContext(r)
  BY <1>3 DEF ResolveStoreContext, SetContext, redis, elsewhere
<1>4. CASE GetVersion(r)
  BY <1>4 DEF GetVersion, redis
<1>5. CASE GetMenu(r)
  BY <1>5 DEF GetMenu, redis, Return, AfterWait
<1>6. CASE TryLock(r)
  BY <1>6 DEF TryLock
<1>7. CASE ReadMenu(r) \/ StoreMenu(r) \/ Unlock(r)
  BY <1>7 DEF ReadMenu, StoreMenu, Unlock, redis, Return
<1> QED
  BY <1>1, <1>2, <1>3, <1>4, <1>5, <1>6, <1>7 DEF Read

-----------------------------------------------------------------------------
(* Versions and answers *)

\* What else there is leaves the requests and the menus alone.
LEMMA NoRequest ==
    ASSUME Typed, Versions, [Next]_vars, \A r \in Readers : ~Read(r)
    PROVE  UNCHANGED <<pc, path, using, answer, since, misread, menus>>
<1>1. CASE UNCHANGED vars
  BY <1>1 DEF vars, redis, readerVars
<1>2. CASE Edit \/ InvalidateMenuCache
  BY <1>2 DEF Edit, InvalidateMenuCache, redis, readerVars
<1>3. CASE Invalidating
  BY <1>3, InvalidationTyped
<1>4. CASE \E p \in Paths : ContextExpires(p)
  BY <1>4 DEF ContextExpires, readerVars
<1>5. CASE \E k \in locks : LockExpires(k)
  BY <1>5 DEF LockExpires, readerVars
<1> QED
  BY <1>1, <1>2, <1>3, <1>4, <1>5 DEF Next

LEMMA NoInvalidation ==
    ASSUME [Next]_vars, ~Invalidating
    PROVE  /\ UNCHANGED <<version, settled, disturbed>>
           /\ \/ UNCHANGED <<invalidator, target>>
              \/ /\ invalidator = "idle" /\ version["code"] < MaxInvalidations
                 /\ invalidator' \in {"delCode", "delOnly"} /\ UNCHANGED <<db, context>>
                 /\ \A r \in Readers : ~Read(r)
           /\ (\A r \in Readers : ~Read(r)) =>
                 context' = context \/ \E p \in Paths : context' = [context EXCEPT ![p] = None]
<1>1. ASSUME NEW r \in Readers, Read(r)
      PROVE  UNCHANGED <<version, settled, disturbed, invalidator, target>>
  BY <1>1 DEF Read, Begin, GetContext, ResolveStoreContext, SetContext, GetVersion,
              GetMenu, TryLock, ReadMenu, StoreMenu, Unlock, elsewhere, invalidation, redis
<1>2. CASE UNCHANGED vars
  BY <1>2 DEF vars, redis, invalidation
<1>3. CASE Edit
  BY <1>3 DEF Edit, redis, invalidation
<1>4. CASE InvalidateMenuCache /\ \A r \in Readers : ~Read(r)
  BY <1>4 DEF InvalidateMenuCache, redis
<1>5. CASE \E p \in Paths : ContextExpires(p)
  BY <1>5 DEF ContextExpires, invalidation
<1>6. CASE \E k \in locks : LockExpires(k)
  BY <1>6 DEF LockExpires, invalidation
<1>7. ASSUME InvalidateMenuCache, NEW r \in Readers, Read(r)
      PROVE  FALSE
  BY <1>1, <1>7 DEF InvalidateMenuCache
<1> QED
  BY <1>1, <1>2, <1>3, <1>4, <1>5, <1>6, <1>7 DEF Next

LEMMA VersionsCount ==
    ASSUME Typed, Versions, Invalidating
    PROVE  /\ \/ UNCHANGED version
              \/ /\ invalidator \in {"incrCode", "incrOnly"} /\ UNCHANGED settled
                 /\ version' = [version EXCEPT !["code"] = @ + 1]
              \/ /\ invalidator = "incrId" /\ invalidator' = "idle"
                 /\ version' = [version EXCEPT !["id"] = @ + 1]
           /\ \/ UNCHANGED settled
              \/ /\ invalidator = "incrId" /\ settled' = target
                 /\ version' = [version EXCEPT !["id"] = @ + 1]
           /\ invalidator' = "incrId" =>
                 /\ invalidator = "incrCode"
                 /\ version' = [version EXCEPT !["code"] = @ + 1]
           /\ invalidator' \notin {"idle", "incrId"} =>
                 invalidator \notin {"idle", "incrId"} /\ UNCHANGED version
<1>1. ASSUME NEW n \in Names, NEW from, NEW to, DelContext(n, from, to)
      PROVE  UNCHANGED <<version, settled>> /\ invalidator = from /\ invalidator' = to
  BY <1>1 DEF DelContext
<1>2. CASE IncrVersion("code", "incrCode", "incrId")
  BY <1>2 DEF IncrVersion
<1>3. CASE IncrVersion("id", "incrId", "idle")
  BY <1>3 DEF IncrVersion
<1>4. CASE IncrVersion("code", "incrOnly", "idle")
  BY <1>4 DEF IncrVersion
<1>5. "code" \in Names /\ "id" \in Names
  BY DEF Names
<1>6. CASE DelContext("code", "delCode", "delId")
  BY <1>1, <1>5, <1>6
<1>7. CASE DelContext("id", "delId", "incrCode")
  BY <1>1, <1>5, <1>7
<1>8. CASE DelContext("code", "delOnly", "incrOnly")
  BY <1>1, <1>5, <1>8
<1> QED
  BY <1>2, <1>3, <1>4, <1>6, <1>7, <1>8 DEF Invalidating

LEMMA VersionsKept ==
    ASSUME Typed, Versions, [Next]_vars
    PROVE  Versions'
<1> USE DEF Typed
<1>0. /\ "code" \in Names /\ "id" \in Names /\ \A n \in Names : version[n] \in Nat
      /\ \A r \in Readers : Name(path[r]) \in Names
      /\ MaxInvalidations \in Nat
      /\ settled \in Nat /\ \A r \in Readers : since[r] \in Nat /\ using[r].version \in Nat
  BY CatalogAssumption, Named DEF Names, Edits
<1>1. CASE Invalidating
  <2>1. UNCHANGED <<pc, path, using, since, misread, menus>> /\ Typed'
    BY <1>1, InvalidationTyped
  <2>2. /\ \A n \in Names : version'[n] \in Nat /\ version[n] <= version'[n]
        /\ \A n \in Names : version'[n] = 0 => version[n] = 0
    BY <1>0, <1>1, VersionsCount
  <2>3. /\ version'["id"] <= version'["code"]
        /\ invalidator' = "incrId" => version'["id"] < version'["code"]
        /\ invalidator' \notin {"idle", "incrId"} => version'["code"] < MaxInvalidations
    <3>1. version["id"] \in Nat /\ version["code"] \in Nat /\ version["id"] <= version["code"]
      BY <1>0 DEF Versions
    <3>2. CASE UNCHANGED version
      <4>1. invalidator' # "incrId"
        BY <1>0, <1>1, <3>1, <3>2, VersionsCount
      <4> QED
        BY <1>1, <3>1, <3>2, <4>1, VersionsCount DEF Versions
    <3>3. CASE /\ invalidator \in {"incrCode", "incrOnly"}
               /\ version' = [version EXCEPT !["code"] = @ + 1]
      <4>1. version'["id"] = version["id"] /\ version'["code"] = version["code"] + 1
        BY <1>0, <3>3
      <4>2. invalidator' \in {"idle", "incrId"}
        BY <1>0, <1>1, <3>1, <4>1, VersionsCount
      <4> QED
        BY <3>1, <4>1, <4>2
    <3>4. CASE /\ invalidator = "incrId" /\ invalidator' = "idle"
               /\ version' = [version EXCEPT !["id"] = @ + 1]
      <4>1. version'["code"] = version["code"] /\ version'["id"] = version["id"] + 1
        BY <1>0, <3>4
      <4> QED
        BY <3>1, <3>4, <4>1 DEF Versions
    <3> QED
      BY <1>1, <3>2, <3>3, <3>4, VersionsCount
  <2>4. ASSUME NEW n \in Names, version'[n] = 0
        PROVE  settled' = 0
    <3>1. CASE UNCHANGED settled
      BY <2>2, <2>4, <3>1 DEF Versions
    <3>2. CASE invalidator = "incrId" /\ version' = [version EXCEPT !["id"] = @ + 1]
      <4>1. version'["id"] > 0 /\ version'["code"] > 0
        BY <1>0, <3>2 DEF Versions
      <4> QED
        BY <2>4, <4>1 DEF Names
    <3> QED
      BY <1>1, <3>1, <3>2, VersionsCount
  <2>5. \A n \in Names, v \in 0..MaxInvalidations : version'[n] < v => menus'[<<n, v>>] = None
    BY <1>0, <2>1, <2>2 DEF Versions
  <2>6. ASSUME NEW r \in Readers, ByVersion(r)'
        PROVE  /\ using'[r].version <= version'[Name(path'[r])]
               /\ r \notin misread' /\ using'[r].version = 0 => since'[r] = 0
    <3>1. ByVersion(r)
      BY <2>1, <2>6 DEF ByVersion
    <3> QED
      BY <1>0, <2>1, <2>2, <3>1 DEF Versions
  <2> QED
    BY <2>3, <2>4, <2>5, <2>6 DEF Versions
<1>2. ASSUME NEW r \in Readers, Read(r)
      PROVE  Versions'
  <2>1. UNCHANGED <<version, invalidator, settled>>
    BY <1>2, OthersWait
  <2>2. ASSUME NEW n \in Names, NEW v \in 0..MaxInvalidations, version[n] < v
        PROVE  menus'[<<n, v>>] = None
    <3>1. menus[<<n, v>>] = None
      BY <2>2 DEF Versions
    <3>2. CASE pc[r] = "store" /\ menus' = [menus EXCEPT ![Key(r)] = answer[r]]
      <4>1. using[r].version <= version[Name(path[r])]
        BY <3>2 DEF Versions, ByVersion, Building
      <4>2. Key(r) # <<n, v>>
        BY <1>0, <2>2, <4>1 DEF Key
      <4>3. <<n, v>> \in MenuKeys
        BY DEF MenuKeys
      <4> QED
        BY <3>1, <3>2, <4>2, <4>3
    <3> QED
      BY <1>2, <3>1, <3>2, MenusAreBuilt
  <2>3. ASSUME NEW q \in Readers, ByVersion(q)'
        PROVE  /\ using'[q].version <= version[Name(path'[q])]
               /\ q \notin misread' /\ using'[q].version = 0 => since'[q] = 0
    <3>1. CASE q # r
      <4>1. ByVersion(q)
        BY <1>2, <2>3, <3>1, OthersWait DEF ByVersion
      <4> QED
        BY <1>2, <3>1, <4>1, OthersWait DEF Versions
    <3>2. CASE q = r /\ ByVersion(r) /\ using'[r] = using[r]
      BY <1>2, <2>3, <3>2, VersionsAreRead DEF Versions
    <3>3. CASE q = r /\ pc[r] = "version"
      <4>1. /\ path'[r] = path[r] /\ since'[r] = since[r]
            /\ \/ using'[r].version = version[Name(path[r])]
               \/ using'[r].version = 0 /\ r \in misread'
        <5>1. ~ByVersion(r)
          BY <3>3 DEF ByVersion, Building
        <5> QED
          BY <1>2, <2>3, <3>3, <5>1, VersionsAreRead
      <4>2. version[Name(path[r])] \in Nat /\ (version[Name(path[r])] = 0 => settled = 0)
        BY <1>0 DEF Versions
      <4>3. since[r] <= settled
        OBVIOUS
      <4> QED
        BY <1>0, <3>3, <4>1, <4>2, <4>3
    <3> QED
      BY <1>2, <2>3, <3>1, <3>2, <3>3, VersionsAreRead
  <2> QED
    BY <2>1, <2>2, <2>3 DEF Versions
<1>3. CASE ~Invalidating /\ \A r \in Readers : ~Read(r)
  <2>1. UNCHANGED <<pc, path, using, since, misread, menus, version, settled>>
    BY <1>3, NoRequest, NoInvalidation
  <2>2. \/ UNCHANGED invalidator
        \/ version["code"] < MaxInvalidations /\ invalidator' \in {"delCode", "delOnly"}
    BY <1>3, NoInvalidation
  <2> QED
    BY <2>1, <2>2 DEF Versions, ByVersion
<1> QED
  BY <1>1, <1>2, <1>3

LEMMA AnswersKept ==
    ASSUME Typed, Versions, Answers, [Next]_vars
    PROVE  Answers'
<1>1. CASE \A r \in Readers : ~Read(r)
  BY <1>1, NoRequest DEF Answers
<1>2. ASSUME NEW r \in Readers, Read(r)
      PROVE  Answers'
  <2>1. ASSUME pc'[r] = "store"
        PROVE  answer'[r] \in Menu /\ answer'[r].context = using'[r].context
    <3>1. using'[r] = using[r] /\ answer'[r] = [menu |-> db, context |-> using[r].context]
      BY <1>2, <2>1, MenusAreBuilt
    <3>2. db \in Edits /\ using[r].context \in Edits
      BY DEF Typed
    <3> QED
      BY <3>1, <3>2 DEF Menu
  <2>2. ASSUME NEW q \in Readers, q # r
        PROVE  pc'[q] = pc[q] /\ using'[q] = using[q] /\ answer'[q] = answer[q]
    BY <1>2, <2>2, OthersWait
  <2> QED
    BY <1>2, <2>1, <2>2, NoAnswerYet DEF Answers
<1> QED
  BY <1>1, <1>2

-----------------------------------------------------------------------------
(* Menus *)

\* A floor that the database has reached is never undercut.
LEMMA MenuFloorStays ==
    ASSUME Typed, Versions, Answers, [Next]_vars, NEW k \in MenuKeys, NEW x \in Edits, x <= db,
           MenuFloor(k, x)
    PROVE  MenuFloor(k, x)'
<1>1. CASE \A r \in Readers : ~Read(r)
  <2>1. UNCHANGED <<pc, path, using, answer, menus>>
    BY <1>1, NoRequest
  <2> QED
    BY <2>1 DEF MenuFloor, Key
<1>2. ASSUME NEW r \in Readers, Read(r)
      PROVE  MenuFloor(k, x)'
  <2>1. menus'[k] # None => menus'[k].menu >= x
    <3>1. CASE UNCHANGED menus
      BY <3>1 DEF MenuFloor
    <3>2. CASE pc[r] = "store" /\ menus' = [menus EXCEPT ![Key(r)] = answer[r]]
      BY <3>2 DEF MenuFloor, Typed
    <3> QED
      BY <1>2, <3>1, <3>2, MenusAreBuilt
  <2>2. ASSUME NEW q \in Readers, pc'[q] = "store", Key(q)' = k
        PROVE  answer'[q].menu >= x
    <3>1. CASE q = r
      <4>1. answer'[r] = [menu |-> db, context |-> using[r].context]
        BY <1>2, <2>2, <3>1, MenusAreBuilt
      <4>2. db \in Nat /\ x \in Nat /\ x <= db
        BY CatalogAssumption DEF Typed, Edits
      <4> QED
        BY <3>1, <4>1, <4>2
    <3>2. CASE q # r
      <4>1. pc'[q] = pc[q] /\ Key(q)' = Key(q) /\ answer'[q] = answer[q]
        BY <1>2, <3>2, OthersWait DEF Key
      <4> QED
        BY <2>2, <4>1 DEF MenuFloor
    <3> QED
      BY <3>1, <3>2
  <2> QED
    BY <2>1, <2>2 DEF MenuFloor
<1> QED
  BY <1>1, <1>2

LEMMA LowerMenuFloor ==
    ASSUME Typed, Answers, NEW k \in MenuKeys, NEW x \in Edits, NEW y \in Edits, y <= x,
           MenuFloor(k, x)
    PROVE  MenuFloor(k, y)
<1>1. ASSUME menus[k] # None
      PROVE  menus[k].menu >= y
  <2>1. menus[k].menu \in Nat /\ menus[k].menu >= x
    BY <1>1, CatalogAssumption DEF Typed, Menu, Edits, MenuFloor
  <2> QED
    BY <2>1, CatalogAssumption DEF Edits
<1>2. ASSUME NEW r \in Readers, pc[r] = "store", Key(r) = k
      PROVE  answer[r].menu >= y
  <2>1. answer[r].menu \in Nat /\ answer[r].menu >= x
    BY <1>2, CatalogAssumption DEF Answers, Menu, Edits, MenuFloor
  <2> QED
    BY <2>1, CatalogAssumption DEF Edits
<1> QED
  BY <1>1, <1>2 DEF MenuFloor

\* A version that is not in use yet has every floor.
LEMMA NewVersion ==
    ASSUME Typed, Versions, NEW n \in Names, NEW x,
           Typed', Versions', version'[n] = version[n] + 1,
           UNCHANGED <<pc, path, using, answer, menus>>
    PROVE  MenuFloor(CurrentKey(n), x)' /\ ContextFloor(CurrentKey(n), x)'
<1>1. version[n] \in Nat /\ version'[n] \in 0..MaxInvalidations
  BY DEF Typed
<1>2. menus'[<<n, version'[n]>>] = None
  BY <1>1 DEF Versions
<1>3. ASSUME NEW r \in Readers, ByVersion(r)', Key(r)' = CurrentKey(n)'
      PROVE  FALSE
  <2>1. /\ ByVersion(r) /\ Name(path[r]) = n /\ using[r].version = version[n] + 1
        /\ using[r].version <= version[Name(path[r])]
    BY <1>3 DEF ByVersion, Key, CurrentKey, Versions
  <2> QED
    BY <1>1, <2>1
<1>4. \A r \in Readers : pc'[r] = "store" => ByVersion(r)'
  BY DEF ByVersion, Building
<1> QED
  BY <1>2, <1>3, <1>4 DEF MenuFloor, ContextFloor, CurrentKey, ByKey

LEMMA FreshMenusKept ==
    ASSUME Typed, Versions, Answers, FreshMenus, [Next]_vars, Typed', Versions', Answers'
    PROVE  FreshMenus'
<1>0. /\ "code" \in Names /\ "id" \in Names
      /\ \A n \in Names : CurrentKey(n) \in MenuKeys /\ CurrentKey(n)' \in MenuKeys
      /\ \A r \in Readers : Key(r) \in MenuKeys /\ Key(r)' \in MenuKeys
      /\ settled <= db /\ target <= db /\ \A r \in Readers : since[r] <= db
  BY CatalogAssumption, Named DEF Typed, Names, CurrentKey, Key, MenuKeys, Edits
<1>1. ASSUME NEW n \in Names
      PROVE  MenuFloor(CurrentKey(n), settled)'
  <2>1. CASE version'[n] = version[n] /\ settled' = settled
    <3>1. MenuFloor(CurrentKey(n), settled) /\ CurrentKey(n)' = CurrentKey(n)
      BY <2>1 DEF FreshMenus, CurrentKey
    <3>2. settled \in Edits
      BY DEF Typed
    <3> QED
      BY <1>0, <2>1, <3>1, <3>2, MenuFloorStays DEF MenuFloor
  <2>2. CASE Invalidating /\ version'[n] = version[n] + 1
    BY <2>2, InvalidationTyped, NewVersion DEF MenuFloor
  <2>3. CASE Invalidating /\ n = "code" /\ invalidator = "incrId" /\ settled' = target
             /\ version'[n] = version[n]
    <3>1. MenuFloor(CurrentKey(n), target) /\ CurrentKey(n)' = CurrentKey(n)
      BY <2>3 DEF FreshMenus, CurrentKey
    <3>2. target \in Edits
      BY DEF Typed
    <3> QED
      BY <1>0, <2>3, <3>1, <3>2, MenuFloorStays DEF MenuFloor
  <2> QED
    <3>1. CASE Invalidating
      BY <1>0, <2>1, <2>2, <2>3, <3>1, VersionsCount DEF Typed, Names
    <3>2. CASE ~Invalidating
      BY <2>1, <3>2, NoInvalidation
    <3> QED
      BY <3>1, <3>2
<1>2. ASSUME invalidator' = "incrId"
      PROVE  MenuFloor(CurrentKey("code"), target)'
  <2>1. CASE Invalidating
    <3>1. version'["code"] = version["code"] + 1
      BY <1>0, <1>2, <2>1, VersionsCount DEF Typed
    <3> QED
      BY <1>0, <2>1, <3>1, InvalidationTyped, NewVersion DEF MenuFloor
  <2>2. CASE ~Invalidating
    <3>1. UNCHANGED <<version, target, invalidator>>
      BY <1>2, <2>2, NoInvalidation
    <3>2. MenuFloor(CurrentKey("code"), target) /\ CurrentKey("code")' = CurrentKey("code")
      BY <1>2, <3>1 DEF FreshMenus, CurrentKey
    <3>3. target \in Edits
      BY DEF Typed
    <3> QED
      BY <1>0, <3>1, <3>2, <3>3, MenuFloorStays DEF MenuFloor
  <2> QED
    BY <2>1, <2>2
<1>3. ASSUME NEW r \in Readers, ByVersion(r)', r \notin misread'
      PROVE  MenuFloor(Key(r), since[r])'
  <2>1. CASE /\ ByVersion(r) /\ r \notin misread /\ using'[r] = using[r]
             /\ path'[r] = path[r] /\ since'[r] = since[r]
    <3>1. MenuFloor(Key(r), since[r]) /\ Key(r)' = Key(r)
      BY <2>1 DEF FreshMenus, Key
    <3>2. since[r] \in Edits
      BY DEF Typed
    <3> QED
      BY <1>0, <2>1, <3>1, <3>2, MenuFloorStays DEF MenuFloor
  <2>2. CASE /\ Read(r) /\ path'[r] = path[r] /\ since'[r] = since[r]
             /\ using'[r].version = version[Name(path[r])]
    <3>1. UNCHANGED <<version, settled>>
      BY <2>2, OthersWait
    <3>2. Name(path[r]) \in Names /\ Key(r)' = CurrentKey(Name(path[r]))'
      BY <2>2, <3>1, Named DEF Key, CurrentKey, Typed
    <3>3. since[r] \in Edits /\ settled \in Edits /\ since[r] <= settled
      BY DEF Typed
    <3>4. MenuFloor(CurrentKey(Name(path[r])), since[r])
      BY <1>0, <3>2, <3>3, LowerMenuFloor DEF FreshMenus
    <3>5. CurrentKey(Name(path[r]))' = CurrentKey(Name(path[r])) /\ since[r] <= db
      BY <1>0, <2>2, <3>1 DEF CurrentKey
    <3> QED
      BY <1>0, <2>2, <3>2, <3>3, <3>4, <3>5, MenuFloorStays DEF MenuFloor
  <2>3. CASE Read(r)
    BY <1>3, <2>1, <2>2, <2>3, VersionsAreRead
  <2>4. CASE \E q \in Readers \ {r} : Read(q)
    <3>1. /\ pc'[r] = pc[r] /\ r \notin misread /\ using'[r] = using[r]
          /\ path'[r] = path[r] /\ since'[r] = since[r]
      BY <1>3, <2>4, OthersWait
    <3> QED
      BY <1>3, <2>1, <3>1 DEF ByVersion
  <2>5. CASE \A q \in Readers : ~Read(q)
    <3>1. UNCHANGED <<pc, misread, using, path, since>>
      BY <2>5, NoRequest
    <3> QED
      BY <1>3, <2>1, <3>1 DEF ByVersion
  <2> QED
    BY <2>3, <2>4, <2>5
<1>4. ASSUME NEW r \in Readers, pc'[r] \in {"unlock", "done"}, answer'[r] # None,
             r \notin misread'
      PROVE  answer'[r].menu >= since'[r]
  <2>1. CASE Read(r)
    <3>1. since'[r] = since[r] /\ r \notin misread
      BY <1>4, <2>1, AnswersAreFound
    <3>2. CASE pc[r] \in {"store", "unlock"} /\ answer'[r] = answer[r]
      <4>1. CASE pc[r] = "unlock"
        BY <1>4, <3>1, <3>2, <4>1 DEF FreshMenus
      <4>2. CASE pc[r] = "store"
        <5>1. MenuFloor(Key(r), since[r])
          BY <3>1, <4>2 DEF FreshMenus, ByVersion, Building
        <5> QED
          BY <3>1, <3>2, <4>2, <5>1 DEF MenuFloor
      <4> QED
        BY <3>2, <4>1, <4>2
    <3>3. CASE ByVersion(r) /\ menus[Key(r)] # None /\ answer'[r] = menus[Key(r)]
      <4>1. MenuFloor(Key(r), since[r])
        BY <3>1, <3>3 DEF FreshMenus
      <4> QED
        BY <3>1, <3>3, <4>1 DEF MenuFloor
    <3> QED
      BY <1>4, <2>1, <3>2, <3>3, AnswersAreFound
  <2>2. CASE \E q \in Readers \ {r} : Read(q)
    <3>1. /\ pc'[r] = pc[r] /\ r \notin misread /\ answer'[r] = answer[r]
          /\ since'[r] = since[r]
      BY <1>4, <2>2, OthersWait
    <3> QED
      BY <1>4, <3>1 DEF FreshMenus
  <2>3. CASE \A q \in Readers : ~Read(q)
    <3>1. UNCHANGED <<pc, misread, answer, since>>
      BY <2>3, NoRequest
    <3> QED
      BY <1>4, <3>1 DEF FreshMenus
  <2> QED
    BY <2>1, <2>2, <2>3
<1> QED
  BY <1>1, <1>2, <1>3, <1>4 DEF FreshMenus

-----------------------------------------------------------------------------
(* Contexts *)

\* What an invalidation does that nothing older gets past, unless it is noted.
LEMMA ContextsAreDeleted ==
    ASSUME Typed, Invalidating, NEW n \in Names, n \notin disturbed'
    PROVE  /\ n \notin disturbed
           /\ UNCHANGED context \/ \E p \in Paths : context' = [context EXCEPT ![p] = None]
           /\ ContextDeleted(n)' =>
                 \/ ContextDeleted(n)
                 \/ context'[n] = None /\ HeldFrom({n}, {"setContext"}, target)
           /\ invalidator' = "incrId" => UNCHANGED context /\ invalidator = "incrCode"
           /\ invalidator' = "incrId" /\ n = "code" =>
                 HeldFrom(By(n), Unread, target) /\ CachedFrom(By(n) \ {n}, target)
           /\ \/ settled' = settled
              \/ settled' = target /\ UNCHANGED context /\ invalidator = "incrId"
           /\ settled' # settled /\ n = "id" => HeldFrom(By(n), Unread, target)
<1>0. /\ target \in Nat /\ \A r \in Readers : using[r].context \in Nat
      /\ \A p \in Paths : context[p] # None => context[p] \in Nat
      /\ "code" \in Names /\ "id" \in Names /\ "code" \in Paths /\ "id" \in Paths
  BY CatalogAssumption DEF Typed, Edits, Names, Paths
<1>1. ASSUME NEW ps, NEW places, ~Outdated(ps, places)
      PROVE  HeldFrom(ps, places, target)
  BY <1>0, <1>1 DEF Outdated, HeldFrom
<1>2. ASSUME NEW m \in Names, NEW from, NEW to, DelContext(m, from, to)
      PROVE  /\ n \notin disturbed /\ UNCHANGED settled
             /\ invalidator = from /\ invalidator' = to
             /\ UNCHANGED context \/ context' = [context EXCEPT ![m] = None]
             /\ m = n => context'[n] = None /\ HeldFrom({n}, {"setContext"}, target)
  <2>1. n \in Paths /\ m \in Paths
    BY Named
  <2> QED
    BY <1>1, <1>2, <2>1 DEF DelContext, DisturbedIf, Typed
<1>3. ASSUME NEW m \in Names, NEW from, NEW to, IncrVersion(m, from, to)
      PROVE  /\ n \notin disturbed /\ UNCHANGED context /\ invalidator = from
             /\ invalidator' \in {to, "idle"}
             /\ m = n => HeldFrom(By(n), Unread, target) /\ CachedFrom(By(n) \ {n}, target)
             /\ settled' = settled \/ (settled' = target /\ from = "incrId")
  <2>1. n \notin disturbed /\ (m = n => ~Outdated(By(n), Unread) /\ ~Overlooked(n))
    BY <1>3 DEF IncrVersion, DisturbedIf, Unread
  <2>2. ASSUME ~Overlooked(n)
        PROVE  CachedFrom(By(n) \ {n}, target)
    BY <1>0, <2>2, Named DEF Overlooked, CachedFrom
  <2>3. /\ UNCHANGED context /\ invalidator = from /\ invalidator' \in {to, "idle"}
        /\ settled' = settled \/ (settled' = target /\ from = "incrId")
    BY <1>3 DEF IncrVersion
  <2> QED
    BY <1>1, <2>1, <2>2, <2>3
<1>4. CASE DelContext("code", "delCode", "delId")
  BY <1>0, <1>2, <1>4 DEF ContextDeleted, Names
<1>5. CASE DelContext("id", "delId", "incrCode")
  BY <1>0, <1>2, <1>5 DEF ContextDeleted, Names
<1>6. CASE DelContext("code", "delOnly", "incrOnly")
  BY <1>0, <1>2, <1>6 DEF ContextDeleted
<1>7. CASE IncrVersion("code", "incrCode", "incrId")
  BY <1>0, <1>3, <1>7 DEF ContextDeleted
<1>8. CASE IncrVersion("id", "incrId", "idle")
  BY <1>0, <1>3, <1>8 DEF ContextDeleted
<1>9. CASE IncrVersion("code", "incrOnly", "idle")
  BY <1>0, <1>3, <1>9 DEF ContextDeleted
<1> QED
  BY <1>4, <1>5, <1>6, <1>7, <1>8, <1>9 DEF Invalidating

\* The cached context comes from requests that are about to cache theirs.
LEMMA CachedFromStays ==
    ASSUME Typed, [Next]_vars, NEW n \in Names, n \notin disturbed', NEW x \in Edits,
           NEW paths, paths \subseteq Paths,
           CachedFrom(paths, x), HeldFrom(paths, {"setContext"}, x)
    PROVE  CachedFrom(paths, x)'
<1>1. ASSUME NEW r \in Readers, Read(r)
      PROVE  CachedFrom(paths, x)'
  <2>1. CASE UNCHANGED context
    BY <2>1 DEF CachedFrom
  <2>2. CASE pc[r] = "setContext" /\ context' = [context EXCEPT ![path[r]] = using[r].context]
    BY <2>2 DEF CachedFrom, HeldFrom, Typed
  <2> QED
    BY <1>1, <2>1, <2>2, ContextsAreRead
<1>2. CASE UNCHANGED context \/ \E q \in Paths : context' = [context EXCEPT ![q] = None]
  BY <1>2 DEF CachedFrom, Typed
<1>3. CASE Invalidating
  BY <1>2, <1>3, ContextsAreDeleted
<1> QED
  BY <1>1, <1>2, <1>3, NoInvalidation

\* A request takes its context from the cache or from the database.
LEMMA HeldFromStays ==
    ASSUME Typed, Versions, [Next]_vars, NEW x \in Edits, x <= db,
           NEW paths, NEW places \in {{"setContext"}, Unread},
           "version" \in places => CachedFrom(paths, x), HeldFrom(paths, places, x)
    PROVE  HeldFrom(paths, places, x)'
<1> SUFFICES ASSUME NEW q \in Readers, path'[q] \in paths, pc'[q] \in places
             PROVE  using'[q].context >= x
  BY DEF HeldFrom
<1>0. db \in Nat /\ x \in Nat /\ places \subseteq Unread
  BY CatalogAssumption DEF Typed, Edits, Unread
<1>1. CASE UNCHANGED <<pc, path, using>>
  BY <1>1 DEF HeldFrom
<1>2. CASE Read(q)
  <2>0. pc'[q] \in {"setContext", "version"}
    BY <1>0 DEF Unread
  <2>1. path'[q] = path[q]
    BY <1>2, <2>0, ContextsAreRead
  <2>2. CASE pc'[q] = "version" /\ context[path[q]] # None /\ using'[q].context = context[path[q]]
    BY <2>1, <2>2 DEF CachedFrom
  <2>3. CASE using'[q].context = db
    BY <1>0, <2>3
  <2>4. CASE pc[q] = "setContext" /\ using'[q] = using[q]
    BY <2>1, <2>4 DEF HeldFrom, Unread
  <2> QED
    BY <1>2, <2>0, <2>2, <2>3, <2>4, ContextsAreRead
<1>3. CASE \E r \in Readers \ {q} : Read(r)
  <2>1. pc'[q] = pc[q] /\ path'[q] = path[q] /\ using'[q] = using[q]
    BY <1>3, OthersWait
  <2> QED
    BY <2>1 DEF HeldFrom
<1> QED
  BY <1>1, <1>2, <1>3, NoRequest

\* Who joins a version brings the context with which it came to read it.
LEMMA ContextFloorStays ==
    ASSUME Typed, Versions, Answers, [Next]_vars, NEW n \in Names,
           NEW v \in 0..MaxInvalidations, NEW x \in Edits,
           HeldFrom(By(n), Unread, x), ContextFloor(<<n, v>>, x)
    PROVE  ContextFloor(<<n, v>>, x)'
<1>0. <<n, v>> \in MenuKeys
  BY DEF MenuKeys
<1>1. CASE \A r \in Readers : ~Read(r)
  <2>1. UNCHANGED <<pc, path, using, answer, menus>>
    BY <1>1, NoRequest
  <2> QED
    BY <2>1 DEF ContextFloor, ByKey, ByVersion, Key
<1>2. ASSUME NEW r \in Readers, Read(r)
      PROVE  ContextFloor(<<n, v>>, x)'
  <2>1. menus'[<<n, v>>] # None => menus'[<<n, v>>].context >= x
    <3>1. CASE UNCHANGED menus
      BY <3>1 DEF ContextFloor
    <3>2. CASE pc[r] = "store" /\ menus' = [menus EXCEPT ![Key(r)] = answer[r]]
      <4>1. CASE Key(r) = <<n, v>>
        <5>1. answer[r].context = using[r].context /\ ByKey(r, <<n, v>>)
          BY <3>2, <4>1 DEF Answers, ByKey, ByVersion, Building
        <5>2. menus'[<<n, v>>] = answer[r]
          BY <1>0, <3>2, <4>1 DEF Typed
        <5> QED
          BY <5>1, <5>2 DEF ContextFloor
      <4>2. CASE Key(r) # <<n, v>>
        BY <1>0, <3>2, <4>2 DEF ContextFloor, Typed
      <4> QED
        BY <4>1, <4>2
    <3> QED
      BY <1>2, <3>1, <3>2, MenusAreBuilt
  <2>2. ASSUME NEW q \in Readers, ByKey(q, <<n, v>>)'
        PROVE  using'[q].context >= x
    <3>1. CASE q = r
      <4>1. ByVersion(r)' /\ Key(r)' = <<n, v>>
        BY <2>2, <3>1 DEF ByKey
      <4>2. path'[r] = path[r] /\ path'[r] \in By(n)
        BY <1>2, <4>1, VersionsAreRead DEF Key, By, Typed
      <4>3. CASE ByVersion(r) /\ using'[r] = using[r]
        <5>1. ByKey(r, <<n, v>>)
          BY <4>1, <4>2, <4>3 DEF ByKey, Key
        <5> QED
          BY <3>1, <4>3, <5>1 DEF ContextFloor
      <4>4. CASE pc[r] = "version" /\ using'[r].context = using[r].context
        BY <3>1, <4>2, <4>4 DEF HeldFrom, Unread
      <4> QED
        BY <1>2, <4>1, <4>3, <4>4, VersionsAreRead
    <3>2. CASE q # r
      <4>1. ByKey(q, <<n, v>>) /\ using'[q] = using[q]
        BY <1>2, <2>2, <3>2, OthersWait DEF ByKey, ByVersion, Key
      <4> QED
        BY <4>1 DEF ContextFloor
    <3> QED
      BY <3>1, <3>2
  <2> QED
    BY <2>1, <2>2 DEF ContextFloor
<1> QED
  BY <1>1, <1>2

LEMMA LowerContextFloor ==
    ASSUME Typed, NEW k \in MenuKeys, NEW x \in Edits, NEW y \in Edits, y <= x,
           ContextFloor(k, x)
    PROVE  ContextFloor(k, y)
<1>1. ASSUME menus[k] # None
      PROVE  menus[k].context >= y
  <2>1. menus[k].context \in Nat /\ menus[k].context >= x
    BY <1>1, CatalogAssumption DEF Typed, Menu, Edits, ContextFloor
  <2> QED
    BY <2>1, CatalogAssumption DEF Edits
<1>2. ASSUME NEW r \in Readers, ByKey(r, k)
      PROVE  using[r].context >= y
  <2>1. using[r].context \in Nat /\ using[r].context >= x
    BY <1>2, CatalogAssumption DEF Typed, Edits, ContextFloor
  <2> QED
    BY <2>1, CatalogAssumption DEF Edits
<1> QED
  BY <1>1, <1>2 DEF ContextFloor

LEMMA LowerHeldFrom ==
    ASSUME Typed, NEW paths, NEW places, NEW x \in Edits, NEW y \in Edits, y <= x,
           HeldFrom(paths, places, x)
    PROVE  HeldFrom(paths, places, y)
<1> SUFFICES ASSUME NEW r \in Readers, path[r] \in paths, pc[r] \in places
             PROVE  using[r].context >= y
  BY DEF HeldFrom
<1>1. using[r].context \in Nat /\ using[r].context >= x
  BY CatalogAssumption DEF Typed, Edits, HeldFrom
<1> QED
  BY <1>1, CatalogAssumption DEF Edits

LEMMA FreshContextsKept ==
    ASSUME Typed, Versions, Answers, NEW n \in Names, FreshContexts(n), [Next]_vars,
           n \notin disturbed', Typed', Versions'
    PROVE  FreshContexts(n)'
<1>0. /\ "code" \in Names /\ "id" \in Names /\ n \in {"code", "id"}
      /\ n \in Paths /\ n \in By(n) /\ {n} \subseteq Paths /\ By(n) \subseteq Paths
      /\ version[n] \in 0..MaxInvalidations /\ version[n] \in Nat
      /\ settled \in Edits /\ target \in Edits /\ \A r \in Readers : since[r] \in Edits
      /\ settled <= db /\ target <= db
      /\ CurrentKey(n) \in MenuKeys
  BY CatalogAssumption, Named DEF Typed, Names, Edits, CurrentKey, MenuKeys
<1>1. CachedFrom(By(n), settled)' /\ HeldFrom(By(n), Unread, settled)'
  <2>1. CASE settled' = settled
    <3>1. /\ CachedFrom(By(n), settled) /\ HeldFrom(By(n), Unread, settled)
          /\ HeldFrom(By(n), {"setContext"}, settled)
      BY DEF FreshContexts, HeldFrom, Unread
    <3>2. CachedFrom(By(n), settled)'
      BY <1>0, <2>1, <3>1, CachedFromStays DEF CachedFrom
    <3>3. HeldFrom(By(n), Unread, settled)'
      BY <1>0, <2>1, <3>1, HeldFromStays DEF HeldFrom
    <3> QED
      BY <3>2, <3>3
  <2>2. CASE Invalidating /\ settled' # settled
    <3>1. /\ invalidator = "incrId" /\ settled' = target /\ UNCHANGED context
          /\ n = "id" => HeldFrom(By(n), Unread, target)
      BY <2>2, ContextsAreDeleted
    <3>2. CachedFrom(By(n), target) /\ HeldFrom(By(n), Unread, target)
      BY <1>0, <3>1, Named DEF FreshContexts, ContextDeleted
    <3>3. UNCHANGED <<pc, path, using>>
      BY <2>2, InvalidationTyped
    <3> QED
      BY <3>1, <3>2, <3>3 DEF CachedFrom, HeldFrom
  <2> QED
    BY <2>1, <2>2, NoInvalidation
<1>2. ContextFloor(CurrentKey(n), settled)'
  <2>1. CASE version'[n] = version[n] /\ settled' = settled
    <3>1. /\ ContextFloor(<<n, version[n]>>, settled) /\ CurrentKey(n)' = <<n, version[n]>>
          /\ HeldFrom(By(n), Unread, settled)
      BY <2>1 DEF FreshContexts, CurrentKey
    <3>2. ContextFloor(<<n, version[n]>>, settled)'
      BY <1>0, <2>1, <3>1, ContextFloorStays DEF ContextFloor, ByKey
    <3> QED
      BY <2>1, <3>1, <3>2 DEF ContextFloor, ByKey
  <2>2. CASE Invalidating /\ version'[n] = version[n] + 1
    BY <2>2, InvalidationTyped, NewVersion DEF ContextFloor
  <2>3. CASE Invalidating /\ n = "code" /\ invalidator = "incrId" /\ settled' = target
             /\ version'[n] = version[n]
    <3>1. /\ ContextFloor(<<n, version[n]>>, target) /\ CurrentKey(n)' = <<n, version[n]>>
          /\ HeldFrom(By(n), Unread, target)
      BY <2>3 DEF FreshContexts, CurrentKey
    <3>2. UNCHANGED target
      BY <2>3, InvalidationTyped
    <3>3. ContextFloor(<<n, version[n]>>, target)'
      BY <1>0, <2>3, <3>1, <3>2, ContextFloorStays DEF ContextFloor, ByKey
    <3> QED
      BY <2>3, <3>1, <3>2, <3>3 DEF ContextFloor, ByKey
  <2> QED
    <3>1. CASE Invalidating
      BY <1>0, <2>1, <2>2, <2>3, <3>1, VersionsCount DEF Typed
    <3>2. CASE ~Invalidating
      BY <2>1, <3>2, NoInvalidation
    <3> QED
      BY <3>1, <3>2
<1>3. ASSUME ContextDeleted(n)'
      PROVE  CachedFrom({n}, target)' /\ HeldFrom({n}, {"setContext"}, target)'
  <2>1. CASE ContextDeleted(n) /\ UNCHANGED target
    <3>1. CachedFrom({n}, target) /\ HeldFrom({n}, {"setContext"}, target)
      BY <2>1 DEF FreshContexts
    <3>2. CachedFrom({n}, target)'
      BY <1>0, <2>1, <3>1, CachedFromStays DEF CachedFrom
    <3>3. HeldFrom({n}, {"setContext"}, target)'
      BY <1>0, <2>1, <3>1, HeldFromStays DEF HeldFrom
    <3> QED
      BY <3>2, <3>3
  <2>2. CASE /\ Invalidating /\ context'[n] = None /\ HeldFrom({n}, {"setContext"}, target)
    <3>1. UNCHANGED <<pc, path, using, target>>
      BY <2>2, InvalidationTyped
    <3> QED
      BY <2>2, <3>1 DEF CachedFrom, HeldFrom
  <2> QED
    <3>1. CASE Invalidating
      BY <1>3, <2>1, <2>2, <3>1, ContextsAreDeleted, InvalidationTyped
    <3>2. CASE ~Invalidating
      <4>1. UNCHANGED <<invalidator, target>>
        BY <1>3, <3>2, NoInvalidation DEF ContextDeleted
      <4> QED
        BY <1>3, <2>1, <4>1 DEF ContextDeleted
    <3> QED
      BY <3>1, <3>2
<1>4. ASSUME n = "code", invalidator' = "incrId"
      PROVE  /\ CachedFrom(By(n), target)' /\ HeldFrom(By(n), Unread, target)'
             /\ ContextFloor(CurrentKey(n), target)'
  <2>1. CASE Invalidating
    <3>1. UNCHANGED <<pc, path, using, target>>
      BY <2>1, InvalidationTyped
    <3>2. /\ HeldFrom(By(n), Unread, target) /\ CachedFrom(By(n) \ {n}, target)
          /\ UNCHANGED context /\ invalidator = "incrCode"
      BY <1>4, <2>1, ContextsAreDeleted
    <3>3. CachedFrom({n}, target)
      BY <1>4, <3>2 DEF FreshContexts, ContextDeleted
    <3>4. version'["code"] = version["code"] + 1
      BY <1>0, <1>4, <2>1, VersionsCount DEF Typed
    <3>5. ContextFloor(CurrentKey(n), target)'
      BY <1>0, <1>4, <2>1, <3>4, InvalidationTyped, NewVersion DEF ContextFloor
    <3> QED
      BY <3>1, <3>2, <3>3, <3>5 DEF HeldFrom, CachedFrom
  <2>2. CASE ~Invalidating
    <3>1. UNCHANGED <<version, target, invalidator>>
      BY <1>4, <2>2, NoInvalidation
    <3>2. /\ HeldFrom(By(n), Unread, target) /\ ContextFloor(<<n, version[n]>>, target)
          /\ CachedFrom(By(n), target) /\ CurrentKey(n)' = <<n, version[n]>>
          /\ HeldFrom(By(n), {"setContext"}, target)
      BY <1>0, <1>4, <3>1 DEF FreshContexts, CurrentKey, HeldFrom, Unread
    <3>3. HeldFrom(By(n), Unread, target)'
      BY <1>0, <3>1, <3>2, HeldFromStays DEF HeldFrom
    <3>4. ContextFloor(<<n, version[n]>>, target)'
      BY <1>0, <3>1, <3>2, ContextFloorStays DEF ContextFloor, ByKey
    <3>5. CachedFrom(By(n), target)'
      BY <1>0, <3>1, <3>2, CachedFromStays DEF CachedFrom
    <3> QED
      BY <3>1, <3>2, <3>3, <3>4, <3>5 DEF ContextFloor, ByKey
  <2> QED
    BY <2>1, <2>2
<1>5. ASSUME NEW r \in Readers, path'[r] \in By(n), ByVersion(r)', r \notin misread'
      PROVE  ContextFloor(Key(r), since[r])'
  <2>1. ASSUME NEW v \in 0..MaxInvalidations, NEW x \in Edits, x <= settled,
               ContextFloor(<<n, v>>, x), Key(r)' = <<n, v>>, since'[r] = x
        PROVE  ContextFloor(Key(r), since[r])'
    <3>1. HeldFrom(By(n), Unread, x)
      BY <1>0, <2>1, LowerHeldFrom DEF FreshContexts
    <3>2. ContextFloor(<<n, v>>, x)'
      BY <2>1, <3>1, ContextFloorStays
    <3> QED
      BY <2>1, <3>2 DEF ContextFloor, ByKey
  <2>2. since[r] <= settled /\ using[r].version \in 0..MaxInvalidations
    BY DEF Typed
  <2>3. CASE /\ ByVersion(r) /\ r \notin misread /\ using'[r] = using[r]
             /\ path'[r] = path[r] /\ since'[r] = since[r]
    <3>1. Name(path[r]) = n /\ path[r] \in By(n)
      BY <1>5, <2>3 DEF By
    <3>2. ContextFloor(<<n, using[r].version>>, since[r])
      BY <2>3, <3>1 DEF FreshContexts, Key
    <3>3. Key(r)' = <<n, using[r].version>>
      BY <2>3, <3>1 DEF Key
    <3> QED
      BY <1>0, <2>1, <2>2, <2>3, <3>2, <3>3
  <2>4. CASE /\ Read(r) /\ path'[r] = path[r] /\ since'[r] = since[r]
             /\ using'[r].version = version[Name(path[r])]
    <3>1. ContextFloor(<<n, version[n]>>, settled) /\ Name(path[r]) = n
      BY <1>5, <2>4 DEF FreshContexts, CurrentKey, By
    <3>2. ContextFloor(<<n, version[n]>>, since[r])
      BY <1>0, <2>2, <3>1, LowerContextFloor DEF CurrentKey
    <3>3. Key(r)' = <<n, version[n]>>
      BY <2>4, <3>1 DEF Key
    <3> QED
      BY <1>0, <2>1, <2>2, <2>4, <3>2, <3>3
  <2>5. CASE Read(r)
    BY <1>5, <2>3, <2>4, <2>5, VersionsAreRead
  <2>6. CASE \E q \in Readers \ {r} : Read(q)
    <3>1. /\ pc'[r] = pc[r] /\ r \notin misread /\ using'[r] = using[r]
          /\ path'[r] = path[r] /\ since'[r] = since[r]
      BY <1>5, <2>6, OthersWait
    <3> QED
      BY <1>5, <2>3, <3>1 DEF ByVersion
  <2>7. CASE \A q \in Readers : ~Read(q)
    <3>1. UNCHANGED <<pc, misread, using, path, since>>
      BY <2>7, NoRequest
    <3> QED
      BY <1>5, <2>3, <3>1 DEF ByVersion
  <2> QED
    BY <2>5, <2>6, <2>7
<1>6. ASSUME NEW r \in Readers, path'[r] \in By(n), pc'[r] \in {"unlock", "done"}, answer'[r] # None,
             r \notin misread'
      PROVE  answer'[r].context >= since'[r]
  <2>1. CASE Read(r)
    <3>1. since'[r] = since[r] /\ r \notin misread /\ path[r] \in By(n)
      BY <1>6, <2>1, AnswersAreFound
    <3>2. CASE pc[r] \in {"store", "unlock"} /\ answer'[r] = answer[r]
      <4>1. CASE pc[r] = "unlock"
        BY <1>6, <3>1, <3>2, <4>1 DEF FreshContexts
      <4>2. CASE pc[r] = "store"
        <5>1. ContextFloor(Key(r), since[r]) /\ ByKey(r, Key(r))
          BY <3>1, <4>2 DEF FreshContexts, ByKey, ByVersion, Building
        <5>2. answer[r].context = using[r].context
          BY <4>2 DEF Answers
        <5> QED
          BY <3>1, <3>2, <5>1, <5>2 DEF ContextFloor
      <4> QED
        BY <3>2, <4>1, <4>2
    <3>3. CASE ByVersion(r) /\ menus[Key(r)] # None /\ answer'[r] = menus[Key(r)]
      <4>1. ContextFloor(Key(r), since[r])
        BY <3>1, <3>3 DEF FreshContexts
      <4> QED
        BY <3>1, <3>3, <4>1 DEF ContextFloor
    <3> QED
      BY <1>6, <2>1, <3>2, <3>3, AnswersAreFound
  <2>2. CASE \E q \in Readers \ {r} : Read(q)
    <3>1. /\ pc'[r] = pc[r] /\ r \notin misread /\ answer'[r] = answer[r]
          /\ since'[r] = since[r] /\ path'[r] = path[r]
      BY <1>6, <2>2, OthersWait
    <3> QED
      BY <1>6, <3>1 DEF FreshContexts
  <2>3. CASE \A q \in Readers : ~Read(q)
    <3>1. UNCHANGED <<pc, misread, answer, since, path>>
      BY <2>3, NoRequest
    <3> QED
      BY <1>6, <3>1 DEF FreshContexts
  <2> QED
    BY <2>1, <2>2, <2>3
<1> QED
  BY <1>1, <1>2, <1>3, <1>4, <1>5, <1>6 DEF FreshContexts

-----------------------------------------------------------------------------
(* The theorems *)

LEMMA CatalogInvInit ==
    ASSUME Init
    PROVE  CatalogInv
<1> USE DEF Init
<1>1. 0 \in Edits /\ 0 \in 0..MaxInvalidations /\ 0 <= 0 /\ "code" \in Paths
  BY CatalogAssumption DEF Edits, Paths
<1>2. Typed
  BY <1>1 DEF Typed
<1>3. /\ \A r \in Readers : pc[r] = "idle" /\ answer[r] = None
      /\ \A k \in MenuKeys : menus[k] = None
      /\ \A n \in Names : CurrentKey(n) \in MenuKeys
  BY <1>1 DEF CurrentKey, MenuKeys
<1>4. \A r \in Readers : ~ByVersion(r)
  BY <1>3 DEF ByVersion, Building
<1>5. Versions
  BY <1>1, <1>3, <1>4 DEF Versions, Names, MenuKeys
<1>6. Answers
  BY <1>3 DEF Answers
<1>7. FreshMenus
  BY <1>3, <1>4 DEF FreshMenus, MenuFloor
<1>8. \A n \in Names : FreshContexts(n)
  BY <1>3, <1>4, Named DEF FreshContexts, CachedFrom, HeldFrom, ContextFloor, ContextDeleted, ByKey
<1> QED
  BY <1>2, <1>5, <1>6, <1>7, <1>8 DEF CatalogInv

LEMMA DisturbanceStays ==
    ASSUME Typed, [Next]_vars, NEW n \in Names, n \notin disturbed'
    PROVE  n \notin disturbed
BY ContextsAreDeleted, NoInvalidation

LEMMA CatalogInvHolds == Spec => []CatalogInv
<1>1. ASSUME CatalogInv, [Next]_vars
      PROVE  CatalogInv'
  <2>1. Typed /\ Versions /\ Answers /\ FreshMenus
    BY <1>1 DEF CatalogInv
  <2>2. Typed' /\ Versions' /\ Answers'
    BY <1>1, <2>1, TypedKept, VersionsKept, AnswersKept
  <2>3. FreshMenus'
    BY <1>1, <2>1, <2>2, FreshMenusKept
  <2>4. ASSUME NEW n \in Names, n \notin disturbed'
        PROVE  FreshContexts(n)'
    <3>1. FreshContexts(n)
      BY <1>1, <2>1, <2>4, DisturbanceStays DEF CatalogInv
    <3> QED
      BY <1>1, <2>1, <2>2, <2>4, <3>1, FreshContextsKept
  <2> QED
    BY <2>2, <2>3, <2>4 DEF CatalogInv
<1> QED
  BY <1>1, CatalogInvInit, PTL DEF Spec

\* A request that came after an invalidation of all the store's keys, and that
\* could read the version, is answered with a menu no older than that
\* invalidation, whoever built it and under whichever lock: ListCategories and
\* InvalidateMenuCache with any number of handlers, failing commands and expiries.
THEOREM MenusAreFresh == Spec => []FreshMenu
<1>1. CatalogInv => FreshMenu
  BY DEF CatalogInv, FreshMenus, FreshMenu, Answered
<1> QED
  BY <1>1, CatalogInvHolds, PTL

\* So are its prices, unless an invalidation left an older store context for the
\* name that the request gives the store: resolveStoreContextCached caches a context
\* without a version, and the version of the menu's key makes up for it.  Requests by
\* the id never suffer from the context of those that name both the code and the id,
\* which InvalidateMenuCache does not delete.
THEOREM PricesAreFresh == Spec => []FreshContext
<1>1. CatalogInv => FreshContext
  <2> SUFFICES ASSUME CatalogInv, NEW r \in Readers, Answered(r), r \notin misread,
                      Name(path[r]) \notin disturbed
               PROVE  answer[r].context >= since[r]
    BY DEF FreshContext
  <2>1. path[r] \in Paths
    BY DEF CatalogInv, Typed
  <2>2. Name(path[r]) \in Names \ disturbed /\ path[r] \in By(Name(path[r]))
    BY <2>1, Named DEF By
  <2>3. FreshContexts(Name(path[r]))
    BY <2>2 DEF CatalogInv
  <2> QED
    BY <2>2, <2>3 DEF FreshContexts, Answered
<1> QED
  BY <1>1, CatalogInvHolds, PTL
=============================================================================
