---------------------------- MODULE CatalogCacheMC ----------------------------
(* Two handlers; three requests are enough for one to cache, one to build under *)
(* an older version and one to be answered after the invalidation.             *)
EXTENDS CatalogCache, TLC

CONSTANTS r1, r2

MCReaders == {r1, r2}
Handlers == Permutations(MCReaders)

\* What a request has not read yet, or no longer reads, is left over from an earlier
\* one; one that was answered with what is fresh leaves nothing behind.
Seen(r) ==
    CASE pc[r] \in {"context", "resolve"} -> <<pc[r], path[r], since[r]>>
      [] pc[r] = "setContext" -> <<pc[r], path[r], since[r], using[r].context>>
      [] pc[r] = "version" -> <<pc[r], Name(path[r]), since[r], using[r].context>>
      [] pc[r] \in {"menu", "lock", "wait"} \cup Building ->
             <<pc[r], Key(r), since[r], using[r].context, r \in misread, answer[r],
               IF pc[r] \in {"lock", "wait"} THEN attempt[r] ELSE 0>>
      [] OTHER ->
             IF Answered(r) /\ r \notin misread
                /\ (answer[r].menu < since[r] \/ answer[r].context < since[r])
             THEN <<Name(path[r]), answer[r], since[r]>>
             ELSE <<>>

Shown ==
    <<db, redis, invalidation, faults, requests, held, [r \in MCReaders |-> Seen(r)]>>
=============================================================================
