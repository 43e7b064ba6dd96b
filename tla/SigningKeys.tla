------------------------------ MODULE SigningKeys ------------------------------
(***************************************************************************)
(* How requests are authenticated while the issuer of the tokens rotates   *)
(* its keys (backend/internal/auth): a cache of the issuer's public keys   *)
(* that concurrent handlers refill, each for itself.                       *)
(*                                                                         *)
(* Time passes only while every handler waits for an answer from the       *)
(* issuer.  A signature is good if the key it names made it; mock mode is  *)
(* left out.                                                               *)
(***************************************************************************)
EXTENDS Integers, FiniteSets, FiniteSetsExt

CONSTANTS
    Handlers,
    Kids,
    Tokens,     \* kid, iat, exp, ours: audience, issuer and subject are as they should
    Ages,       \* the max-age of the issuer's answers, 0 if the header has none
    Hour,       \* how long keys are good without it
    Timeout,    \* of the HTTP client
    Skew,       \* how far in the future iat may be
    MaxTime     \* bound

ASSUME TimesAssumption ==
    /\ Tokens \subseteq [kid : Kids, iat : Nat, exp : Nat, ours : BOOLEAN]
    /\ Ages \subseteq Nat /\ IsFiniteSet(Ages) /\ Ages # {}
    /\ {Hour, Timeout, Skew, MaxTime} \subseteq Nat

VARIABLES
    now,
    published,  \* the issuer's keys
    withdrawn,  \* history: kid -> when it was withdrawn
    cachedKeys, cacheExpiresAt,
    handler     \* per handler: step, token; since when it fetches, and what it got;
                \* history: steady, whether the token's key has been published since it began
keysVars == <<now, published, withdrawn, cachedKeys, cacheExpiresAt, handler>>

Answered == {"IDLE", "ACCEPTED", "REJECTED"}
Waiting(h) == handler[h].step \in {"FETCHING", "SERVED"}

Free ==
    [step |-> "IDLE", token |-> [kid |-> {}, iat |-> 0, exp |-> 0, ours |-> FALSE],
     steady |-> FALSE, since |-> 0, keys |-> {}, until |-> 0]

KeysInit ==
    /\ now = 0
    /\ published \in {{k} : k \in Kids} /\ withdrawn = [k \in {} |-> 0]
    /\ cachedKeys = {} /\ cacheExpiresAt = 0
    /\ handler = [h \in Handlers |-> Free]

\* The handler has answered: with "ACCEPTED", "REJECTED", or an error ("IDLE").
Answer(h, answer) == handler' = [handler EXCEPT ![h] = [Free EXCEPT !.step = answer]]
cacheVars == <<cachedKeys, cacheExpiresAt>>
issuerVars == <<published, withdrawn>>

-----------------------------------------------------------------------------
(* Time, and the issuer *)

Tick ==
    /\ now < MaxTime
    /\ \A h \in Handlers : \/ handler[h].step \in Answered
                           \/ Waiting(h) /\ now < handler[h].since + Timeout
    /\ now' = now + 1
    /\ UNCHANGED <<issuerVars, cacheVars, handler>>

Publish(k) ==
    /\ k \notin published /\ k \notin DOMAIN withdrawn
    /\ published' = published \cup {k}
    /\ UNCHANGED <<now, withdrawn, cacheVars, handler>>

Withdraw(k) ==
    /\ k \in published
    /\ published' = published \ {k}
    /\ withdrawn' = [j \in DOMAIN withdrawn \cup {k} |->
                         IF j = k THEN now ELSE withdrawn[j]]
    /\ handler' = [h \in Handlers |-> [handler[h] EXCEPT !.steady = @ /\ handler[h].token.kid # k]]
    /\ UNCHANGED <<now, cacheVars>>

\* The answer leaves with the keys of the moment.
Serve(h, age) ==
    /\ handler[h].step = "FETCHING"
    /\ handler' = [handler EXCEPT ![h].step = "SERVED", ![h].keys = published, ![h].until = age]
    /\ UNCHANGED <<now, issuerVars, cacheVars>>

-----------------------------------------------------------------------------
(* verifyFirebaseIDToken *)

ClaimsValid(token) == token.ours /\ token.exp > now /\ token.iat <= now + Skew

Verify(h, token) ==
    /\ handler[h].step \in Answered
    /\ IF ClaimsValid(token)
       THEN handler' = [handler EXCEPT ![h] = [Free EXCEPT !.step = "LOOKUP", !.token = token,
                                                 !.steady = token.kid \in published]]
       ELSE Answer(h, "REJECTED")
    /\ UNCHANGED <<now, issuerVars, cacheVars>>

\* Slip: the cached keys are taken however old they are.
LookUpStale(h) ==
    /\ handler[h].step = "LOOKUP"
    /\ IF handler[h].token.kid \in cachedKeys
       THEN Answer(h, "ACCEPTED")
       ELSE handler' = [handler EXCEPT ![h].step = "FETCHING", ![h].since = now]
    /\ UNCHANGED <<now, issuerVars, cacheVars>>

\* Slip: fresh keys are believed to be complete.
LookUpOnly(h) ==
    /\ handler[h].step = "LOOKUP"
    /\ IF now < cacheExpiresAt
       THEN Answer(h, IF handler[h].token.kid \in cachedKeys THEN "ACCEPTED" ELSE "REJECTED")
       ELSE handler' = [handler EXCEPT ![h].step = "FETCHING", ![h].since = now]
    /\ UNCHANGED <<now, issuerVars, cacheVars>>

\* publicKey, under the lock; a key that is not there is fetched, without the lock.
LookUp(h) ==
    /\ handler[h].step = "LOOKUP"
    /\ IF now < cacheExpiresAt /\ handler[h].token.kid \in cachedKeys
       THEN Answer(h, "ACCEPTED")
       ELSE handler' = [handler EXCEPT ![h].step = "FETCHING", ![h].since = now]
    /\ UNCHANGED <<now, issuerVars, cacheVars>>

\* An error, a status that is not 2xx, or one certificate that cannot be read.
FetchFails(h) ==
    /\ Waiting(h)
    /\ Answer(h, "IDLE")
    /\ UNCHANGED <<now, issuerVars, cacheVars>>

Lifetime(age) == IF age > 0 THEN age ELSE Hour

\* The keys' time runs from when they have been read.
fetchKeys(h) ==
    /\ handler[h].step = "SERVED"
    /\ handler' = [handler EXCEPT ![h].step = "FETCHED", ![h].since = 0,
                        ![h].until = now + Lifetime(@)]
    /\ UNCHANGED <<now, issuerVars, cacheVars>>

\* Again under the lock: whatever another handler has stored meanwhile is replaced.
StoreKeys(h) ==
    /\ handler[h].step = "FETCHED"
    /\ cachedKeys' = handler[h].keys /\ cacheExpiresAt' = handler[h].until
    /\ Answer(h, IF handler[h].token.kid \in handler[h].keys THEN "ACCEPTED" ELSE "REJECTED")
    /\ UNCHANGED <<now, issuerVars>>

-----------------------------------------------------------------------------
Step(h) == LookUp(h) \/ FetchFails(h) \/ fetchKeys(h) \/ StoreKeys(h)

KeysNext ==
    \/ Tick
    \/ \E k \in Kids : Publish(k) \/ Withdraw(k)
    \/ \E h \in Handlers :
          \/ Step(h)
          \/ \E t \in Tokens : Verify(h, t)
          \/ \E age \in Ages : Serve(h, age)

KeysSpec == KeysInit /\ [][KeysNext]_keysVars

-----------------------------------------------------------------------------
(* Properties *)

Ends(h, answer) == handler[h].step # answer /\ handler'[h].step = answer

\* Whichever answers overtake each other (a slow one may bring back a key that a
\* fast one had removed), a token is accepted only if its key is
\* published or was withdrawn no longer ago than the longest lifetime of an answer
\* and the time it was on its way, and if the token did not expire before that.
AcceptedIsRecent ==
    [][\A h \in Handlers : Ends(h, "ACCEPTED") =>
          LET token == handler[h].token IN
          /\ token.ours /\ now < token.exp + Timeout
          /\ \/ token.kid \in published
             \/ /\ token.kid \in DOMAIN withdrawn
                /\ now <= withdrawn[token.kid] + Timeout + Max({Lifetime(a) : a \in Ages})]_keysVars

\* A good token whose key is published all the while is not rejected because of what
\* the cache held or another handler stored; only if the issuer does not answer.
PublishedIsAccepted ==
    [][\A h \in Handlers :
          handler[h].step \notin Answered /\ Ends(h, "REJECTED") => ~handler[h].steady]_keysVars
===============================================================================
