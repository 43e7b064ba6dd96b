----------------------------- MODULE RedisClient -----------------------------
(***************************************************************************)
(* The connection pool and circuit breaker of the backend's Redis client   *)
(* (backend/internal/database/redis.go), used by all handlers at once.     *)
(*                                                                         *)
(* One step is one operation on a channel (pool, active), one critical     *)
(* section of the mutex, or one read or write of a socket.  A command and  *)
(* its reply are told apart only by whether they belong together.  Every   *)
(* network operation has a deadline, so it ends even if nothing comes.     *)
(* Conns numbers sockets; the number of a closed one is used again.        *)
(***************************************************************************)
EXTENDS Integers, SequencesExt

CONSTANTS
    Callers,       \* goroutines that issue commands
    PoolSize,      \* REDIS_POOL_SIZE
    MaxActive,     \* REDIS_MAX_ACTIVE
    FailureLimit,  \* failures in a row that trip the breaker (5 in the code)
    MaxFaults      \* bound: restarts of Redis, timeouts, error replies, cancellations

ASSUME RedisAssumption ==
    /\ IsFiniteSet(Callers)
    /\ PoolSize \in Nat \ {0} /\ FailureLimit \in Nat \ {0}
    /\ MaxActive \in Nat /\ MaxActive >= PoolSize

\* Idle connections and one for each command under way.
Conns == 1..(PoolSize + MaxActive)

VARIABLES
    up,         \* Redis accepts connections
    socket,     \* per connection: open, closed by us, or by Redis
    replies,    \* per connection: what Redis has answered or will answer
    pool,       \* the channel of idle connections
    active,     \* the number of tokens in the channel active
    pc,         \* where each caller is in execute
    conn,       \* the connection each caller has taken
    failing,    \* the caller's command has failed
    answer,     \* what the caller's last command returned
    failures,   \* consecutiveFailures, counted no further than FailureLimit
    broken,     \* brokenUntil is in the future
    faults

network == <<up, socket, replies>>
channels == <<pool, active>>
breaker == <<failures, broken>>
callers == <<pc, conn, failing, answer>>
vars == <<network, channels, breaker, callers, faults>>

Reply == [mine : BOOLEAN, here : BOOLEAN, kind : {"value", "error", "cut"}]

TypeOK ==
    /\ up \in BOOLEAN
    /\ socket \in [Conns -> {"open", "closed", "eof", "reset"}]
    /\ replies \in [Conns -> Seq(Reply)]
    /\ pool \in Seq(Conns) /\ Len(pool) <= PoolSize
    /\ active \in 0..MaxActive
    /\ pc \in [Callers -> {"idle", "acquire", "take", "probe", "dial", "write", "read",
                           "put", "release", "record", "giveUp"}]
    /\ conn \in [Callers -> Conns] /\ failing \in [Callers -> BOOLEAN]
    /\ answer \in [Callers -> {"none", "own", "other"}]
    /\ failures \in 0..FailureLimit /\ broken \in BOOLEAN

\* NewRedisClientWithConfig: as many connections as could be dialed, one at least.
Init ==
    /\ up = TRUE
    /\ \E n \in 1..PoolSize :
          /\ pool = [i \in 1..n |-> i]
          /\ socket = [c \in Conns |-> IF c <= n THEN "open" ELSE "closed"]
    /\ replies = [c \in Conns |-> <<>>]
    /\ active = 0
    /\ pc = [k \in Callers |-> "idle"] /\ conn = [k \in Callers |-> 1]
    /\ failing = [k \in Callers |-> FALSE] /\ answer = [k \in Callers |-> "none"]
    /\ failures = 0 /\ broken = FALSE /\ faults = 0

-----------------------------------------------------------------------------
Fault == faults < MaxFaults /\ faults' = faults + 1

Go(k, from, to) == pc[k] = from /\ pc' = [pc EXCEPT ![k] = to]

\* recordFailure and recordSuccess
RecordFailure ==
    /\ failures' = IF failures < FailureLimit THEN failures + 1 ELSE failures
    /\ broken' = (broken \/ failures' = FailureLimit)

RecordSuccess == failures' = 0 /\ UNCHANGED broken

-----------------------------------------------------------------------------
(* getConn *)

\* A command that finds the breaker tripped fails without being counted.
Begin(k) ==
    /\ ~broken /\ Go(k, "idle", "acquire")
    /\ answer' = [answer EXCEPT ![k] = "none"]
    /\ failing' = [failing EXCEPT ![k] = FALSE]
    /\ UNCHANGED <<network, channels, breaker, conn, faults>>

\* A token, or an error: after 100 ms without one, or when the request is cancelled.
AcquireActive(k) ==
    /\ \/ /\ active < MaxActive /\ active' = active + 1
          /\ Go(k, "acquire", "take") /\ UNCHANGED faults
       \/ /\ Go(k, "acquire", "idle") /\ UNCHANGED active
          /\ (active = MaxActive /\ UNCHANGED faults) \/ Fault
    /\ UNCHANGED <<network, pool, breaker, conn, failing, answer>>

TakeIdle(k) ==
    /\ \/ /\ pool # <<>> /\ pool' = Tail(pool)
          /\ conn' = [conn EXCEPT ![k] = Head(pool)] /\ Go(k, "take", "probe")
       \/ pool = <<>> /\ Go(k, "take", "dial") /\ UNCHANGED <<pool, conn>>
    /\ UNCHANGED <<network, active, breaker, failing, answer, faults>>

Closed(c) == socket' = [socket EXCEPT ![c] = "closed"] /\ replies' = [replies EXCEPT ![c] = <<>>]

\* The one-byte read of at most 1 ms: only an error that is neither io.EOF nor a
\* timeout makes getConn replace the connection; a byte that is read is lost.
Probe(k) ==
    LET c == conn[k]
        ready == replies[c] # <<>> /\ Head(replies[c]).here
    IN  /\ IF socket[c] = "reset"
           THEN Go(k, "probe", "dial") /\ Closed(c)
           ELSE /\ Go(k, "probe", "write")
                /\ replies' = IF ready THEN [replies EXCEPT ![c][1].kind = "cut"] ELSE replies
                /\ UNCHANGED socket
        /\ UNCHANGED <<up, channels, breaker, conn, failing, answer, faults>>

Unused == {c \in Conns : socket[c] = "closed"}

Dial(k) ==
    /\ pc[k] = "dial"
    /\ \/ /\ up /\ Go(k, "dial", "write") /\ RecordSuccess
          /\ \E c \in Unused :
                /\ \A d \in Unused : c <= d
                /\ conn' = [conn EXCEPT ![k] = c] /\ socket' = [socket EXCEPT ![c] = "open"]
          /\ UNCHANGED faults
       \/ /\ Go(k, "dial", "giveUp") /\ RecordFailure
          /\ (~up /\ UNCHANGED faults) \/ Fault
          /\ UNCHANGED <<conn, socket>>
    /\ UNCHANGED <<up, replies, channels, failing, answer>>

\* Slip: the token is not given back.
GiveUpKeeps(k) ==
    /\ Go(k, "giveUp", "idle")
    /\ UNCHANGED <<network, channels, breaker, conn, failing, answer, faults>>

GiveUp(k) ==
    /\ Go(k, "giveUp", "idle")
    /\ active' = active - 1
    /\ UNCHANGED <<network, pool, breaker, conn, failing, answer, faults>>

-----------------------------------------------------------------------------
(* execute *)

Finish(k, fails, result) ==
    /\ failing' = [failing EXCEPT ![k] = fails]
    /\ answer' = [answer EXCEPT ![k] = result]

\* The kernel may still accept a write to a dead connection; the read fails then.
Write(k) ==
    /\ \/ /\ Go(k, "write", "read") /\ UNCHANGED <<failing, answer, faults>>
          /\ replies' = IF socket[conn[k]] # "open" THEN replies
                        ELSE [replies EXCEPT ![conn[k]] =
                                 Append(@, [mine |-> TRUE, here |-> FALSE, kind |-> "value"])]
       \/ /\ Go(k, "write", "put") /\ Finish(k, TRUE, "none") /\ UNCHANGED replies
          /\ (socket[conn[k]] # "open" /\ UNCHANGED faults) \/ Fault
    /\ UNCHANGED <<up, socket, channels, breaker, conn>>

Read(k) ==
    LET c == conn[k]
        first == Head(replies[c])
        ready == replies[c] # <<>> /\ first.here
    IN  /\ Go(k, "read", "put")
        /\ \/ /\ ready
              /\ replies' = [replies EXCEPT ![c] = Tail(@)]
              /\ Finish(k, first.kind # "value",
                        IF first.kind # "value" THEN "none"
                        ELSE IF first.mine THEN "own" ELSE "other")
              /\ UNCHANGED faults
           \/ /\ ~ready /\ socket[c] # "open" /\ Finish(k, TRUE, "none")
              /\ UNCHANGED <<replies, faults>>
           \/ Fault /\ Finish(k, TRUE, "none") /\ UNCHANGED replies
        /\ UNCHANGED <<up, socket, channels, breaker, conn>>

\* Slip: the idle connections are a stack.
ReturnedFirst(c) == <<c>> \o pool

Returned(c) == Append(pool, c)

\* Slip: a connection whose command failed goes back to the pool.
AlwaysReusable(k) == Len(pool) < PoolSize

\* Only a connection with nothing left on it is used again.
Reusable(k) == ~failing[k] /\ Len(pool) < PoolSize

\* putConn; what is still to come on a connection is no longer its next user's.
Put(k) ==
    LET c == conn[k] IN
    /\ Go(k, "put", "release")
    /\ IF Reusable(k)
       THEN /\ pool' = Returned(c)
            /\ replies' = [replies EXCEPT ![c] = [i \in DOMAIN @ |-> [@[i] EXCEPT !.mine = FALSE]]]
            /\ UNCHANGED socket
       ELSE Closed(c) /\ UNCHANGED pool
    /\ UNCHANGED <<up, active, breaker, conn, failing, answer, faults>>

ReleaseActive(k) ==
    /\ Go(k, "release", "record")
    /\ active' = active - 1
    /\ UNCHANGED <<network, pool, breaker, conn, failing, answer, faults>>

Record(k) ==
    /\ Go(k, "record", "idle")
    /\ IF failing[k] THEN RecordFailure ELSE RecordSuccess
    /\ UNCHANGED <<network, channels, conn, failing, answer, faults>>

Work(k) ==
    \/ AcquireActive(k) \/ TakeIdle(k) \/ (pc[k] = "probe" /\ Probe(k)) \/ Dial(k) \/ GiveUp(k)
    \/ Write(k) \/ (pc[k] = "read" /\ Read(k)) \/ Put(k) \/ ReleaseActive(k) \/ Record(k)

-----------------------------------------------------------------------------
(* Redis, the network and time *)

Due(c) == {i \in DOMAIN replies[c] : ~replies[c][i].here}

\* Redis answers in order, with a value or, now and then, an error.
Answer(c) ==
    /\ socket[c] = "open"
    /\ \E i \in Due(c) :
          /\ \A j \in Due(c) : i <= j
          /\ \/ replies' = [replies EXCEPT ![c][i].here = TRUE] /\ UNCHANGED faults
             \/ /\ Fault
                /\ replies' = [replies EXCEPT ![c][i] = [@ EXCEPT !.here = TRUE, !.kind = "error"]]
    /\ UNCHANGED <<up, socket, channels, breaker, callers>>

\* The replies that have arrived, which come before those that have not.
Arrived(c) == SubSeq(replies[c], 1, Len(replies[c]) - Cardinality(Due(c)))

\* Redis goes down: every connection ends, gracefully or not.
Stop ==
    /\ up /\ Fault
    /\ up' = FALSE
    /\ \E end \in {"eof", "reset"} :
          socket' = [c \in Conns |-> IF socket[c] = "open" THEN end ELSE socket[c]]
    /\ replies' = [c \in Conns |-> Arrived(c)]
    /\ UNCHANGED <<channels, breaker, callers>>

Start == ~up /\ up' = TRUE /\ UNCHANGED <<socket, replies, channels, breaker, callers, faults>>

\* The 15 seconds are over; the failures stay counted.
BreakerExpires ==
    /\ broken /\ broken' = FALSE
    /\ UNCHANGED <<network, channels, failures, callers, faults>>

Next ==
    \/ \E k \in Callers : Begin(k) \/ Work(k)
    \/ \E c \in Conns : Answer(c)
    \/ Stop \/ Start \/ BreakerExpires

Spec == Init /\ [][Next]_vars

\* A goroutine in execute runs on, since every wait in it has a deadline; the
\* breaker's time passes; Redis answers.  That commands keep coming is assumed:
\* without one nobody learns that Redis is back.
Fairness ==
    /\ \A k \in Callers : WF_vars(Begin(k)) /\ WF_vars(Work(k))
    /\ \A c \in Conns : WF_vars(Answer(c))
    /\ WF_vars(BreakerExpires)
FairSpec == Spec /\ Fairness

-----------------------------------------------------------------------------
(* Properties *)

\* A command is never answered with the reply to another command, which a timed out
\* one may have left on a connection: execute discards the connection instead.
OwnReply == \A k \in Callers : answer[k] # "other"

Owning(k) == pc[k] \in {"probe", "write", "read", "put"}
Token(k) == pc[k] \notin {"idle", "acquire", "record"}

\* Every path through getConn, execute and putConn gives back what it took: each
\* connection we have not closed is idle in the pool or with exactly one caller,
\* and there are as many tokens out as commands under way.  (And TypeOK.)
NothingLeaked ==
    /\ TypeOK
    /\ \A c \in Conns :
          Cardinality({i \in DOMAIN pool : pool[i] = c}) + Cardinality({k \in Callers : Owning(k) /\ conn[k] = c})
              = IF socket[c] = "closed" THEN 0 ELSE 1
    /\ active = Cardinality({k \in Callers : Token(k)})

\* Once Redis is up for good, the client finds back to it: the pool has no dead
\* connection and the breaker stays closed, although dead connections pass the probe
\* and the count of failures outlives the breaker.
FindsBack ==
    <>[]up => <>[](~broken /\ \A c \in Conns : socket[c] \in {"open", "closed"})

=============================================================================
