--------------------------- MODULE RedisClientProofs ---------------------------
(***************************************************************************)
(* Proofs about RedisClient: tokens and connections are given back, and a  *)
(* command gets no other command's reply.                                  *)
(***************************************************************************)
EXTENDS RedisClient, FiniteSetTheorems, SequenceTheorems, TLAPS

-----------------------------------------------------------------------------
(* Invariants *)

Distinct(s) == \A i, j \in DOMAIN s : s[i] = s[j] => i = j

Places == {"idle", "acquire", "take", "probe", "dial", "write", "read",
           "put", "release", "record", "giveUp"}

\* A connection is closed, or in the pool, or with one caller.
Idle == /\ Distinct(pool)
        /\ \A c \in ToSet(pool) : socket[c] # "closed"

Owned ==
    /\ \A k \in Callers : Owning(k) => socket[conn[k]] # "closed" /\ conn[k] \notin ToSet(pool)
    /\ \A k, l \in Callers : Owning(k) /\ Owning(l) /\ conn[k] = conn[l] => k = l

OpenIsHeld ==
    \A c \in Conns : socket[c] # "closed" =>
        c \in ToSet(pool) \/ \E k \in Callers : Owning(k) /\ conn[k] = c

\* Between commands a connection has no replies: one command writes, and its reply
\* is read, or the connection is closed.
Mine == {r \in Reply : r.mine}

OneReply ==
    /\ replies \in [Conns -> Seq(Mine)]
    /\ \A c \in Conns : Len(replies[c]) <= 1

NothingLeft ==
    /\ \A c \in Conns : socket[c] = "closed" \/ c \in ToSet(pool) => replies[c] = <<>>
    /\ \A k \in Callers :
           pc[k] \in {"probe", "write"} \/ (pc[k] = "put" /\ ~failing[k]) => replies[conn[k]] = <<>>

-----------------------------------------------------------------------------
(* Types *)

\* TypeOK but for what the other parts of the invariant give.
BaseTyped ==
    /\ up \in BOOLEAN
    /\ socket \in [Conns -> {"open", "closed", "eof", "reset"}]
    /\ pool \in Seq(Conns) /\ Len(pool) <= PoolSize
    /\ pc \in [Callers -> Places]
    /\ conn \in [Callers -> Conns] /\ failing \in [Callers -> BOOLEAN]
    /\ answer \in [Callers -> {"none", "own", "other"}]
    /\ failures \in 0..FailureLimit /\ broken \in BOOLEAN

LEMMA Bounds ==
    /\ PoolSize \in Nat /\ MaxActive \in Nat /\ FailureLimit \in Nat
    /\ PoolSize > 0 /\ FailureLimit > 0 /\ Conns = 1..(PoolSize + MaxActive)
    /\ 1 \in Conns
  BY RedisAssumption DEF Conns

LEMMA GoTyped ==
    ASSUME BaseTyped, NEW k \in Callers, NEW from \in Places, NEW to \in Places, Go(k, from, to)
    PROVE  /\ pc' \in [Callers -> Places]
           /\ pc[k] = from /\ pc'[k] = to
           /\ \A l \in Callers : l # k => pc'[l] = pc[l]
  BY DEF Go, BaseTyped

LEMMA RecordTyped ==
    ASSUME BaseTyped, RecordFailure \/ RecordSuccess
    PROVE  failures' \in 0..FailureLimit /\ broken' \in BOOLEAN
<1>1. failures \in 0..FailureLimit /\ broken \in BOOLEAN /\ FailureLimit \in Nat
  BY Bounds DEF BaseTyped
<1>2. CASE RecordFailure
  <2>1. failures' \in 0..FailureLimit
    BY <1>1, <1>2 DEF RecordFailure
  <2>2. broken' \in BOOLEAN
    BY <1>2 DEF RecordFailure
  <2> QED
    BY <2>1, <2>2
<1>3. CASE RecordSuccess
  BY <1>1, <1>3 DEF RecordSuccess
<1> QED
  BY <1>2, <1>3

LEMMA WorkTyped ==
    ASSUME BaseTyped, NEW k \in Callers, Begin(k) \/ Work(k)
    PROVE  BaseTyped'
<1> USE DEF BaseTyped, Places
<1>1. CASE Begin(k)
  BY <1>1 DEF Begin, Go, network, channels, breaker
<1>2. CASE AcquireActive(k)
  BY <1>2 DEF AcquireActive, Go, network, breaker
<1>3. CASE TakeIdle(k)
  <2>1. CASE pool # <<>> /\ pool' = Tail(pool) /\ conn' = [conn EXCEPT ![k] = Head(pool)]
    <3>1. /\ Head(pool) \in Conns /\ Tail(pool) \in Seq(Conns)
          /\ Len(Tail(pool)) = Len(pool) - 1 /\ Len(pool) \in Nat
      BY <2>1, HeadTailProperties, LenProperties
    <3>2. pool' \in Seq(Conns) /\ Len(pool') <= PoolSize /\ conn' \in [Callers -> Conns]
      BY <2>1, <3>1, Bounds
    <3> QED
      BY <1>3, <3>2 DEF TakeIdle, Go, network, breaker
  <2>2. CASE UNCHANGED <<pool, conn>>
    BY <1>3, <2>2 DEF TakeIdle, Go, network, breaker
  <2> QED
    BY <1>3, <2>1, <2>2 DEF TakeIdle
<1>4. CASE Probe(k)
  BY <1>4 DEF Probe, Closed, Go, channels, breaker
<1>5. CASE Dial(k)
  <2>1. failures' \in 0..FailureLimit /\ broken' \in BOOLEAN
    BY <1>5, RecordTyped DEF Dial
  <2>2. socket' \in [Conns -> {"open", "closed", "eof", "reset"}] /\ conn' \in [Callers -> Conns]
    BY <1>5 DEF Dial, Unused
  <2> QED
    BY <1>5, <2>1, <2>2 DEF Dial, Go, channels
<1>6. CASE GiveUp(k) \/ ReleaseActive(k)
  BY <1>6 DEF GiveUp, ReleaseActive, Go, network, breaker
<1>7. CASE Write(k)
  BY <1>7 DEF Write, Finish, Go, channels, breaker
<1>8. CASE Read(k)
  <2>1. PICK fails \in BOOLEAN, result \in {"none", "own", "other"} : Finish(k, fails, result)
    BY <1>8 DEF Read
  <2> QED
    BY <1>8, <2>1 DEF Read, Finish, Go, channels, breaker
<1>9. CASE Put(k)
  <2>1. pool' \in Seq(Conns) /\ Len(pool') <= PoolSize
    <3>1. CASE Reusable(k)
      <4>1. pool' = Append(pool, conn[k]) /\ conn[k] \in Conns /\ Len(pool) < PoolSize
        BY <1>9, <3>1 DEF Put, Returned, Reusable
      <4> QED
        BY <4>1, AppendProperties, LenProperties, Bounds
    <3>2. CASE ~Reusable(k)
      BY <1>9, <3>2 DEF Put
    <3> QED
      BY <3>1, <3>2
  <2> QED
    BY <1>9, <2>1 DEF Put, Closed, Go, breaker
<1>10. CASE Record(k)
  BY <1>10, RecordTyped DEF Record, Go, network, channels
<1> QED
  BY <1>1, <1>2, <1>3, <1>4, <1>5, <1>6, <1>7, <1>8, <1>9, <1>10 DEF Work

LEMMA NextTyped ==
    ASSUME BaseTyped, [Next]_vars
    PROVE  BaseTyped'
<1>1. CASE UNCHANGED vars
  BY <1>1 DEF BaseTyped, vars, network, channels, breaker, callers
<1>2. CASE \E c \in Conns : Answer(c)
  BY <1>2 DEF BaseTyped, Answer, channels, breaker, callers
<1>3. CASE Stop
  BY <1>3 DEF BaseTyped, Stop, channels, breaker, callers
<1>4. CASE Start
  BY <1>4 DEF BaseTyped, Start, channels, breaker, callers
<1>5. CASE BreakerExpires
  BY <1>5 DEF BaseTyped, BreakerExpires, network, channels, callers
<1> QED
  BY <1>1, <1>2, <1>3, <1>4, <1>5, WorkTyped DEF Next

-----------------------------------------------------------------------------
(* Tokens *)

WithToken == {k \in Callers : Token(k)}
Tokens == active \in 0..MaxActive /\ active = Cardinality(WithToken)

NoToken == {"idle", "acquire", "record"}

\* A caller takes a token, gives it back, or keeps what it has.
LEMMA TokenMoves ==
    ASSUME BaseTyped, Tokens, NEW k \in Callers, NEW from \in Places, NEW to \in Places,
           Go(k, from, to), active' \in Int, active' <= MaxActive,
           \/ from \in NoToken /\ to \notin NoToken /\ active' = active + 1
           \/ from \notin NoToken /\ to \in NoToken /\ active' = active - 1
           \/ (from \in NoToken <=> to \in NoToken) /\ active' = active
    PROVE  Tokens'
<1>1. /\ pc[k] = from /\ pc'[k] = to
      /\ \A l \in Callers : l # k => pc'[l] = pc[l]
  BY GoTyped
<1>2. IsFiniteSet(WithToken) /\ Cardinality(WithToken) \in Nat
  BY RedisAssumption, FS_Subset, FS_CardinalityType DEF WithToken
<1>3. /\ k \in WithToken <=> from \notin NoToken
      /\ k \in WithToken' <=> to \notin NoToken
      /\ \A l \in Callers : l # k => (l \in WithToken' <=> l \in WithToken)
      /\ WithToken \subseteq Callers /\ WithToken' \subseteq Callers
  BY <1>1 DEF WithToken, Token, NoToken
<1>4. CASE from \in NoToken /\ to \notin NoToken /\ active' = active + 1
  <2>1. WithToken' = WithToken \cup {k} /\ k \notin WithToken
    BY <1>3, <1>4
  <2>2. Cardinality(WithToken') = Cardinality(WithToken) + 1
    BY <1>2, <2>1, FS_AddElement
  <2> QED
    BY <1>2, <1>4, <2>2 DEF Tokens
<1>5. CASE from \notin NoToken /\ to \in NoToken /\ active' = active - 1
  <2>1. WithToken' = WithToken \ {k} /\ k \in WithToken
    BY <1>3, <1>5
  <2>2. Cardinality(WithToken') = Cardinality(WithToken) - 1 /\ Cardinality(WithToken') \in Nat
    BY <1>2, <2>1, FS_RemoveElement, FS_CardinalityType
  <2> QED
    BY <1>2, <1>5, <2>2 DEF Tokens
<1>6. CASE (from \in NoToken <=> to \in NoToken) /\ active' = active
  <2>1. WithToken' = WithToken
    BY <1>3, <1>6
  <2> QED
    BY <1>6, <2>1 DEF Tokens
<1> QED
  BY <1>4, <1>5, <1>6

LEMMA WorkTokens ==
    ASSUME BaseTyped, Tokens, NEW k \in Callers, Begin(k) \/ Work(k)
    PROVE  Tokens'
<1> USE DEF Places, NoToken
<1>1. active \in Int /\ active <= MaxActive /\ MaxActive \in Nat
  BY Bounds DEF Tokens
<1>2. CASE Begin(k)
  <2>1. Go(k, "idle", "acquire") /\ active' = active
    BY <1>2 DEF Begin, channels
  <2> QED
    BY <1>1, <2>1, TokenMoves
<1>3. CASE AcquireActive(k)
  <2>1. \/ Go(k, "acquire", "take") /\ active' = active + 1 /\ active < MaxActive
        \/ Go(k, "acquire", "idle") /\ active' = active
    BY <1>3 DEF AcquireActive
  <2> QED
    BY <1>1, <2>1, TokenMoves
<1>4. CASE TakeIdle(k)
  <2>1. PICK to \in {"probe", "dial"} : Go(k, "take", to) /\ active' = active
    BY <1>4 DEF TakeIdle
  <2> QED
    BY <1>1, <2>1, TokenMoves
<1>5. CASE Probe(k)
  <2>1. PICK to \in {"write", "dial"} : Go(k, "probe", to) /\ active' = active
    BY <1>5 DEF Probe, channels
  <2> QED
    BY <1>1, <2>1, TokenMoves
<1>6. CASE Dial(k)
  <2>1. PICK to \in {"write", "giveUp"} : Go(k, "dial", to) /\ active' = active
    BY <1>6 DEF Dial, channels
  <2> QED
    BY <1>1, <2>1, TokenMoves
<1>7. CASE GiveUp(k)
  <2>1. Go(k, "giveUp", "idle") /\ active' = active - 1
    BY <1>7 DEF GiveUp
  <2> QED
    BY <1>1, <2>1, TokenMoves
<1>8. CASE Write(k)
  <2>1. PICK to \in {"read", "put"} : Go(k, "write", to) /\ active' = active
    BY <1>8 DEF Write, channels
  <2> QED
    BY <1>1, <2>1, TokenMoves
<1>9. CASE Read(k)
  <2>1. Go(k, "read", "put") /\ active' = active
    BY <1>9 DEF Read, channels
  <2> QED
    BY <1>1, <2>1, TokenMoves
<1>10. CASE Put(k)
  <2>1. Go(k, "put", "release") /\ active' = active
    BY <1>10 DEF Put
  <2> QED
    BY <1>1, <2>1, TokenMoves
<1>11. CASE ReleaseActive(k)
  <2>1. Go(k, "release", "record") /\ active' = active - 1
    BY <1>11 DEF ReleaseActive
  <2> QED
    BY <1>1, <2>1, TokenMoves
<1>12. CASE Record(k)
  <2>1. Go(k, "record", "idle") /\ active' = active
    BY <1>12 DEF Record, channels
  <2> QED
    BY <1>1, <2>1, TokenMoves
<1> QED
  BY <1>2, <1>3, <1>4, <1>5, <1>6, <1>7, <1>8, <1>9, <1>10, <1>11, <1>12 DEF Work

LEMMA NextTokens ==
    ASSUME BaseTyped, Tokens, [Next]_vars
    PROVE  Tokens'
<1>1. CASE UNCHANGED <<active, pc>>
  BY <1>1 DEF Tokens, WithToken, Token
<1> QED
  BY <1>1, WorkTokens DEF Next, vars, channels, callers, Answer, Stop, Start, BreakerExpires

-----------------------------------------------------------------------------
(* Connections *)

HeldOnce == Idle /\ Owned /\ OpenIsHeld

LEMMA HoldersKept ==
    ASSUME BaseTyped, HeldOnce, pool' = pool,
           \A c \in Conns : socket'[c] = "closed" <=> socket[c] = "closed",
           \A k \in Callers : Owning(k)' <=> Owning(k),
           \A k \in Callers : Owning(k) => conn'[k] = conn[k]
    PROVE  HeldOnce'
<1>1. ToSet(pool) \subseteq Conns
  BY LenProperties DEF BaseTyped, ToSet
<1>2. \A k \in Callers : conn[k] \in Conns
  BY DEF BaseTyped
<1>3. Idle'
  BY <1>1 DEF HeldOnce, Idle, Distinct
<1>4. Owned'
  BY <1>2 DEF HeldOnce, Owned
<1>5. OpenIsHeld'
  BY DEF HeldOnce, OpenIsHeld
<1> QED
  BY <1>3, <1>4, <1>5 DEF HeldOnce

\* Taking the first of distinct elements, and adding one more.
LEMMA TailOfPool ==
    ASSUME NEW S, NEW s \in Seq(S), s # <<>>
    PROVE  Head(s) \in ToSet(s) /\ Head(s) \in S /\ ToSet(Tail(s)) \subseteq ToSet(s)
<1>1. /\ Len(s) \in Nat /\ Len(s) > 0 /\ DOMAIN s = 1..Len(s) /\ 1 \in DOMAIN s
      /\ Head(s) = s[1] /\ Head(s) \in S /\ DOMAIN Tail(s) = 1..Len(s) - 1
      /\ \A i \in 1..Len(s) - 1 : Tail(s)[i] = s[i + 1] /\ i + 1 \in 1..Len(s)
  BY LenProperties, EmptySeq, HeadTailProperties
<1> QED
  BY <1>1 DEF ToSet

LEMMA AppendToPool ==
    ASSUME NEW S, NEW s \in Seq(S), NEW x \in S
    PROVE  ToSet(Append(s, x)) = ToSet(s) \cup {x}
<1> DEFINE n == Len(s)
           t == Append(s, x)
<1>1. /\ n \in Nat /\ DOMAIN s = 1..n /\ DOMAIN t = 1..n + 1
      /\ t[n + 1] = x /\ \A i \in 1..n : t[i] = s[i]
  BY LenProperties, AppendProperties
<1> HIDE DEF n, t
<1>2. ASSUME NEW y \in ToSet(t) PROVE y \in ToSet(s) \cup {x}
  <2>1. PICK i \in 1..n + 1 : y = t[i]
    BY <1>1, <1>2 DEF ToSet
  <2> QED
    BY <1>1, <2>1 DEF ToSet
<1>3. ASSUME NEW y \in ToSet(s) \cup {x} PROVE y \in ToSet(t)
  <2>1. CASE y = x
    BY <1>1, <2>1 DEF ToSet
  <2>2. CASE y # x
    BY <1>1, <1>3, <2>2 DEF ToSet
  <2> QED
    BY <2>1, <2>2
<1> QED
  BY <1>2, <1>3 DEF t

LEMMA DistinctTail ==
    ASSUME NEW S, NEW s \in Seq(S), s # <<>>, Distinct(s)
    PROVE  /\ Distinct(Tail(s))
           /\ ToSet(Tail(s)) = ToSet(s) \ {Head(s)} /\ Head(s) \in ToSet(s)
<1> DEFINE n == Len(s)
<1>1. /\ n \in Nat /\ n > 0 /\ DOMAIN s = 1..n /\ 1 \in DOMAIN s
      /\ Head(s) = s[1] /\ DOMAIN Tail(s) = 1..n - 1
      /\ \A i \in 1..n - 1 : Tail(s)[i] = s[i + 1] /\ i + 1 \in 1..n
  BY LenProperties, EmptySeq, HeadTailProperties
<1> HIDE DEF n
<1>2. Distinct(Tail(s))
  BY <1>1 DEF Distinct
<1>3. ASSUME NEW x \in ToSet(s), x # Head(s) PROVE x \in ToSet(Tail(s))
  <2>1. PICK i \in 1..n : x = s[i]
    BY <1>1, <1>3 DEF ToSet
  <2>2. i - 1 \in 1..n - 1 /\ Tail(s)[i - 1] = x
    BY <1>1, <1>3, <2>1
  <2> QED
    BY <1>1, <2>2 DEF ToSet
<1>4. ASSUME NEW x \in ToSet(Tail(s)) PROVE x \in ToSet(s) /\ x # Head(s)
  <2>1. PICK i \in 1..n - 1 : x = Tail(s)[i]
    BY <1>1, <1>4 DEF ToSet
  <2>2. x = s[i + 1] /\ i + 1 \in 1..n /\ i + 1 # 1
    BY <1>1, <2>1
  <2> QED
    BY <1>1, <2>2 DEF ToSet, Distinct
<1>5. Head(s) \in ToSet(s)
  BY <1>1 DEF ToSet
<1> QED
  BY <1>2, <1>3, <1>4, <1>5

LEMMA DistinctAppend ==
    ASSUME NEW S, NEW s \in Seq(S), NEW x \in S, Distinct(s), x \notin ToSet(s)
    PROVE  Distinct(Append(s, x)) /\ ToSet(Append(s, x)) = ToSet(s) \cup {x}
<1> DEFINE n == Len(s)
           t == Append(s, x)
<1>1. /\ n \in Nat /\ DOMAIN s = 1..n /\ DOMAIN t = 1..n + 1
      /\ t[n + 1] = x /\ \A i \in 1..n : t[i] = s[i]
  BY LenProperties, AppendProperties
<1>2. \A i \in 1..n : s[i] # x
  BY <1>1 DEF ToSet
<1> HIDE DEF n, t
<1>3. Distinct(t)
  BY <1>1, <1>2 DEF Distinct
<1> QED
  BY <1>3, AppendToPool DEF t

LEMMA TakeIdleKeepsHolders ==
    ASSUME BaseTyped, HeldOnce, NEW k \in Callers, TakeIdle(k)
    PROVE  HeldOnce'
<1> USE DEF Places
<1>1. UNCHANGED socket
  BY DEF TakeIdle, network
<1>2. CASE pool = <<>> /\ Go(k, "take", "dial") /\ UNCHANGED <<pool, conn>>
  <2>1. \A l \in Callers : Owning(l)' <=> Owning(l)
    BY <1>2, GoTyped DEF Owning
  <2> QED
    BY <1>1, <1>2, <2>1, HoldersKept
<1>3. CASE /\ pool # <<>> /\ pool' = Tail(pool) /\ conn' = [conn EXCEPT ![k] = Head(pool)]
           /\ Go(k, "take", "probe")
  <2>1. /\ ~Owning(k) /\ Owning(k)'
        /\ \A l \in Callers : l # k => (Owning(l)' <=> Owning(l))
    BY <1>3, GoTyped DEF Owning
  <2>2. /\ conn'[k] = Head(pool) /\ \A l \in Callers : l # k => conn'[l] = conn[l]
    BY <1>3 DEF BaseTyped
  <2>3. /\ Distinct(pool') /\ ToSet(pool') = ToSet(pool) \ {Head(pool)}
        /\ Head(pool) \in ToSet(pool)
    BY <1>3, DistinctTail DEF BaseTyped, HeldOnce, Idle
  <2>4. Idle'
    BY <1>1, <2>3 DEF HeldOnce, Idle
  <2>5. Owned'
    BY <1>1, <2>1, <2>2, <2>3 DEF HeldOnce, Owned, Idle
  <2>6. OpenIsHeld'
    <3>1. ASSUME NEW c \in Conns, socket'[c] # "closed"
          PROVE  c \in ToSet(pool') \/ \E l \in Callers : Owning(l)' /\ conn'[l] = c
      <4>1. CASE c = Head(pool)
        BY <2>1, <2>2, <4>1
      <4>2. CASE c # Head(pool)
        BY <1>1, <2>1, <2>2, <2>3, <3>1, <4>2 DEF HeldOnce, OpenIsHeld
      <4> QED
        BY <4>1, <4>2
    <3> QED
      BY <3>1 DEF OpenIsHeld
  <2> QED
    BY <2>4, <2>5, <2>6 DEF HeldOnce
<1> QED
  BY <1>2, <1>3 DEF TakeIdle

\* A caller gives up its connection by closing it.
LEMMA CloseKeepsHolders ==
    ASSUME BaseTyped, HeldOnce, NEW k \in Callers, Owning(k), NEW from \in Places,
           NEW to \in {"dial", "release"}, Go(k, from, to),
           Closed(conn[k]), UNCHANGED <<pool, conn>>
    PROVE  HeldOnce'
<1> DEFINE c == conn[k]
<1>1. /\ socket'[c] = "closed" /\ c \in Conns
      /\ \A d \in Conns : d # c => socket'[d] = socket[d]
  BY DEF Closed, BaseTyped
<1>2. ~Owning(k)' /\ \A l \in Callers : l # k => (Owning(l)' <=> Owning(l))
  BY GoTyped DEF Owning, Places
<1>3. ToSet(pool) \subseteq Conns /\ \A l \in Callers : conn[l] \in Conns
  BY LenProperties DEF BaseTyped, ToSet
<1>4. Idle'
  BY <1>1, <1>3 DEF HeldOnce, Idle, Owned
<1>5. Owned'
  BY <1>1, <1>2, <1>3 DEF HeldOnce, Owned
<1>6. OpenIsHeld'
  BY <1>1, <1>2 DEF HeldOnce, OpenIsHeld
<1> QED
  BY <1>4, <1>5, <1>6 DEF HeldOnce

LEMMA DialKeepsHolders ==
    ASSUME BaseTyped, HeldOnce, NEW k \in Callers, Dial(k)
    PROVE  HeldOnce'
<1> USE DEF Places
<1>1. UNCHANGED pool
  BY DEF Dial, channels
<1>2. CASE Go(k, "dial", "giveUp") /\ UNCHANGED <<conn, socket>>
  <2>1. \A l \in Callers : Owning(l)' <=> Owning(l)
    BY <1>2, GoTyped DEF Owning
  <2> QED
    BY <1>1, <1>2, <2>1, HoldersKept
<1>3. ASSUME NEW c \in Unused, Go(k, "dial", "write"),
             conn' = [conn EXCEPT ![k] = c], socket' = [socket EXCEPT ![c] = "open"]
      PROVE  HeldOnce'
  <2>1. /\ ~Owning(k) /\ Owning(k)'
        /\ \A l \in Callers : l # k => (Owning(l)' <=> Owning(l))
    BY <1>3, GoTyped DEF Owning
  <2>2. /\ c \in Conns /\ socket[c] = "closed" /\ socket'[c] = "open" /\ conn'[k] = c
        /\ \A d \in Conns : d # c => socket'[d] = socket[d]
        /\ \A l \in Callers : l # k => conn'[l] = conn[l]
    BY <1>3 DEF Unused, BaseTyped
  <2>3. ToSet(pool) \subseteq Conns /\ \A l \in Callers : conn[l] \in Conns
    BY LenProperties DEF BaseTyped, ToSet
  <2>4. Idle'
    BY <1>1, <2>2, <2>3 DEF HeldOnce, Idle
  <2>5. Owned'
    BY <1>1, <2>1, <2>2, <2>3 DEF HeldOnce, Owned, Idle
  <2>6. OpenIsHeld'
    BY <1>1, <2>1, <2>2 DEF HeldOnce, OpenIsHeld
  <2> QED
    BY <2>4, <2>5, <2>6 DEF HeldOnce
<1> QED
  BY <1>2, <1>3 DEF Dial

LEMMA PutKeepsHolders ==
    ASSUME BaseTyped, HeldOnce, NEW k \in Callers, Put(k)
    PROVE  HeldOnce'
<1> USE DEF Places
<1> DEFINE c == conn[k]
<1>1. Go(k, "put", "release") /\ UNCHANGED conn
  BY DEF Put
<1>2. /\ Owning(k) /\ ~Owning(k)'
      /\ \A l \in Callers : l # k => (Owning(l)' <=> Owning(l))
  BY <1>1, GoTyped DEF Owning
<1>3. CASE ~Reusable(k)
  BY <1>1, <1>2, <1>3, CloseKeepsHolders DEF Put
<1>4. CASE Reusable(k)
  <2>1. pool' = Append(pool, c) /\ UNCHANGED socket
    BY <1>4 DEF Put, Returned
  <2>2. c \in Conns /\ c \notin ToSet(pool) /\ socket[c] # "closed" /\ pool \in Seq(Conns)
    BY <1>2 DEF BaseTyped, HeldOnce, Owned
  <2>3. Distinct(pool') /\ ToSet(pool') = ToSet(pool) \cup {c}
    BY <2>1, <2>2, DistinctAppend DEF HeldOnce, Idle
  <2>4. Idle'
    BY <2>1, <2>2, <2>3 DEF HeldOnce, Idle
  <2>5. Owned'
    BY <1>1, <1>2, <2>1, <2>3 DEF HeldOnce, Owned
  <2>6. OpenIsHeld'
    BY <1>1, <1>2, <2>1, <2>3 DEF HeldOnce, OpenIsHeld
  <2> QED
    BY <2>4, <2>5, <2>6 DEF HeldOnce
<1> QED
  BY <1>3, <1>4

\* A caller goes on with what it has.
LEMMA GoKeepsHolders ==
    ASSUME BaseTyped, HeldOnce, NEW k \in Callers, NEW from \in Places, NEW to \in Places,
           Go(k, from, to), UNCHANGED <<pool, conn, socket>>,
           from \in {"probe", "write", "read", "put"} <=> to \in {"probe", "write", "read", "put"}
    PROVE  HeldOnce'
<1>1. \A l \in Callers : Owning(l)' <=> Owning(l)
  BY GoTyped DEF Owning
<1> QED
  BY <1>1, HoldersKept

LEMMA NextHolders ==
    ASSUME BaseTyped, HeldOnce, [Next]_vars
    PROVE  HeldOnce'
<1> USE DEF Places
<1>1. CASE UNCHANGED <<pool, pc, conn>> /\ \A c \in Conns : socket'[c] = "closed" <=> socket[c] = "closed"
  BY <1>1, HoldersKept DEF Owning
<1>2. CASE Stop
  <2>1. \A c \in Conns : socket'[c] = "closed" <=> socket[c] = "closed"
    BY <1>2 DEF Stop
  <2> QED
    BY <1>1, <1>2, <2>1 DEF Stop, channels, callers
<1>3. CASE UNCHANGED <<pool, pc, conn, socket>>
  BY <1>1, <1>3
<1>4. ASSUME NEW k \in Callers, Begin(k) \/ AcquireActive(k) \/ GiveUp(k) \/ ReleaseActive(k) \/ Record(k)
      PROVE  HeldOnce'
  <2>1. UNCHANGED <<pool, conn, socket>>
    BY <1>4 DEF Begin, AcquireActive, GiveUp, ReleaseActive, Record, network, channels
  <2>2. \/ Go(k, "idle", "acquire") \/ Go(k, "acquire", "take") \/ Go(k, "acquire", "idle")
        \/ Go(k, "giveUp", "idle") \/ Go(k, "release", "record") \/ Go(k, "record", "idle")
    BY <1>4 DEF Begin, AcquireActive, GiveUp, ReleaseActive, Record
  <2> QED
    BY <2>1, <2>2, GoKeepsHolders
<1>5. ASSUME NEW k \in Callers, Write(k) \/ Read(k) PROVE HeldOnce'
  <2>1. UNCHANGED <<pool, conn, socket>>
    BY <1>5 DEF Write, Read, channels
  <2>2. Go(k, "write", "read") \/ Go(k, "write", "put") \/ Go(k, "read", "put")
    BY <1>5 DEF Write, Read
  <2> QED
    BY <2>1, <2>2, GoKeepsHolders
<1>6. ASSUME NEW k \in Callers, pc[k] = "probe", Probe(k) PROVE HeldOnce'
  <2>1. UNCHANGED <<pool, conn>> /\ Owning(k)
    BY <1>6 DEF Probe, channels, Owning
  <2>2. CASE Go(k, "probe", "dial") /\ Closed(conn[k])
    BY <2>1, <2>2, CloseKeepsHolders
  <2>3. CASE Go(k, "probe", "write") /\ UNCHANGED socket
    BY <2>1, <2>3, GoKeepsHolders
  <2> QED
    BY <1>6, <2>2, <2>3 DEF Probe
<1> QED
  BY <1>2, <1>3, <1>4, <1>5, <1>6, TakeIdleKeepsHolders, DialKeepsHolders, PutKeepsHolders
     DEF Next, Work, vars, network, channels, callers, Answer, Start, BreakerExpires

-----------------------------------------------------------------------------
(* Replies *)

RepliesRight == OneReply /\ NothingLeft /\ OwnReply

LEMMA EmptyReplies ==
    ASSUME OneReply, NEW c \in Conns
    PROVE  /\ <<>> \in Seq(Mine) /\ Len(<<>>) = 0
           /\ replies[c] # <<>> => /\ Head(replies[c]) \in Mine
                                  /\ DOMAIN replies[c] = {1} /\ replies[c][1] \in Mine
                                  /\ Len(replies[c]) = 1 /\ Tail(replies[c]) = <<>>
<1>1. <<>> \in Seq(Mine) /\ Len(<<>>) = 0
  OBVIOUS
<1>2. ASSUME replies[c] # <<>>
      PROVE  /\ Head(replies[c]) \in Mine
             /\ DOMAIN replies[c] = {1} /\ replies[c][1] \in Mine
             /\ Len(replies[c]) = 1 /\ Tail(replies[c]) = <<>>
  <2>1. replies[c] \in Seq(Mine) /\ Len(replies[c]) <= 1
    BY DEF OneReply
  <2>2. Len(replies[c]) = 1
    <3>1. \A n \in Nat \ {0} : n <= 1 => n = 1
      OBVIOUS
    <3>2. Len(replies[c]) \in Nat \ {0}
      BY <1>2, <2>1, EmptySeq, Zenon
    <3> QED
      BY <2>1, <3>1, <3>2, Zenon
  <2>3. DOMAIN replies[c] = {1} /\ replies[c][1] \in Mine
    BY <2>1, <2>2, LenProperties
  <2>4. Tail(replies[c]) \in Seq(Mine) /\ Len(Tail(replies[c])) = 0 /\ Head(replies[c]) = replies[c][1]
    BY <1>2, <2>1, <2>2, HeadTailProperties
  <2>5. Tail(replies[c]) = <<>>
    BY <2>4, EmptySeq
  <2>6. Head(replies[c]) \in Mine
    BY <2>3, <2>4
  <2> QED
    BY <2>2, <2>3, <2>5, <2>6
<1> QED
  BY <1>1, <1>2

\* A step of one caller that only takes replies away.
LEMMA FewerReplies ==
    ASSUME BaseTyped, RepliesRight, OneReply', OwnReply', NEW k \in Callers,
           \A c \in Conns : replies'[c] = replies[c] \/ replies'[c] = <<>>,
           \A c \in Conns : socket'[c] = "closed" \/ c \in ToSet(pool') => replies'[c] = <<>>,
           \A l \in Callers : l # k => pc'[l] = pc[l] /\ conn'[l] = conn[l] /\ failing'[l] = failing[l],
           pc'[k] \in {"probe", "write"} \/ (pc'[k] = "put" /\ ~failing'[k])
               => replies'[conn'[k]] = <<>>
    PROVE  RepliesRight'
<1>1. ASSUME NEW l \in Callers,
             pc'[l] \in {"probe", "write"} \/ (pc'[l] = "put" /\ ~failing'[l])
      PROVE  replies'[conn'[l]] = <<>>
  <2>1. CASE l = k
    BY <1>1, <2>1
  <2>2. CASE l # k
    <3>1. replies[conn[l]] = <<>> /\ conn'[l] = conn[l] /\ conn[l] \in Conns
      BY <1>1, <2>2 DEF RepliesRight, NothingLeft, BaseTyped
    <3> QED
      BY <3>1
  <2> QED
    BY <2>1, <2>2
<1> QED
  BY <1>1 DEF RepliesRight, NothingLeft

LEMMA PlainStepReplies ==
    ASSUME BaseTyped, RepliesRight, NEW k \in Callers,
           Begin(k) \/ AcquireActive(k) \/ GiveUp(k) \/ ReleaseActive(k) \/ Record(k)
    PROVE  RepliesRight'
<1> USE DEF Places
<1>1. UNCHANGED <<socket, replies, pool, conn>>
  BY DEF Begin, AcquireActive, GiveUp, ReleaseActive, Record, network, channels
<1>2. pc'[k] \notin {"probe", "write", "put"} /\ \A l \in Callers : l # k => pc'[l] = pc[l]
  BY GoTyped DEF Begin, AcquireActive, GiveUp, ReleaseActive, Record
<1>3. /\ \A l \in Callers : l # k => failing'[l] = failing[l]
      /\ \A l \in Callers : answer'[l] = answer[l] \/ answer'[l] = "none"
  BY DEF Begin, AcquireActive, GiveUp, ReleaseActive, Record, BaseTyped
<1>4. OneReply' /\ OwnReply'
  BY <1>1, <1>3 DEF RepliesRight, OneReply, OwnReply
<1> QED
  BY <1>1, <1>2, <1>3, <1>4, FewerReplies DEF RepliesRight, NothingLeft

LEMMA TakeIdleReplies ==
    ASSUME BaseTyped, RepliesRight, NEW k \in Callers, TakeIdle(k)
    PROVE  RepliesRight'
<1> USE DEF Places
<1>1. UNCHANGED <<socket, replies, failing, answer>>
  BY DEF TakeIdle, network
<1>2. OneReply' /\ OwnReply'
  BY <1>1 DEF RepliesRight, OneReply, OwnReply
<1>3. CASE pool = <<>> /\ Go(k, "take", "dial") /\ UNCHANGED <<pool, conn>>
  <2>1. pc'[k] = "dial" /\ \A l \in Callers : l # k => pc'[l] = pc[l]
    BY <1>3, GoTyped
  <2> QED
    BY <1>1, <1>2, <1>3, <2>1, FewerReplies DEF RepliesRight, NothingLeft
<1>4. CASE /\ pool # <<>> /\ pool' = Tail(pool) /\ conn' = [conn EXCEPT ![k] = Head(pool)]
           /\ Go(k, "take", "probe")
  <2>1. pc'[k] = "probe" /\ \A l \in Callers : l # k => pc'[l] = pc[l]
    BY <1>4, GoTyped
  <2>2. /\ Head(pool) \in ToSet(pool) /\ Head(pool) \in Conns
        /\ ToSet(pool') \subseteq ToSet(pool)
    BY <1>4, TailOfPool DEF BaseTyped
  <2>3. conn'[k] = Head(pool) /\ \A l \in Callers : l # k => conn'[l] = conn[l]
    BY <1>4 DEF BaseTyped
  <2>4. \A c \in Conns : socket[c] = "closed" \/ c \in ToSet(pool) => replies[c] = <<>>
    BY DEF RepliesRight, NothingLeft
  <2> QED
    BY <1>1, <1>2, <2>1, <2>2, <2>3, <2>4, FewerReplies
<1> QED
  BY <1>3, <1>4 DEF TakeIdle

LEMMA ProbeReplies ==
    ASSUME BaseTyped, RepliesRight, NEW k \in Callers, pc[k] = "probe", Probe(k)
    PROVE  RepliesRight'
<1> USE DEF Places
<1> DEFINE c == conn[k]
<1>1. replies[c] = <<>> /\ c \in Conns
  BY DEF RepliesRight, NothingLeft, BaseTyped
<1>2. UNCHANGED <<pool, conn, failing, answer>>
  BY DEF Probe, channels
<1>3. /\ \A l \in Callers : l # k => pc'[l] = pc[l]
      /\ replies' \in [Conns -> Seq(Mine)]
      /\ replies'[c] = <<>>
      /\ \A d \in Conns : d # c => replies'[d] = replies[d] /\ socket'[d] = socket[d]
  <2>1. CASE Go(k, "probe", "dial") /\ Closed(c)
    BY <1>1, <2>1, GoTyped, EmptyReplies DEF Closed, BaseTyped, RepliesRight, OneReply
  <2>2. CASE Go(k, "probe", "write") /\ UNCHANGED <<socket, replies>>
    BY <1>1, <2>2, GoTyped DEF RepliesRight, OneReply
  <2> QED
    BY <1>1, <2>1, <2>2 DEF Probe
<1>4. OneReply' /\ OwnReply'
  BY <1>1, <1>2, <1>3 DEF RepliesRight, OneReply, OwnReply
<1> QED
  BY <1>1, <1>2, <1>3, <1>4, FewerReplies DEF RepliesRight, NothingLeft

LEMMA DialReplies ==
    ASSUME BaseTyped, RepliesRight, NEW k \in Callers, Dial(k)
    PROVE  RepliesRight'
<1> USE DEF Places
<1>1. UNCHANGED <<replies, pool, failing, answer>>
  BY DEF Dial, channels
<1>2. OneReply' /\ OwnReply'
  BY <1>1 DEF RepliesRight, OneReply, OwnReply
<1>3. CASE Go(k, "dial", "giveUp") /\ UNCHANGED <<conn, socket>>
  <2>1. pc'[k] = "giveUp" /\ \A l \in Callers : l # k => pc'[l] = pc[l]
    BY <1>3, GoTyped
  <2> QED
    BY <1>1, <1>2, <1>3, <2>1, FewerReplies DEF RepliesRight, NothingLeft
<1>4. ASSUME NEW c \in Unused, Go(k, "dial", "write"),
             conn' = [conn EXCEPT ![k] = c], socket' = [socket EXCEPT ![c] = "open"]
      PROVE  RepliesRight'
  <2>1. c \in Conns /\ replies[c] = <<>>
    BY <1>4 DEF Unused, RepliesRight, NothingLeft
  <2>2. /\ \A l \in Callers : l # k => pc'[l] = pc[l] /\ conn'[l] = conn[l]
        /\ conn'[k] = c
        /\ \A d \in Conns : socket'[d] = "closed" => socket[d] = "closed"
    BY <1>4, <2>1, GoTyped DEF BaseTyped
  <2> QED
    BY <1>1, <1>2, <2>1, <2>2, FewerReplies DEF RepliesRight, NothingLeft
<1> QED
  BY <1>3, <1>4 DEF Dial

LEMMA ReadReplies ==
    ASSUME BaseTyped, RepliesRight, HeldOnce, NEW k \in Callers, pc[k] = "read", Read(k)
    PROVE  RepliesRight'
<1> USE DEF Places
<1> DEFINE c == conn[k]
           first == Head(replies[c])
<1>1. UNCHANGED <<socket, pool, conn>> /\ c \in Conns
  BY DEF Read, channels, BaseTyped
<1>2. pc'[k] = "put" /\ \A l \in Callers : l # k => pc'[l] = pc[l]
  BY GoTyped DEF Read
<1>3. CASE UNCHANGED replies /\ Finish(k, TRUE, "none")
  <2>1. /\ failing'[k] = TRUE /\ \A l \in Callers : l # k => failing'[l] = failing[l]
        /\ OwnReply'
    BY <1>3 DEF Finish, BaseTyped, RepliesRight, OwnReply
  <2>2. OneReply'
    BY <1>3 DEF RepliesRight, OneReply
  <2> QED
    BY <1>1, <1>2, <1>3, <2>1, <2>2, FewerReplies DEF RepliesRight, NothingLeft
<1>4. CASE /\ replies[c] # <<>> /\ replies' = [replies EXCEPT ![c] = Tail(@)]
           /\ Finish(k, first.kind # "value",
                     IF first.kind # "value" THEN "none" ELSE IF first.mine THEN "own" ELSE "other")
  <2>1. first.mine /\ Tail(replies[c]) = <<>> /\ <<>> \in Seq(Mine) /\ Len(<<>>) = 0
    BY <1>1, <1>4, EmptyReplies DEF RepliesRight, Mine
  <2>2. /\ OneReply' /\ replies'[c] = <<>>
        /\ \A d \in Conns : d # c => replies'[d] = replies[d]
    BY <1>1, <1>4, <2>1 DEF RepliesRight, OneReply
  <2>3. OwnReply' /\ \A l \in Callers : l # k => failing'[l] = failing[l]
    BY <1>4, <2>1 DEF Finish, BaseTyped, RepliesRight, OwnReply
  <2> QED
    BY <1>1, <1>2, <2>2, <2>3, FewerReplies DEF RepliesRight, NothingLeft
<1> QED
  BY <1>3, <1>4 DEF Read

LEMMA PutReplies ==
    ASSUME BaseTyped, RepliesRight, NEW k \in Callers, Put(k)
    PROVE  RepliesRight'
<1> USE DEF Places
<1> DEFINE c == conn[k]
<1>1. UNCHANGED <<conn, failing, answer>> /\ c \in Conns
  BY DEF Put, BaseTyped
<1>2. /\ pc[k] = "put" /\ pc'[k] = "release"
      /\ \A l \in Callers : l # k => pc'[l] = pc[l]
  BY GoTyped DEF Put
<1>3. /\ replies' \in [Conns -> Seq(Mine)] /\ replies'[c] = <<>>
      /\ \A d \in Conns : d # c => replies'[d] = replies[d] /\ socket'[d] = socket[d]
      /\ ToSet(pool') \subseteq ToSet(pool) \cup {c}
  <2>1. CASE Reusable(k)
    <3>1. replies[c] = <<>>
      BY <1>2, <2>1 DEF Reusable, RepliesRight, NothingLeft
    <3>2. /\ replies' = [replies EXCEPT ![c] = [i \in DOMAIN @ |-> [@[i] EXCEPT !.mine = FALSE]]]
          /\ pool' = Append(pool, c) /\ UNCHANGED socket
      BY <2>1 DEF Put, Returned
    <3>3. [i \in DOMAIN <<>> |-> [<<>>[i] EXCEPT !.mine = FALSE]] = <<>>
      OBVIOUS
    <3>4. replies' = [replies EXCEPT ![c] = <<>>]
      BY <3>1, <3>2, <3>3
    <3>5. ToSet(pool') \subseteq ToSet(pool) \cup {c}
      BY <1>1, <3>2, AppendToPool DEF BaseTyped
    <3> QED
      BY <1>1, <3>2, <3>4, <3>5, EmptyReplies DEF RepliesRight, OneReply
  <2>2. CASE ~Reusable(k)
    BY <1>1, <2>2, EmptyReplies DEF Put, Closed, RepliesRight, OneReply, BaseTyped
  <2> QED
    BY <2>1, <2>2
<1>4. OneReply' /\ OwnReply'
  BY <1>1, <1>3, EmptyReplies DEF RepliesRight, OneReply, OwnReply
<1> QED
  BY <1>1, <1>2, <1>3, <1>4, FewerReplies DEF RepliesRight, NothingLeft

\* The only step that adds a reply; its connection is nobody else's.
LEMMA WriteReplies ==
    ASSUME BaseTyped, HeldOnce, RepliesRight, NEW k \in Callers, Write(k)
    PROVE  RepliesRight'
<1> USE DEF Places
<1> DEFINE c == conn[k]
           reply == [mine |-> TRUE, here |-> FALSE, kind |-> "value"]
<1>1. UNCHANGED <<socket, pool, conn>> /\ c \in Conns
  BY DEF Write, channels, BaseTyped
<1>2. pc[k] = "write" /\ replies[c] = <<>>
  <2>1. pc[k] = "write"
    BY GoTyped DEF Write
  <2> QED
    BY <2>1 DEF RepliesRight, NothingLeft
<1>3. /\ c \notin ToSet(pool) /\ socket[c] # "closed"
      /\ \A l \in Callers : l # k /\ Owning(l) => conn[l] # c
  BY <1>2 DEF HeldOnce, Owned, Owning
<1>4. CASE /\ Go(k, "write", "read") /\ UNCHANGED <<failing, answer>>
           /\ replies' = IF socket[c] # "open" THEN replies
                         ELSE [replies EXCEPT ![c] = Append(@, reply)]
  <2>1. pc'[k] = "read" /\ \A l \in Callers : l # k => pc'[l] = pc[l]
    BY <1>4, GoTyped
  <2>2. reply \in Mine
    BY DEF Mine, Reply
  <2>3. Append(<<>>, reply) \in Seq(Mine) /\ Len(Append(<<>>, reply)) = 1
    BY <2>2
  <2>4. OneReply' /\ \A d \in Conns : d # c => replies'[d] = replies[d]
    BY <1>1, <1>2, <1>4, <2>3 DEF RepliesRight, OneReply
  <2>5. NothingLeft'
    <3>1. ASSUME NEW d \in Conns, socket[d] = "closed" \/ d \in ToSet(pool)
          PROVE  replies'[d] = <<>>
      BY <1>3, <2>4, <3>1 DEF RepliesRight, NothingLeft
    <3>2. ASSUME NEW l \in Callers,
                 pc'[l] \in {"probe", "write"} \/ (pc'[l] = "put" /\ ~failing[l])
          PROVE  replies'[conn[l]] = <<>>
      <4>1. /\ l # k /\ pc'[l] = pc[l] /\ conn[l] \in Conns /\ conn[l] # c
            /\ replies[conn[l]] = <<>>
        BY <1>3, <2>1, <3>2 DEF RepliesRight, NothingLeft, Owning, BaseTyped
      <4> QED
        BY <2>4, <4>1
    <3> QED
      BY <1>1, <1>4, <3>1, <3>2 DEF NothingLeft
  <2>6. OwnReply'
    BY <1>4 DEF RepliesRight, OwnReply
  <2> QED
    BY <2>4, <2>5, <2>6 DEF RepliesRight
<1>5. CASE Go(k, "write", "put") /\ Finish(k, TRUE, "none") /\ UNCHANGED replies
  <2>1. pc'[k] = "put" /\ \A l \in Callers : l # k => pc'[l] = pc[l]
    BY <1>5, GoTyped
  <2>2. /\ failing'[k] = TRUE /\ \A l \in Callers : l # k => failing'[l] = failing[l]
        /\ OwnReply'
    BY <1>5 DEF Finish, BaseTyped, RepliesRight, OwnReply
  <2>3. OneReply'
    BY <1>5 DEF RepliesRight, OneReply
  <2> QED
    BY <1>1, <1>5, <2>1, <2>2, <2>3, FewerReplies DEF RepliesRight, NothingLeft
<1> QED
  BY <1>4, <1>5 DEF Write

\* An answer arrives where one is due, which is not between commands.
LEMMA AnswerReplies ==
    ASSUME BaseTyped, RepliesRight, NEW c \in Conns, Answer(c)
    PROVE  RepliesRight'
<1>1. UNCHANGED <<socket, pool, pc, conn, failing, answer>>
  BY DEF Answer, channels, callers
<1>2. PICK i \in Due(c) :
        \/ replies' = [replies EXCEPT ![c][i].here = TRUE]
        \/ replies' = [replies EXCEPT ![c][i] = [@ EXCEPT !.here = TRUE, !.kind = "error"]]
  BY DEF Answer
<1>3. replies \in [Conns -> Seq(Mine)] /\ Len(replies[c]) <= 1 /\ i \in DOMAIN replies[c]
  BY <1>2 DEF RepliesRight, OneReply, Due
<1>4. /\ replies[c] # <<>> /\ replies[c] \in Seq(Mine) /\ replies[c][i] \in Mine
      /\ i \in 1..Len(replies[c])
  BY <1>3, LenProperties
<1>5. PICK r \in Mine : replies' = [replies EXCEPT ![c] = [replies[c] EXCEPT ![i] = r]]
  <2>1. CASE replies' = [replies EXCEPT ![c][i].here = TRUE]
    <3>1. [replies[c][i] EXCEPT !.here = TRUE] \in Mine
      BY <1>4 DEF Mine, Reply
    <3>2. replies' = [replies EXCEPT ![c] = [replies[c] EXCEPT ![i] = [replies[c][i] EXCEPT !.here = TRUE]]]
      BY <1>3, <2>1
    <3> QED
      BY <3>1, <3>2
  <2>2. CASE replies' = [replies EXCEPT ![c][i] = [@ EXCEPT !.here = TRUE, !.kind = "error"]]
    <3>1. [replies[c][i] EXCEPT !.here = TRUE, !.kind = "error"] \in Mine
      BY <1>4 DEF Mine, Reply
    <3>2. replies' = [replies EXCEPT ![c] = [replies[c] EXCEPT ![i] =
                         [replies[c][i] EXCEPT !.here = TRUE, !.kind = "error"]]]
      BY <1>3, <2>2
    <3> QED
      BY <3>1, <3>2
  <2> QED
    BY <1>2, <2>1, <2>2
<1>6. /\ [replies[c] EXCEPT ![i] = r] \in Seq(Mine)
      /\ Len([replies[c] EXCEPT ![i] = r]) = Len(replies[c])
  BY <1>4, ExceptSeq
<1>7. OneReply' /\ \A d \in Conns : d # c => replies'[d] = replies[d]
  BY <1>3, <1>5, <1>6 DEF RepliesRight, OneReply
<1>8. NothingLeft'
  BY <1>1, <1>4, <1>7 DEF RepliesRight, NothingLeft, BaseTyped
<1> QED
  BY <1>1, <1>7, <1>8 DEF RepliesRight, OwnReply

LEMMA ArrivedKeeps ==
    ASSUME OneReply, NEW c \in Conns
    PROVE  Arrived(c) = replies[c] \/ Arrived(c) = <<>>
<1> DEFINE s == replies[c]
<1>1. s \in Seq(Mine)
  BY DEF OneReply
<1>2. CASE s = <<>>
  <2>1. Due(c) = {}
    BY <1>2 DEF Due
  <2>2. Cardinality(Due(c)) = 0
    BY <2>1, FS_EmptySet
  <2>3. Arrived(c) = SubSeq(<<>>, 1, 0)
    BY <1>2, <2>2 DEF Arrived
  <2> QED
    BY <2>3
<1>3. CASE s # <<>>
  <2>1. DOMAIN s = {1} /\ Len(s) = 1
    BY <1>3, EmptyReplies
  <2>2. Due(c) = {} \/ Due(c) = {1}
    BY <2>1 DEF Due
  <2>3. CASE Due(c) = {}
    <3>1. Arrived(c) = SubSeq(s, 1, Len(s))
      BY <2>1, <2>3, FS_EmptySet DEF Arrived
    <3> QED
      BY <1>1, <3>1
  <2>4. CASE Due(c) = {1}
    <3>1. Cardinality({1}) = 1
      BY FS_Singleton
    <3>2. Arrived(c) = SubSeq(s, 1, 0)
      BY <2>1, <2>4, <3>1 DEF Arrived
    <3> QED
      BY <1>1, <3>2
  <2> QED
    BY <2>2, <2>3, <2>4
<1> QED
  BY <1>2, <1>3

LEMMA StopReplies ==
    ASSUME BaseTyped, RepliesRight, Stop
    PROVE  RepliesRight'
<1>1. /\ UNCHANGED <<pool, pc, conn, failing, answer>>
      /\ \A c \in Conns : socket'[c] = "closed" => socket[c] = "closed"
  BY DEF Stop, channels, callers, BaseTyped
<1>2. /\ replies' = [c \in Conns |-> Arrived(c)]
      /\ \A c \in Conns : replies'[c] = replies[c] \/ replies'[c] = <<>>
  BY ArrivedKeeps DEF Stop, RepliesRight
<1>3. OneReply'
  <2>1. ASSUME NEW c \in Conns PROVE replies'[c] \in Seq(Mine) /\ Len(replies'[c]) <= 1
    <3>1. replies'[c] = replies[c] \/ replies'[c] = <<>>
      BY <1>2
    <3>2. replies[c] \in Seq(Mine) /\ Len(replies[c]) <= 1
      BY DEF RepliesRight, OneReply
    <3>3. <<>> \in Seq(Mine) /\ Len(<<>>) <= 1
      OBVIOUS
    <3> QED
      BY <3>1, <3>2, <3>3
  <2> QED
    BY <1>2, <2>1 DEF OneReply
<1>4. NothingLeft'
  BY <1>1, <1>2 DEF RepliesRight, NothingLeft, BaseTyped
<1> QED
  BY <1>1, <1>3, <1>4 DEF RepliesRight, OwnReply

LEMMA NextReplies ==
    ASSUME BaseTyped, HeldOnce, RepliesRight, [Next]_vars
    PROVE  RepliesRight'
<1>1. CASE UNCHANGED <<socket, replies, pool, callers>>
  BY <1>1 DEF RepliesRight, OneReply, NothingLeft, OwnReply, callers
<1>2. CASE Start \/ BreakerExpires \/ UNCHANGED vars
  BY <1>1, <1>2 DEF Start, BreakerExpires, vars, network, channels
<1> QED
  BY <1>2, PlainStepReplies, TakeIdleReplies, ProbeReplies, DialReplies, WriteReplies, ReadReplies,
     PutReplies, AnswerReplies, StopReplies DEF Next, Work

-----------------------------------------------------------------------------
(* Theorems *)

Client == BaseTyped /\ Tokens /\ HeldOnce /\ RepliesRight

LEMMA InitClient == Init => Client
<1> SUFFICES ASSUME Init PROVE Client
  OBVIOUS
<1>1. PICK n \in 1..PoolSize :
        /\ pool = [i \in 1..n |-> i]
        /\ socket = [c \in Conns |-> IF c <= n THEN "open" ELSE "closed"]
  BY DEF Init
<1>2. n \in Nat /\ 1..n \subseteq Conns /\ n <= PoolSize
  BY <1>1, Bounds
<1>3. pool \in Seq(Conns) /\ Len(pool) = n /\ DOMAIN pool = 1..n /\ \A i \in 1..n : pool[i] = i
  BY <1>1, <1>2
<1>4. BaseTyped
  <2>1. socket \in [Conns -> {"open", "closed", "eof", "reset"}]
    BY <1>1
  <2>2. /\ pc \in [Callers -> Places] /\ failing \in [Callers -> BOOLEAN]
        /\ answer \in [Callers -> {"none", "own", "other"}]
    BY DEF Init, Places
  <2>3. conn \in [Callers -> Conns]
    BY Bounds DEF Init
  <2>4. up \in BOOLEAN /\ broken \in BOOLEAN
    BY DEF Init
  <2>5. failures \in 0..FailureLimit
    <3>1. failures = 0
      BY DEF Init
    <3> QED
      BY <3>1, Bounds
  <2> QED
    BY <1>2, <1>3, <2>1, <2>2, <2>3, <2>4, <2>5 DEF BaseTyped
<1>5. Tokens
  <2>1. WithToken = {}
    BY DEF Init, WithToken, Token
  <2> QED
    BY <2>1, FS_EmptySet, Bounds DEF Init, Tokens
<1>6. ToSet(pool) = 1..n
  BY <1>3 DEF ToSet
<1>7. HeldOnce
  <2>1. Distinct(pool)
    BY <1>3 DEF Distinct
  <2>2. \A c \in Conns : socket[c] # "closed" <=> c \in 1..n
    BY <1>1, <1>2, Bounds
  <2>3. \A k \in Callers : ~Owning(k)
    BY DEF Init, Owning
  <2> QED
    BY <1>2, <1>6, <2>1, <2>2, <2>3 DEF HeldOnce, Idle, Owned, OpenIsHeld
<1>8. RepliesRight
  BY DEF Init, RepliesRight, OneReply, NothingLeft, OwnReply
<1> QED
  BY <1>4, <1>5, <1>7, <1>8 DEF Client

LEMMA NextClient == Client /\ [Next]_vars => Client'
  BY NextTyped, NextTokens, NextHolders, NextReplies DEF Client

LEMMA ClientHolds == Spec => []Client
  BY InitClient, NextClient, PTL DEF Spec

LEMMA OneElement ==
    ASSUME NEW S, S # {}, \A x, y \in S : x = y
    PROVE  Cardinality(S) = 1
<1>1. PICK x : S = {x}
  OBVIOUS
<1> QED
  BY <1>1, FS_Singleton

LEMMA ClientLeaksNothing == Client => NothingLeaked
<1> SUFFICES ASSUME Client PROVE NothingLeaked
  OBVIOUS
<1>1. TypeOK
  <2>1. replies \in [Conns -> Seq(Reply)]
    <3>1. replies \in [Conns -> Seq(Mine)]
      BY DEF Client, RepliesRight, OneReply
    <3>2. Seq(Mine) \subseteq Seq(Reply)
      BY DEF Mine
    <3> QED
      BY <3>1, <3>2
  <2> QED
    BY <2>1 DEF Client, TypeOK, BaseTyped, Tokens, Places
<1>2. ASSUME NEW c \in Conns
      PROVE  Cardinality({i \in DOMAIN pool : pool[i] = c})
                + Cardinality({k \in Callers : Owning(k) /\ conn[k] = c})
                    = IF socket[c] = "closed" THEN 0 ELSE 1
  <2> DEFINE idle == {i \in DOMAIN pool : pool[i] = c}
             users == {k \in Callers : Owning(k) /\ conn[k] = c}
  <2>1. \A i, j \in idle : i = j
    BY DEF Client, HeldOnce, Idle, Distinct
  <2>2. \A k, l \in users : k = l
    BY DEF Client, HeldOnce, Owned
  <2>3. idle # {} <=> c \in ToSet(pool)
    BY DEF ToSet
  <2>4. socket[c] = "closed" => idle = {} /\ users = {}
    BY <2>3 DEF Client, HeldOnce, Idle, Owned
  <2>5. socket[c] # "closed" => (idle # {} /\ users = {}) \/ (idle = {} /\ users # {})
    BY <2>3 DEF Client, HeldOnce, Owned, OpenIsHeld
  <2> HIDE DEF idle, users
  <2>6. Cardinality({}) = 0
    BY FS_EmptySet
  <2>7. idle # {} => Cardinality(idle) = 1
    BY <2>1, OneElement
  <2>8. users # {} => Cardinality(users) = 1
    BY <2>2, OneElement
  <2>9. Cardinality(idle) + Cardinality(users) = IF socket[c] = "closed" THEN 0 ELSE 1
    BY <2>4, <2>5, <2>6, <2>7, <2>8
  <2> QED
    BY <2>9 DEF idle, users
<1>3. active = Cardinality({k \in Callers : Token(k)})
  BY DEF Client, Tokens, WithToken
<1> QED
  BY <1>1, <1>2, <1>3 DEF NothingLeaked

\* Every way out of getConn, execute and putConn gives back what it took: there
\* are as many tokens out as commands under way, and each open connection is in
\* the pool or with one caller, however many callers and connections there are.
THEOREM NothingIsLeaked == Spec => []NothingLeaked
  BY ClientHolds, ClientLeaksNothing, PTL

\* A command gets its own reply or an error: execute puts a connection back only
\* when the reply to what it wrote has been read.
THEOREM RepliesAreOwn == Spec => []OwnReply
<1>1. Client => OwnReply
  BY DEF Client, RepliesRight
<1> QED
  BY <1>1, ClientHolds, PTL
================================================================================
