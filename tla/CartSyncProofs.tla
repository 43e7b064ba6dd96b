---------------------------- MODULE CartSyncProofs ----------------------------
(***************************************************************************)
(* The theorems about CartSync, for any countries, stores, lines and       *)
(* bounds.                                                                 *)
(***************************************************************************)
EXTENDS CartSync, SequenceTheorems, FiniteSetTheorems, TLAPS

Methods == {"upsert", "update", "remove", "clear", "load"}

Call ==
    [n : 1..MaxCalls, phase : {"sent", "found", "written", "reply"}, found : Nat,
     rows : Seq(Row), method : Methods, country : Countries, store : Stores, line : Lines,
     quantity : Nat, item : Nat, setsStore : BOOLEAN]

CallsTyped ==
    \A c \in calls :
        /\ c \in Call
        /\ c.method \in {"upsert", "update"} => c.quantity \in 1..MaxQuantity
        /\ c.method = "upsert" => c.item = 0

\* The server has one row for a product with its options in a store, which is all
\* that UPDATE and INSERT decide by.
SingleRows(rows) ==
    \A i, j \in DOMAIN rows :
        \/ rows[i].id = rows[j].id
        \/ rows[i].store = rows[j].store /\ rows[i].line = rows[j].line
        => i = j

\* What a request has found is still so when it writes: nobody else is about to
\* insert that line.
FoundAlone ==
    \A c \in calls : c.phase = "found" =>
        /\ \A d \in calls : d.phase = "found" /\ SameLine(c, d) => c = d
        /\ c.found = 0 => RowFor(server[c.country], c) = 0

RowsAreSingle ==
    ~raced =>
        /\ \A k \in Countries : /\ SingleRows(server[k])
                                /\ \A i \in DOMAIN server[k] : server[k][i].id < nextId
        /\ \A c \in calls : SingleRows(c.rows)
        /\ FoundAlone

\* Until another store is chosen there is none but the first.
InHomeStore(rows) == \A i \in DOMAIN rows : rows[i].store = HomeStore

OneStore ==
    ~moved => /\ store = HomeStore
              /\ \A c \in calls : c.store = HomeStore
              /\ ~raced => /\ \A c \in calls : InHomeStore(c.rows)
                           /\ \A k \in Countries : InHomeStore(server[k])

\* What a list and rows say, but for the ids.
Pairs(s) == {<<s[i].line, s[i].quantity>> : i \in DOMAIN s}

\* The request with the row its SELECT finds in these rows.
Finds(rows, c) == IF RowFor(rows, c) = 0 THEN 0 ELSE rows[RowFor(rows, c)].id
Looked(rows, c) == [c EXCEPT !.found = Finds(rows, c)]

\* A request under way, alone: the list is what it makes of the server's rows,
\* or has made of them.
Pending(c) ==
    /\ c.country = country
    /\ c.phase = "reply" => c.rows = server[country]
    /\ c.method # "load" =>
          IF c.phase \in {"written", "reply"} THEN Pairs(items) = Pairs(server[country])
          ELSE /\ c.method \in {"update", "remove"} => RowOf(server[country], c.item) # 0
               /\ c.phase = "found" => c.found = Finds(server[country], c)
               /\ Pairs(items) = Pairs(Handled(server[country], Looked(server[country], c)))

AgreesWith(rows) ==
    /\ \A i \in DOMAIN items : \E j \in DOMAIN rows : items[i] = Loaded(rows)[j]
    /\ \A j \in DOMAIN rows : \E i \in DOMAIN items : items[i] = Loaded(rows)[j]

Quiet ==
    ~overlap /\ ~moved /\ lost = 0 =>
        /\ ~raced
        /\ \/ calls = {} /\ AgreesWith(server[country])
           \/ \E c \in calls : calls = {c} /\ Pending(c)

LinesInv == TypeOK /\ CallsTyped /\ RowsAreSingle /\ OneStore /\ LinesDistinct

SyncInv == LinesInv /\ Quiet

-----------------------------------------------------------------------------
(* Sequences *)

\* What SelectInSeq returns, I being where the test holds.
FirstOf(I) == IF I # {} THEN Min(I) ELSE 0

LEMMA FirstFound ==
    ASSUME NEW n \in Nat, NEW I \in SUBSET (1..n)
    PROVE  /\ FirstOf(I) \in 0..n
           /\ FirstOf(I) = 0 <=> I = {}
           /\ FirstOf(I) # 0 => FirstOf(I) \in I
<1>1. CASE I = {}
  BY <1>1 DEF FirstOf
<1>2. CASE I # {}
  <2> DEFINE less == {p \in Nat \X Nat : p[1] < p[2]}
  <2>1. IsWellFoundedOn(less, Nat)
    BY NatLessThanWellFounded DEF OpToRel
  <2>2. I \subseteq Nat
    OBVIOUS
  <2>3. PICK x \in I : \A y \in I : ~(<<y, x>> \in less)
    <3> HIDE DEF less
    <3> QED
      BY <1>2, <2>1, <2>2, WFMin, Zenon
  <2>4. \A y \in I : ~(y < x)
    BY <2>2, <2>3
  <2>5. \A y \in I : x =< y
    BY <2>2, <2>4
  <2>6. Min(I) \in I
    BY <2>5 DEF Min
  <2>7. FirstOf(I) \in I
    BY <1>2, <2>6 DEF FirstOf
  <2>8. I \subseteq 0..n /\ 0 \notin I
    OBVIOUS
  <2> QED
    BY <1>2, <2>7, <2>8, Zenon
<1> QED
  BY <1>1, <1>2

LEMMA AtFound ==
    ASSUME NEW S, NEW seq \in Seq(S), NEW line
    PROVE  /\ At(seq, line) \in 0..Len(seq)
           /\ At(seq, line) = 0 <=> \A i \in DOMAIN seq : seq[i].line # line
           /\ At(seq, line) # 0 => At(seq, line) \in DOMAIN seq /\ seq[At(seq, line)].line = line
<1> DEFINE I == {i \in 1..Len(seq) : seq[i].line = line}
<1>1. At(seq, line) = FirstOf(I)
  BY DEF At, SelectInSeq, FirstOf
<1>2. Len(seq) \in Nat /\ DOMAIN seq = 1..Len(seq) /\ I \in SUBSET (1..Len(seq))
  BY LenProperties
<1>3. /\ FirstOf(I) \in 0..Len(seq)
      /\ FirstOf(I) = 0 <=> I = {}
      /\ FirstOf(I) # 0 => FirstOf(I) \in I
  BY <1>2, FirstFound
<1> QED
  BY <1>1, <1>2, <1>3

LEMMA EditedFound ==
    ASSUME NEW S, NEW seq \in Seq(S), NEW x
    PROVE  LET found == SelectInSeq(seq, LAMBDA e : e = x) IN
           /\ found \in 0..Len(seq)
           /\ found = 0 <=> \A i \in DOMAIN seq : seq[i] # x
           /\ found # 0 => found \in DOMAIN seq /\ seq[found] = x
<1> DEFINE I == {i \in 1..Len(seq) : seq[i] = x}
<1>1. SelectInSeq(seq, LAMBDA e : e = x) = FirstOf(I)
  BY DEF SelectInSeq, FirstOf
<1>2. Len(seq) \in Nat /\ DOMAIN seq = 1..Len(seq) /\ I \in SUBSET (1..Len(seq))
  BY LenProperties
<1>3. /\ FirstOf(I) \in 0..Len(seq)
      /\ FirstOf(I) = 0 <=> I = {}
      /\ FirstOf(I) # 0 => FirstOf(I) \in I
  BY <1>2, FirstFound
<1> QED
  BY <1>1, <1>2, <1>3

LEMMA RowOfFound ==
    ASSUME NEW S, NEW rows \in Seq(S), NEW id
    PROVE  /\ RowOf(rows, id) \in 0..Len(rows)
           /\ RowOf(rows, id) = 0 <=> \A i \in DOMAIN rows : rows[i].id # id
           /\ RowOf(rows, id) # 0 => /\ RowOf(rows, id) \in DOMAIN rows
                                     /\ rows[RowOf(rows, id)].id = id
<1> DEFINE I == {i \in 1..Len(rows) : rows[i].id = id}
<1>1. RowOf(rows, id) = FirstOf(I)
  BY DEF RowOf, SelectInSeq, FirstOf
<1>2. Len(rows) \in Nat /\ DOMAIN rows = 1..Len(rows) /\ I \in SUBSET (1..Len(rows))
  BY LenProperties
<1>3. /\ FirstOf(I) \in 0..Len(rows)
      /\ FirstOf(I) = 0 <=> I = {}
      /\ FirstOf(I) # 0 => FirstOf(I) \in I
  BY <1>2, FirstFound
<1> QED
  BY <1>1, <1>2, <1>3

LEMMA RowForFound ==
    ASSUME NEW S, NEW rows \in Seq(S), NEW c
    PROVE  LET found == RowFor(rows, c)
               Fits(a) == a.store = c.store /\ a.line = c.line /\ a.id # c.item IN
           /\ found \in 0..Len(rows)
           /\ found = 0 <=> \A i \in DOMAIN rows : ~Fits(rows[i])
           /\ found # 0 => found \in DOMAIN rows /\ Fits(rows[found])
<1> DEFINE I == {i \in 1..Len(rows) :
                    rows[i].store = c.store /\ rows[i].line = c.line /\ rows[i].id # c.item}
<1>1. RowFor(rows, c) = FirstOf(I)
  BY DEF RowFor, SelectInSeq, FirstOf
<1>2. Len(rows) \in Nat /\ DOMAIN rows = 1..Len(rows) /\ I \in SUBSET (1..Len(rows))
  BY LenProperties
<1>3. /\ FirstOf(I) \in 0..Len(rows)
      /\ FirstOf(I) = 0 <=> I = {}
      /\ FirstOf(I) # 0 => FirstOf(I) \in I
  BY <1>2, FirstFound
<1> QED
  BY <1>1, <1>2, <1>3

LEMMA WithoutOne ==
    ASSUME NEW S, NEW s \in Seq(S), NEW i \in 1..Len(s)
    PROVE  /\ RemoveAt(s, i) \in Seq(S)
           /\ Len(RemoveAt(s, i)) = Len(s) - 1
           /\ \A j \in 1..Len(s) - 1 : RemoveAt(s, i)[j] = IF j < i THEN s[j] ELSE s[j + 1]
<1> DEFINE a == SubSeq(s, 1, i - 1)
           b == SubSeq(s, i + 1, Len(s))
<1>0. Len(s) \in Nat /\ \A j \in 1..Len(s) : s[j] \in S
  BY LenProperties, ElementOfSeq
<1>1. a \in Seq(S) /\ Len(a) = i - 1 /\ \A j \in 1..i - 1 : a[j] = s[j]
  <2>1. /\ a \in Seq(S) /\ Len(a) = IF 1 <= i - 1 THEN i - 1 - 1 + 1 ELSE 0
        /\ \A j \in 1..(i - 1) - 1 + 1 : a[j] = s[1 + j - 1]
    <3>1. 1 \in Int /\ i - 1 \in Int /\ \A j \in 1..i - 1 : s[j] \in S
      BY <1>0
    <3> QED
      BY <3>1, SubSeqProperties
  <2> QED
    BY <1>0, <2>1
<1>2. b \in Seq(S) /\ Len(b) = Len(s) - i /\ \A j \in 1..Len(s) - i : b[j] = s[i + j]
  <2>1. /\ b \in Seq(S) /\ Len(b) = IF i + 1 <= Len(s) THEN Len(s) - (i + 1) + 1 ELSE 0
        /\ \A j \in 1..Len(s) - (i + 1) + 1 : b[j] = s[i + 1 + j - 1]
    <3>1. i + 1 \in Int /\ Len(s) \in Int /\ \A j \in i + 1..Len(s) : s[j] \in S
      BY <1>0
    <3> QED
      BY <3>1, SubSeqProperties
  <2> QED
    BY <1>0, <2>1
<1>3. RemoveAt(s, i) = a \o b
  BY DEF RemoveAt
<1> HIDE DEF a, b
<1>4. /\ a \o b \in Seq(S) /\ Len(a \o b) = Len(a) + Len(b)
      /\ \A j \in 1..Len(a) + Len(b) : (a \o b)[j] = IF j <= Len(a) THEN a[j] ELSE b[j - Len(a)]
  BY <1>1, <1>2, ConcatProperties
<1>5. Len(a) + Len(b) = Len(s) - 1
  BY <1>0, <1>1, <1>2
<1>6. \A j \in 1..Len(s) - 1 : (a \o b)[j] = IF j < i THEN s[j] ELSE s[j + 1]
  <2> TAKE j \in 1..Len(s) - 1
  <2>1. CASE j < i
    <3>1. j \in 1..i - 1 /\ j \in 1..Len(a) + Len(b) /\ j <= Len(a)
      BY <1>0, <1>1, <1>5, <2>1
    <3> QED
      BY <1>1, <1>4, <2>1, <3>1
  <2>2. CASE ~(j < i)
    <3>1. /\ j \in 1..Len(a) + Len(b) /\ ~(j <= Len(a)) /\ j - Len(a) \in 1..Len(s) - i
          /\ i + (j - Len(a)) = j + 1
      BY <1>0, <1>1, <1>5, <2>2
    <3>2. (a \o b)[j] = b[j - Len(a)] /\ b[j - Len(a)] = s[i + (j - Len(a))]
      BY <1>2, <1>4, <3>1
    <3> QED
      BY <2>2, <3>1, <3>2
  <2> QED
    BY <2>1, <2>2
<1> QED
  BY <1>3, <1>4, <1>5, <1>6

LEMMA WithOne ==
    ASSUME NEW S, NEW s \in Seq(S), NEW i \in 1..Len(s) + 1, NEW x \in S
    PROVE  /\ InsertAt(s, i, x) \in Seq(S)
           /\ Len(InsertAt(s, i, x)) = Len(s) + 1
           /\ \A j \in 1..Len(s) + 1 :
                 InsertAt(s, i, x)[j] = IF j < i THEN s[j] ELSE IF j = i THEN x ELSE s[j - 1]
<1> DEFINE a == SubSeq(s, 1, i - 1)
           b == SubSeq(s, i, Len(s))
<1>0. Len(s) \in Nat /\ \A j \in 1..Len(s) : s[j] \in S
  BY LenProperties, ElementOfSeq
<1>1. a \in Seq(S) /\ Len(a) = i - 1 /\ \A j \in 1..i - 1 : a[j] = s[j]
  <2>1. /\ a \in Seq(S) /\ Len(a) = IF 1 <= i - 1 THEN i - 1 - 1 + 1 ELSE 0
        /\ \A j \in 1..(i - 1) - 1 + 1 : a[j] = s[1 + j - 1]
    <3>1. 1 \in Int /\ i - 1 \in Int /\ \A j \in 1..i - 1 : s[j] \in S
      BY <1>0
    <3> QED
      BY <3>1, SubSeqProperties
  <2> QED
    BY <1>0, <2>1
<1>2. b \in Seq(S) /\ Len(b) = Len(s) - i + 1 /\ \A j \in 1..Len(s) - i + 1 : b[j] = s[i + j - 1]
  <2>1. /\ b \in Seq(S) /\ Len(b) = IF i <= Len(s) THEN Len(s) - i + 1 ELSE 0
        /\ \A j \in 1..Len(s) - i + 1 : b[j] = s[i + j - 1]
    <3>1. i \in Int /\ Len(s) \in Int /\ \A j \in i..Len(s) : s[j] \in S
      BY <1>0
    <3> QED
      BY <3>1, SubSeqProperties
  <2> QED
    BY <1>0, <2>1
<1>3. InsertAt(s, i, x) = a \o <<x>> \o b /\ <<x>> \in Seq(S) /\ Len(<<x>>) = 1 /\ <<x>>[1] = x
  BY DEF InsertAt
<1> HIDE DEF a, b
<1>4. /\ a \o <<x>> \in Seq(S) /\ Len(a \o <<x>>) = Len(a) + 1
      /\ \A j \in 1..Len(a) + 1 : (a \o <<x>>)[j] = IF j <= Len(a) THEN a[j] ELSE <<x>>[j - Len(a)]
  BY <1>1, <1>3, ConcatProperties
<1>5. \A j \in 1..i : (a \o <<x>>)[j] = IF j < i THEN s[j] ELSE x
  BY <1>0, <1>1, <1>3, <1>4
<1> DEFINE d == a \o <<x>>
<1> HIDE DEF d
<1>6. d \in Seq(S) /\ Len(d) = i /\ \A j \in 1..i : d[j] = IF j < i THEN s[j] ELSE x
  BY <1>0, <1>1, <1>4, <1>5 DEF d
<1>7. /\ d \o b \in Seq(S) /\ Len(d \o b) = Len(d) + Len(b)
      /\ \A j \in 1..Len(d) + Len(b) : (d \o b)[j] = IF j <= Len(d) THEN d[j] ELSE b[j - Len(d)]
  BY <1>2, <1>6, ConcatProperties
<1>8. InsertAt(s, i, x) = d \o b
  BY <1>3 DEF d
<1> QED
  BY <1>0, <1>2, <1>6, <1>7, <1>8

-----------------------------------------------------------------------------
(* Lists as sets of lines with quantities *)

Drop(pairs, l) == {p \in pairs : p[1] # l}
Put(pairs, l, q) == Drop(pairs, l) \cup {<<l, q>>}

Single(s) == \A i, j \in DOMAIN s : s[i].line = s[j].line => i = j

LEMMA PairsPut ==
    ASSUME NEW s, NEW t, NEW i, Single(s), DOMAIN t = DOMAIN s \cup {i},
           \A j \in DOMAIN s \ {i} : t[j].line = s[j].line /\ t[j].quantity = s[j].quantity,
           \A j \in DOMAIN s : s[j].line = t[i].line <=> j = i
    PROVE  /\ Single(t)
           /\ Pairs(t) = Put(Pairs(s), t[i].line, t[i].quantity)
<1>1. Single(t)
  BY DEF Single
<1>2. \A j \in DOMAIN s \ {i} : s[j].line # t[i].line
  OBVIOUS
<1>3. Pairs(t) = {<<t[j].line, t[j].quantity>> : j \in DOMAIN s \ {i}}
                     \cup {<<t[i].line, t[i].quantity>>}
  BY DEF Pairs
<1>4. {<<t[j].line, t[j].quantity>> : j \in DOMAIN s \ {i}} = Drop(Pairs(s), t[i].line)
  BY <1>2 DEF Pairs, Drop
<1> QED
  BY <1>1, <1>3, <1>4 DEF Put

LEMMA PairsWithout ==
    ASSUME NEW S, NEW s \in Seq(S), NEW i \in 1..Len(s)
    PROVE  /\ DOMAIN RemoveAt(s, i) = 1..Len(s) - 1
           /\ \A j \in 1..Len(s) - 1 : \E k \in 1..Len(s) : k # i /\ RemoveAt(s, i)[j] = s[k]
           /\ Single(s) => /\ Single(RemoveAt(s, i))
                           /\ Pairs(RemoveAt(s, i)) = Drop(Pairs(s), s[i].line)
           /\ Single(s) => \A j \in DOMAIN RemoveAt(s, i) : RemoveAt(s, i)[j].line # s[i].line
<1> DEFINE t == RemoveAt(s, i)
<1>0. Len(s) \in Nat /\ DOMAIN s = 1..Len(s)
  BY LenProperties
<1>1. DOMAIN t = 1..Len(s) - 1 /\ \A j \in 1..Len(s) - 1 : t[j] = IF j < i THEN s[j] ELSE s[j + 1]
  BY WithoutOne, LenProperties
<1> HIDE DEF t
<1>2. \A j \in 1..Len(s) - 1 : \E k \in 1..Len(s) : k # i /\ t[j] = s[k]
  <2> TAKE j \in 1..Len(s) - 1
  <2>1. CASE j < i
    BY <1>0, <1>1, <2>1
  <2>2. CASE ~(j < i)
    <3>1. j + 1 \in 1..Len(s) /\ j + 1 # i /\ t[j] = s[j + 1]
      BY <1>0, <1>1, <2>2
    <3> QED
      BY <3>1
  <2> QED
    BY <2>1, <2>2
<1>3. \A k \in 1..Len(s) : k # i => \E j \in 1..Len(s) - 1 : t[j] = s[k]
  <2> TAKE k \in 1..Len(s)
  <2> HAVE k # i
  <2>1. CASE k < i
    <3>1. k \in 1..Len(s) - 1 /\ t[k] = s[k]
      BY <1>0, <1>1, <2>1
    <3> QED
      BY <3>1
  <2>2. CASE ~(k < i)
    <3>1. k - 1 \in 1..Len(s) - 1 /\ ~(k - 1 < i) /\ k - 1 + 1 = k
      BY <1>0, <2>2
    <3>2. t[k - 1] = s[k]
      BY <1>1, <3>1
    <3> QED
      BY <3>1, <3>2
  <2> QED
    BY <2>1, <2>2
<1>4. ASSUME Single(s)
      PROVE  /\ Single(t) /\ Pairs(t) = Drop(Pairs(s), s[i].line)
             /\ \A j \in DOMAIN t : t[j].line # s[i].line
  <2>1. \A j \in DOMAIN t : t[j].line # s[i].line
    BY <1>0, <1>1, <1>2, <1>4 DEF Single
  <2>2. Single(t)
    <3> SUFFICES ASSUME NEW j \in 1..Len(s) - 1, NEW k \in 1..Len(s) - 1, t[j].line = t[k].line
                 PROVE  j = k
      BY <1>1 DEF Single
    <3> DEFINE at(x) == IF x < i THEN x ELSE x + 1
    <3>1. \A x \in 1..Len(s) - 1 : at(x) \in 1..Len(s) /\ t[x] = s[at(x)]
      BY <1>0, <1>1
    <3>2. at(j) = at(k)
      <4> HIDE DEF at
      <4> QED
        BY <1>0, <1>4, <3>1 DEF Single
    <3> QED
      BY <1>0, <3>2
  <2>3. Pairs(t) \subseteq Drop(Pairs(s), s[i].line)
    BY <1>0, <1>1, <1>2, <2>1 DEF Pairs, Drop
  <2>4. Drop(Pairs(s), s[i].line) \subseteq Pairs(t)
    <3> SUFFICES ASSUME NEW k \in 1..Len(s), s[k].line # s[i].line
                 PROVE  <<s[k].line, s[k].quantity>> \in Pairs(t)
      BY <1>0 DEF Pairs, Drop
    <3>1. PICK j \in 1..Len(s) - 1 : t[j] = s[k]
      BY <1>3
    <3> QED
      BY <1>1, <3>1 DEF Pairs
  <2> QED
    BY <2>1, <2>2, <2>3, <2>4
<1> QED
  BY <1>1, <1>2, <1>4 DEF t

LEMMA PairsWith ==
    ASSUME NEW S, NEW s \in Seq(S), NEW i \in 1..Len(s) + 1, NEW x \in S
    PROVE  LET t == InsertAt(s, i, x) IN
           /\ \A j \in DOMAIN t : t[j] = x \/ \E k \in 1..Len(s) : t[j] = s[k]
           /\ Single(s) /\ (\A k \in DOMAIN s : s[k].line # x.line) =>
                 /\ Single(t)
                 /\ Pairs(t) = Put(Pairs(s), x.line, x.quantity)
<1> DEFINE t == InsertAt(s, i, x)
<1>0. Len(s) \in Nat /\ DOMAIN s = 1..Len(s)
  BY LenProperties
<1>1. /\ DOMAIN t = 1..Len(s) + 1
      /\ \A j \in 1..Len(s) + 1 : t[j] = IF j < i THEN s[j] ELSE IF j = i THEN x ELSE s[j - 1]
  <2>1. /\ t \in Seq(S) /\ Len(t) = Len(s) + 1
        /\ \A j \in 1..Len(s) + 1 : t[j] = IF j < i THEN s[j] ELSE IF j = i THEN x ELSE s[j - 1]
    BY WithOne
  <2> HIDE DEF t
  <2>2. DOMAIN t = 1..Len(t)
    BY <2>1, LenProperties
  <2> QED
    BY <2>1, <2>2
<1> HIDE DEF t
<1> DEFINE at(y) == IF y < i THEN y ELSE y - 1
<1>2. \A j \in 1..Len(s) + 1 : j # i => at(j) \in 1..Len(s) /\ t[j] = s[at(j)]
  BY <1>0, <1>1
<1>3. \A j, k \in 1..Len(s) + 1 : j # i /\ k # i /\ at(j) = at(k) => j = k
  BY <1>0
<1>4. \A k \in 1..Len(s) : \E j \in 1..Len(s) + 1 : j # i /\ at(j) = k
  <2> TAKE k \in 1..Len(s)
  <2>1. CASE k < i
    <3>1. k \in 1..Len(s) + 1 /\ k # i /\ at(k) = k
      BY <1>0, <2>1
    <3> QED
      BY <3>1
  <2>2. CASE ~(k < i)
    <3>1. k + 1 \in 1..Len(s) + 1 /\ k + 1 # i /\ at(k + 1) = k
      BY <1>0, <2>2
    <3> QED
      BY <3>1
  <2> QED
    BY <2>1, <2>2
<1> HIDE DEF at
<1>5. t[i] = x
  BY <1>0, <1>1
<1>6. \A j \in DOMAIN t : t[j] = x \/ \E k \in 1..Len(s) : t[j] = s[k]
  BY <1>1, <1>2, <1>5
<1>7. ASSUME Single(s), \A k \in DOMAIN s : s[k].line # x.line
      PROVE  Single(t) /\ Pairs(t) = Put(Pairs(s), x.line, x.quantity)
  <2>1. Single(t)
    <3> SUFFICES ASSUME NEW j \in 1..Len(s) + 1, NEW k \in 1..Len(s) + 1, t[j].line = t[k].line
                 PROVE  j = k
      BY <1>1 DEF Single
    <3>1. CASE j # i /\ k # i
      <4>1. at(j) = at(k)
        BY <1>0, <1>2, <1>7, <3>1 DEF Single
      <4> QED
        BY <1>3, <3>1, <4>1
    <3>2. CASE j = i \/ k = i
      BY <1>0, <1>2, <1>5, <1>7, <3>2
    <3> QED
      BY <3>1, <3>2
  <2>2. \A p : p \in Pairs(t) => p \in Put(Pairs(s), x.line, x.quantity)
    <3> SUFFICES ASSUME NEW j \in 1..Len(s) + 1
                 PROVE  <<t[j].line, t[j].quantity>> \in Put(Pairs(s), x.line, x.quantity)
      BY <1>1 DEF Pairs
    <3> QED
      BY <1>0, <1>2, <1>5, <1>7 DEF Pairs, Put, Drop
  <2>3. \A p : p \in Put(Pairs(s), x.line, x.quantity) => p \in Pairs(t)
    <3>1. <<x.line, x.quantity>> \in Pairs(t)
      BY <1>1, <1>5 DEF Pairs
    <3>2. ASSUME NEW k \in 1..Len(s)
          PROVE  <<s[k].line, s[k].quantity>> \in Pairs(t)
      <4>1. PICK j \in 1..Len(s) + 1 : j # i /\ at(j) = k
        BY <1>4
      <4>2. t[j] = s[k]
        BY <1>2, <4>1
      <4> QED
        BY <1>1, <4>2 DEF Pairs
    <3> QED
      BY <1>0, <3>1, <3>2 DEF Pairs, Put, Drop
  <2> QED
    BY <2>1, <2>2, <2>3
<1> QED
  BY <1>6, <1>7 DEF t

LEMMA PairsMoved ==
    ASSUME NEW s, NEW t, NEW i \in DOMAIN s, Single(s), DOMAIN t = DOMAIN s,
           \A j \in DOMAIN s \ {i} : t[j].line = s[j].line /\ t[j].quantity = s[j].quantity,
           \A j \in DOMAIN s \ {i} : s[j].line # t[i].line
    PROVE  /\ Single(t)
           /\ Pairs(t) = Put(Drop(Pairs(s), s[i].line), t[i].line, t[i].quantity)
<1>1. Single(t)
  BY DEF Single
<1>2. Pairs(t) = {<<t[j].line, t[j].quantity>> : j \in DOMAIN s \ {i}}
                     \cup {<<t[i].line, t[i].quantity>>}
  BY DEF Pairs
<1>3. \A j \in DOMAIN s \ {i} : s[j].line # s[i].line
  BY DEF Single
<1>4. {<<t[j].line, t[j].quantity>> : j \in DOMAIN s \ {i}}
          = Drop(Drop(Pairs(s), s[i].line), t[i].line)
  BY <1>3 DEF Pairs, Drop
<1> QED
  BY <1>1, <1>2, <1>4 DEF Put

-----------------------------------------------------------------------------
(* The server *)

LEMMA SingleWithout ==
    ASSUME NEW S, NEW rows \in Seq(S), SingleRows(rows), NEW i \in 1..Len(rows)
    PROVE  SingleRows(RemoveAt(rows, i))
<1> DEFINE t == RemoveAt(rows, i)
           at(x) == IF x < i THEN x ELSE x + 1
<1>0. Len(rows) \in Nat /\ DOMAIN rows = 1..Len(rows)
  BY LenProperties
<1>1. /\ DOMAIN t = 1..Len(rows) - 1
      /\ \A j \in 1..Len(rows) - 1 : t[j] = IF j < i THEN rows[j] ELSE rows[j + 1]
  BY WithoutOne, LenProperties
<1> HIDE DEF t
<1>2. \A x \in 1..Len(rows) - 1 : at(x) \in DOMAIN rows /\ t[x] = rows[at(x)]
  BY <1>0, <1>1
<1>3. \A j, k \in 1..Len(rows) - 1 : at(j) = at(k) => j = k
  BY <1>0
<1> HIDE DEF at
<1>4. SingleRows(t)
  BY <1>1, <1>2, <1>3 DEF SingleRows
<1> QED
  BY <1>4 DEF t

LEMMA HomeRowsAreSingle ==
    ASSUME NEW rows, SingleRows(rows), InHomeStore(rows)
    PROVE  Single(rows)
  BY DEF SingleRows, InHomeStore, Single

\* The rows of a country, in the order of their creation.
RowsOf(rows) ==
    /\ rows \in Seq(Row) /\ SingleRows(rows)
    /\ \A j \in DOMAIN rows : rows[j].id < nextId

LEMMA RequantifiedRows ==
    ASSUME NEW rows, RowsOf(rows), NEW i \in DOMAIN rows, NEW q \in 1..MaxQuantity
    PROVE  LET t == [rows EXCEPT ![i].quantity = q] IN
           /\ RowsOf(t) /\ Len(t) = Len(rows)
           /\ \A j \in DOMAIN rows : t[j].store = rows[j].store /\ t[j].line = rows[j].line
                                     /\ t[j].id = rows[j].id
           /\ InHomeStore(rows) => /\ Single(t)
                                   /\ Pairs(t) = Put(Pairs(rows), rows[i].line, q)
<1> DEFINE t == [rows EXCEPT ![i].quantity = q]
<1>0. /\ Len(rows) \in Nat /\ DOMAIN rows = 1..Len(rows) /\ \A j \in DOMAIN rows : rows[j] \in Row
      /\ rows \in Seq(Row)
  BY LenProperties, ElementOfSeq DEF RowsOf
<1>1. [rows[i] EXCEPT !.quantity = q] \in Row
  BY <1>0 DEF Row
<1>2. /\ t \in Seq(Row) /\ Len(t) = Len(rows)
      /\ \A j \in 1..Len(rows) : t[j] = IF j = i THEN [rows[i] EXCEPT !.quantity = q] ELSE rows[j]
  BY <1>0, <1>1, ExceptSeq
<1> HIDE DEF t
<1>3. /\ DOMAIN t = DOMAIN rows /\ t[i].quantity = q
      /\ \A j \in DOMAIN rows : /\ t[j].store = rows[j].store /\ t[j].line = rows[j].line
                                /\ t[j].id = rows[j].id
                                /\ j # i => t[j].quantity = rows[j].quantity
  <2>1. DOMAIN t = 1..Len(t)
    BY <1>2, LenProperties
  <2> QED
    BY <1>0, <1>2, <2>1 DEF Row
<1>4. RowsOf(t)
  BY <1>2, <1>3 DEF RowsOf, SingleRows
<1>5. ASSUME InHomeStore(rows)
      PROVE  Single(t) /\ Pairs(t) = Put(Pairs(rows), rows[i].line, q)
  <2>1. Single(rows)
    BY <1>5, HomeRowsAreSingle DEF RowsOf
  <2>2. /\ DOMAIN t = DOMAIN rows \cup {i}
        /\ \A j \in DOMAIN rows \ {i} : t[j].line = rows[j].line /\ t[j].quantity = rows[j].quantity
        /\ \A j \in DOMAIN rows : rows[j].line = t[i].line <=> j = i
    BY <1>3, <2>1 DEF Single
  <2>3. Single(t) /\ Pairs(t) = Put(Pairs(rows), t[i].line, t[i].quantity)
    BY <2>1, <2>2, PairsPut
  <2> QED
    BY <1>3, <2>3
<1> QED
  BY <1>2, <1>3, <1>4, <1>5 DEF t

\* Where the rows come from: their places are old ones or that of the request.
From(after, rows, c) ==
    \A j \in DOMAIN after :
        \/ \E i \in DOMAIN rows : /\ after[j].id = rows[i].id /\ after[j].store = rows[i].store
                                  /\ after[j].line = rows[i].line
        \/ after[j].store = c.store /\ after[j].line = c.line

LEMMA FoundRow ==
    ASSUME NEW rows, RowsOf(rows), NEW c, c.found = Finds(rows, c), c.found # 0
    PROVE  /\ RowOf(rows, c.found) # 0
           /\ rows[RowOf(rows, c.found)].line = c.line /\ rows[RowOf(rows, c.found)].id # c.item
<1> DEFINE i == RowFor(rows, c)
           k == RowOf(rows, c.found)
<1>1. rows \in Seq(Row)
  BY DEF RowsOf
<1>2. i # 0 => i \in DOMAIN rows /\ rows[i].line = c.line /\ rows[i].id # c.item
  BY <1>1, RowForFound
<1>3. /\ k = 0 <=> \A n \in DOMAIN rows : rows[n].id # c.found
      /\ k # 0 => k \in DOMAIN rows /\ rows[k].id = c.found
  BY <1>1, RowOfFound
<1>4. i # 0 /\ c.found = rows[i].id
  BY DEF Finds
<1> HIDE DEF i, k
<1>5. k # 0 /\ k = i
  BY <1>2, <1>3, <1>4 DEF RowsOf, SingleRows
<1> QED
  BY <1>2, <1>4, <1>5 DEF i, k

LEMMA FindsNone ==
    ASSUME NEW rows, RowsOf(rows), NEW c, Finds(rows, c) = 0
    PROVE  RowFor(rows, c) = 0
<1>1. rows \in Seq(Row) /\ \A j \in DOMAIN rows : rows[j] \in Row
  BY LenProperties, ElementOfSeq DEF RowsOf
<1>2. RowFor(rows, c) # 0 => RowFor(rows, c) \in DOMAIN rows
  BY <1>1, RowForFound
<1> QED
  BY <1>1, <1>2 DEF Finds, Row

LEMMA RequantifiedById ==
    ASSUME NEW rows, RowsOf(rows), NEW id, NEW q \in 1..MaxQuantity
    PROVE  LET t == Requantified(rows, id, q)
               i == RowOf(rows, id) IN
           /\ RowsOf(t) /\ Len(t) = Len(rows) /\ DOMAIN t = DOMAIN rows
           /\ \A j \in DOMAIN rows : t[j].store = rows[j].store /\ t[j].line = rows[j].line
                                     /\ t[j].id = rows[j].id
           /\ InHomeStore(rows) /\ i # 0 =>
                 Single(t) /\ Pairs(t) = Put(Pairs(rows), rows[i].line, q)
<1> DEFINE i == RowOf(rows, id)
           t == Requantified(rows, id, q)
<1>0. rows \in Seq(Row)
  BY DEF RowsOf
<1>1. i # 0 => i \in DOMAIN rows
  BY <1>0, RowOfFound
<1>2. CASE i = 0
  <2>1. t = rows
    BY <1>2 DEF Requantified
  <2> HIDE DEF t, i
  <2> QED
    BY <1>2, <2>1 DEF t, i
<1>3. CASE i # 0
  <2>1. t = [rows EXCEPT ![i].quantity = q] /\ i \in DOMAIN rows
    BY <1>1, <1>3 DEF Requantified
  <2> HIDE DEF i, t
  <2>2. LET x == [rows EXCEPT ![i].quantity = q] IN
        /\ RowsOf(x) /\ Len(x) = Len(rows)
        /\ \A j \in DOMAIN rows : x[j].store = rows[j].store /\ x[j].line = rows[j].line
                                  /\ x[j].id = rows[j].id
        /\ InHomeStore(rows) => /\ Single(x)
                                /\ Pairs(x) = Put(Pairs(rows), rows[i].line, q)
    BY <2>1, RequantifiedRows, Zenon
  <2>3. /\ RowsOf(t) /\ Len(t) = Len(rows)
        /\ \A j \in DOMAIN rows : t[j].store = rows[j].store /\ t[j].line = rows[j].line
                                  /\ t[j].id = rows[j].id
        /\ InHomeStore(rows) => Single(t) /\ Pairs(t) = Put(Pairs(rows), rows[i].line, q)
    BY <2>1, <2>2
  <2>4. DOMAIN t = DOMAIN rows
    BY <1>0, <2>3, LenProperties DEF RowsOf
  <2> QED
    BY <2>3, <2>4 DEF t, i
<1> QED
  BY <1>2, <1>3

LEMMA RemovedRows ==
    ASSUME NEW rows, RowsOf(rows), NEW i \in DOMAIN rows
    PROVE  LET after == RemoveAt(rows, i) IN
           /\ RowsOf(after) /\ Len(after) <= Len(rows)
           /\ \A j \in DOMAIN after : \E k \in DOMAIN rows : after[j] = rows[k]
           /\ Single(rows) => Pairs(after) = Drop(Pairs(rows), rows[i].line)
<1>0. Len(rows) \in Nat /\ DOMAIN rows = 1..Len(rows) /\ rows \in Seq(Row) /\ i \in 1..Len(rows)
  BY LenProperties DEF RowsOf
<1> DEFINE after == RemoveAt(rows, i)
<1>1. after \in Seq(Row) /\ Len(after) = Len(rows) - 1
  BY <1>0, WithoutOne
<1>2. SingleRows(after)
  BY <1>0, SingleWithout DEF RowsOf
<1>3. /\ DOMAIN after = 1..Len(rows) - 1
      /\ \A j \in 1..Len(rows) - 1 : \E k \in 1..Len(rows) : after[j] = rows[k]
      /\ Single(rows) => Pairs(after) = Drop(Pairs(rows), rows[i].line)
  <2>1. /\ DOMAIN RemoveAt(rows, i) = 1..Len(rows) - 1
        /\ \A j \in 1..Len(rows) - 1 : \E k \in 1..Len(rows) : k # i /\ RemoveAt(rows, i)[j] = rows[k]
        /\ Single(rows) => /\ Single(RemoveAt(rows, i))
                           /\ Pairs(RemoveAt(rows, i)) = Drop(Pairs(rows), rows[i].line)
        /\ Single(rows) => \A j \in DOMAIN RemoveAt(rows, i) : RemoveAt(rows, i)[j].line # rows[i].line
    BY <1>0, PairsWithout, Zenon
  <2> QED
    BY <2>1
<1> HIDE DEF after
<1>4. \A j \in DOMAIN after : after[j].id < nextId
  BY <1>0, <1>3 DEF RowsOf
<1>5. RowsOf(after) /\ Len(after) <= Len(rows)
  BY <1>0, <1>1, <1>2, <1>4 DEF RowsOf
<1>6. \A j \in DOMAIN after : \E k \in DOMAIN rows : after[j] = rows[k]
  BY <1>0, <1>3
<1> QED
  BY <1>3, <1>5, <1>6 DEF after

LEMMA RemovedById ==
    ASSUME NEW rows, RowsOf(rows), NEW id
    PROVE  LET t == Without(rows, id)
               i == RowOf(rows, id) IN
           /\ RowsOf(t) /\ Len(t) <= Len(rows)
           /\ \A j \in DOMAIN t : \E k \in DOMAIN rows : t[j] = rows[k]
           /\ Single(rows) /\ i # 0 => Pairs(t) = Drop(Pairs(rows), rows[i].line)
<1> DEFINE i == RowOf(rows, id)
           t == Without(rows, id)
<1>0. rows \in Seq(Row) /\ Len(rows) \in Nat
  BY LenProperties DEF RowsOf
<1>1. i # 0 => i \in DOMAIN rows
  BY <1>0, RowOfFound
<1>2. CASE i = 0
  <2>1. t = rows
    BY <1>2 DEF Without
  <2> HIDE DEF t, i
  <2> QED
    BY <1>0, <1>2, <2>1 DEF t, i
<1>3. CASE i # 0
  <2>1. t = RemoveAt(rows, i) /\ i \in DOMAIN rows
    BY <1>1, <1>3 DEF Without
  <2> HIDE DEF i, t
  <2>2. LET x == RemoveAt(rows, i) IN
        /\ RowsOf(x) /\ Len(x) <= Len(rows)
        /\ \A j \in DOMAIN x : \E k \in DOMAIN rows : x[j] = rows[k]
        /\ Single(rows) => Pairs(x) = Drop(Pairs(rows), rows[i].line)
    BY <2>1, RemovedRows, Zenon
  <2> QED
    BY <2>1, <2>2 DEF t, i
<1> QED
  BY <1>2, <1>3

LEMMA UpsertedRows ==
    ASSUME NEW rows, RowsOf(rows), nextId \in Nat \ {0}, NEW c \in Call,
           c.quantity \in 1..MaxQuantity, c.item = 0, c.found = 0 => RowFor(rows, c) = 0
    PROVE  LET after == Upserted(rows, c) IN
           /\ after \in Seq(Row) /\ SingleRows(after) /\ From(after, rows, c)
           /\ \A j \in DOMAIN after : \/ after[j].id < nextId
                                      \/ after[j].id = nextId /\ Len(after) > Len(rows)
           /\ InHomeStore(rows) /\ c.store = HomeStore /\ c.found = Finds(rows, c) =>
                 Pairs(after) = Put(Pairs(rows), c.line, c.quantity)
<1> DEFINE after == Upserted(rows, c)
<1>0. /\ Len(rows) \in Nat /\ DOMAIN rows = 1..Len(rows) /\ \A j \in DOMAIN rows : rows[j] \in Row
      /\ rows \in Seq(Row) /\ \A j \in DOMAIN rows : rows[j].id # 0
  <2>1. /\ Len(rows) \in Nat /\ DOMAIN rows = 1..Len(rows) /\ \A j \in DOMAIN rows : rows[j] \in Row
        /\ rows \in Seq(Row)
    BY LenProperties, ElementOfSeq DEF RowsOf
  <2> QED
    BY <2>1 DEF Row
<1>2. CASE c.found # 0
  <2>1. after = Requantified(rows, c.found, c.quantity)
    BY <1>2 DEF Upserted
  <2> HIDE DEF after
  <2>2. LET t == Requantified(rows, c.found, c.quantity)
            i == RowOf(rows, c.found) IN
        /\ RowsOf(t) /\ Len(t) = Len(rows) /\ DOMAIN t = DOMAIN rows
        /\ \A j \in DOMAIN rows : t[j].store = rows[j].store /\ t[j].line = rows[j].line
                                  /\ t[j].id = rows[j].id
        /\ InHomeStore(rows) /\ i # 0 =>
              Single(t) /\ Pairs(t) = Put(Pairs(rows), rows[i].line, c.quantity)
    BY RequantifiedById
  <2>3. /\ RowsOf(after) /\ DOMAIN after = DOMAIN rows
        /\ \A j \in DOMAIN rows : after[j].store = rows[j].store /\ after[j].line = rows[j].line
                                  /\ after[j].id = rows[j].id
        /\ InHomeStore(rows) /\ RowOf(rows, c.found) # 0 =>
              Pairs(after) = Put(Pairs(rows), rows[RowOf(rows, c.found)].line, c.quantity)
    BY <2>1, <2>2
  <2>4. InHomeStore(rows) /\ c.found = Finds(rows, c) =>
           Pairs(after) = Put(Pairs(rows), c.line, c.quantity)
    BY <1>2, <2>3, FoundRow
  <2>5. From(after, rows, c)
    BY <2>3 DEF From
  <2> QED
    BY <2>3, <2>4, <2>5 DEF RowsOf, after
<1>3. CASE c.found = 0
  <2> DEFINE new == [id |-> nextId, store |-> c.store, line |-> c.line, quantity |-> c.quantity]
  <2>1. after = Append(rows, new)
    BY <1>3 DEF Upserted
  <2>2. /\ new \in Row /\ new.id = nextId /\ new.store = c.store /\ new.line = c.line
        /\ new.quantity = c.quantity
    BY DEF Row, Call
  <2>10. \A j \in DOMAIN rows : ~(rows[j].store = c.store /\ rows[j].line = c.line)
    BY <1>0, <1>3, RowForFound
  <2> HIDE DEF after, new
  <2>3. /\ after \in Seq(Row) /\ Len(after) = Len(rows) + 1
        /\ \A j \in 1..Len(rows) : after[j] = rows[j]
        /\ after[Len(rows) + 1] = new
    BY <1>0, <2>1, <2>2, AppendProperties
  <2>4. DOMAIN after = 1..Len(rows) + 1
    BY <2>3, LenProperties
  <2>5. Len(after) > Len(rows) /\ \A j \in DOMAIN after : j \in DOMAIN rows \/ j = Len(rows) + 1
    BY <1>0, <2>3, <2>4
  <2>6. \A j \in DOMAIN rows : rows[j].id # nextId
    BY <1>0 DEF RowsOf, Row
  <2>7. SingleRows(after)
    BY <1>0, <2>2, <2>3, <2>5, <2>6, <2>10 DEF SingleRows, RowsOf
  <2>8. \A j \in DOMAIN after : after[j].id < nextId \/ after[j].id = nextId
    BY <1>0, <2>2, <2>3, <2>5 DEF RowsOf
  <2>11. From(after, rows, c)
    <3> SUFFICES ASSUME NEW j \in DOMAIN after
                 PROVE  \/ j \in DOMAIN rows /\ after[j] = rows[j]
                        \/ after[j].store = c.store /\ after[j].line = c.line
      BY DEF From
    <3> QED
      BY <1>0, <2>2, <2>3, <2>5
  <2>9. ASSUME InHomeStore(rows), c.store = HomeStore
        PROVE  Pairs(after) = Put(Pairs(rows), c.line, c.quantity)
    <3>2. Single(rows) /\ \A j \in DOMAIN rows : rows[j].line # c.line
      BY <2>9, <2>10, HomeRowsAreSingle DEF RowsOf, InHomeStore
    <3> DEFINE k == Len(rows) + 1
    <3>3. DOMAIN after = DOMAIN rows \cup {k} /\ k \notin DOMAIN rows
      BY <1>0, <2>4
    <3>4. /\ \A j \in DOMAIN rows : after[j] = rows[j]
          /\ after[k].line = c.line /\ after[k].quantity = c.quantity
      BY <1>0, <2>2, <2>3
    <3> HIDE DEF k
    <3>5. /\ \A j \in DOMAIN rows \ {k} : after[j].line = rows[j].line /\ after[j].quantity = rows[j].quantity
          /\ \A j \in DOMAIN rows : rows[j].line = after[k].line <=> j = k
      BY <3>2, <3>3, <3>4
    <3>6. Pairs(after) = Put(Pairs(rows), after[k].line, after[k].quantity)
      BY <3>2, <3>3, <3>5, PairsPut
    <3> QED
      BY <3>4, <3>6
  <2> QED
    BY <2>3, <2>5, <2>7, <2>8, <2>9, <2>11 DEF after
<1> QED
  BY <1>2, <1>3

LEMMA UpdatedRows ==
    ASSUME NEW rows, RowsOf(rows), NEW c \in Call, c.quantity \in 1..MaxQuantity,
           c.found = 0 => RowFor(rows, c) = 0
    PROVE  LET after == Updated(rows, c)
               i == RowOf(rows, c.item) IN
           /\ RowsOf(after) /\ Len(after) <= Len(rows) /\ From(after, rows, c)
           /\ InHomeStore(rows) /\ c.store = HomeStore /\ c.found = Finds(rows, c) /\ i # 0 =>
                 Pairs(after) = Put(Drop(Pairs(rows), rows[i].line), c.line, c.quantity)
<1> DEFINE i == RowOf(rows, c.item)
           after == Updated(rows, c)
<1>0. /\ Len(rows) \in Nat /\ DOMAIN rows = 1..Len(rows) /\ \A j \in DOMAIN rows : rows[j] \in Row
      /\ rows \in Seq(Row)
  BY LenProperties, ElementOfSeq DEF RowsOf
<1>1. i # 0 => i \in DOMAIN rows /\ rows[i].id = c.item
  BY <1>0, RowOfFound
<1>2. \A j \in DOMAIN rows : i # 0 /\ rows[j].id = c.item => j = i
  BY <1>1 DEF RowsOf, SingleRows
<1>3. CASE c.found = 0 /\ i # 0
  <2> DEFINE new == [rows[i] EXCEPT !.store = c.store, !.line = c.line, !.quantity = c.quantity]
  <2>1. after = [rows EXCEPT ![i] = new]
    BY <1>3 DEF Updated
  <2>0. i \in DOMAIN rows /\ rows[i].id = c.item
    BY <1>1, <1>3
  <2>2. /\ new \in Row /\ new.id = rows[i].id /\ new.store = c.store /\ new.line = c.line
        /\ new.quantity = c.quantity
    BY <1>0, <2>0 DEF Row, Call
  <2>9. \A j \in DOMAIN rows : j # i => ~(rows[j].store = c.store /\ rows[j].line = c.line)
    <3>1. \A j \in DOMAIN rows :
             ~(rows[j].store = c.store /\ rows[j].line = c.line /\ rows[j].id # c.item)
      BY <1>0, <1>3, RowForFound
    <3> QED
      BY <1>2, <1>3, <3>1
  <2>8. i # 0
    BY <1>3
  <2> HIDE DEF i, after, new
  <2>3. /\ after \in Seq(Row) /\ Len(after) = Len(rows)
        /\ \A j \in 1..Len(rows) : after[j] = IF j = i THEN new ELSE rows[j]
    BY <1>0, <2>0, <2>1, <2>2, ExceptSeq
  <2>4. DOMAIN after = DOMAIN rows
    BY <1>0, <2>3, LenProperties
  <2>5. SingleRows(after)
    <3> SUFFICES ASSUME NEW j \in DOMAIN rows, NEW k \in DOMAIN rows,
                        \/ after[j].id = after[k].id
                        \/ after[j].store = after[k].store /\ after[j].line = after[k].line
                 PROVE  j = k
      BY <2>4 DEF SingleRows
    <3>1. CASE j # i /\ k # i
      BY <1>0, <2>3, <3>1 DEF RowsOf, SingleRows
    <3>2. ASSUME NEW x \in DOMAIN rows, x # i
          PROVE  /\ after[x] = rows[x] /\ rows[x].id # new.id
                 /\ ~(rows[x].store = new.store /\ rows[x].line = new.line)
      BY <1>0, <1>2, <2>0, <2>2, <2>3, <2>8, <2>9, <3>2
    <3>3. after[i] = new
      BY <1>0, <2>0, <2>3
    <3> QED
      BY <3>1, <3>2, <3>3
  <2>6. RowsOf(after)
    BY <1>0, <2>0, <2>2, <2>3, <2>4, <2>5 DEF RowsOf
  <2>10. From(after, rows, c)
    <3> SUFFICES ASSUME NEW j \in DOMAIN rows
                 PROVE  \/ after[j] = rows[j]
                        \/ after[j].store = c.store /\ after[j].line = c.line
      BY <2>4 DEF From
    <3> QED
      BY <1>0, <2>2, <2>3
  <2>7. ASSUME InHomeStore(rows), c.store = HomeStore
        PROVE  Pairs(after) = Put(Drop(Pairs(rows), rows[i].line), c.line, c.quantity)
    <3>1. Single(rows)
      BY <2>7, HomeRowsAreSingle DEF RowsOf
    <3>2. \A j \in DOMAIN rows \ {i} : after[j] = rows[j] /\ rows[j].line # c.line
      BY <1>0, <2>3, <2>7, <2>9 DEF InHomeStore
    <3>3. after[i] = new
      BY <1>0, <2>0, <2>3
    <3>4. /\ \A j \in DOMAIN rows \ {i} : after[j].line = rows[j].line /\ after[j].quantity = rows[j].quantity
          /\ \A j \in DOMAIN rows \ {i} : rows[j].line # after[i].line
      BY <2>2, <3>2, <3>3
    <3>5. Pairs(after) = Put(Drop(Pairs(rows), rows[i].line), after[i].line, after[i].quantity)
      BY <2>0, <2>4, <3>1, <3>4, PairsMoved
    <3> QED
      BY <2>2, <3>3, <3>5
  <2> QED
    BY <1>0, <2>3, <2>6, <2>7, <2>10 DEF after, i
<1>4. CASE c.found # 0
  <2> DEFINE marked == Requantified(rows, c.found, c.quantity)
             twin == RowOf(rows, c.found)
  <2>1. after = Without(marked, c.item)
    BY <1>4 DEF Updated
  <2>2. /\ RowsOf(marked) /\ Len(marked) = Len(rows) /\ DOMAIN marked = DOMAIN rows
        /\ \A j \in DOMAIN rows : marked[j].store = rows[j].store /\ marked[j].line = rows[j].line
                                  /\ marked[j].id = rows[j].id
        /\ InHomeStore(rows) /\ twin # 0 =>
              Single(marked) /\ Pairs(marked) = Put(Pairs(rows), rows[twin].line, c.quantity)
    BY RequantifiedById, Zenon
  <2>3. c.found = Finds(rows, c) =>
           twin # 0 /\ rows[twin].line = c.line /\ rows[twin].id # c.item
    BY <1>4, FoundRow
  <2>4. twin # 0 => twin \in DOMAIN rows
    BY <1>0, RowOfFound
  <2> DEFINE k == RowOf(marked, c.item)
  <2>5. k # 0 => k \in DOMAIN marked /\ marked[k].id = c.item
    <3>1. marked \in Seq(Row)
      BY <2>2 DEF RowsOf
    <3> HIDE DEF marked
    <3> QED
      BY <3>1, RowOfFound
  <2>6. k = 0 => \A j \in DOMAIN marked : marked[j].id # c.item
    <3>1. marked \in Seq(Row)
      BY <2>2 DEF RowsOf
    <3> HIDE DEF marked
    <3> QED
      BY <3>1, RowOfFound
  <2> HIDE DEF marked, after, twin, k
  <2>7. LET t == Without(marked, c.item)
            n == RowOf(marked, c.item) IN
        /\ RowsOf(t) /\ Len(t) <= Len(marked)
        /\ \A j \in DOMAIN t : \E m \in DOMAIN marked : t[j] = marked[m]
        /\ Single(marked) /\ n # 0 => Pairs(t) = Drop(Pairs(marked), marked[n].line)
    BY <2>2, RemovedById, Zenon
  <2>8. /\ RowsOf(after) /\ Len(after) <= Len(marked)
        /\ \A j \in DOMAIN after : \E m \in DOMAIN marked : after[j] = marked[m]
        /\ Single(marked) /\ k # 0 => Pairs(after) = Drop(Pairs(marked), marked[k].line)
    BY <2>1, <2>7 DEF k
  <2>9. From(after, rows, c)
    BY <2>2, <2>8 DEF From
  <2>10. ASSUME InHomeStore(rows), c.store = HomeStore, c.found = Finds(rows, c), i # 0
         PROVE  Pairs(after) = Put(Drop(Pairs(rows), rows[i].line), c.line, c.quantity)
    <3> HIDE DEF i
    <3>1. k = i
      BY <1>1, <1>2, <2>2, <2>5, <2>6, <2>10
    <3>2. Single(rows) /\ i \in DOMAIN rows
      BY <1>1, <2>10, HomeRowsAreSingle DEF RowsOf
    <3>3. rows[i].line # c.line
      BY <1>1, <2>3, <2>4, <2>10, <3>2 DEF Single
    <3>4. Pairs(after) = Drop(Put(Pairs(rows), c.line, c.quantity), rows[i].line)
      BY <2>2, <2>3, <2>8, <2>10, <3>1, <3>2
    <3> QED
      BY <3>3, <3>4 DEF Put, Drop
  <2> QED
    BY <2>2, <2>8, <2>9, <2>10 DEF after
<1>5. CASE c.found = 0 /\ i = 0
  <2>1. after = rows
    BY <1>5 DEF Updated
  <2>2. i = 0
    BY <1>5
  <2> HIDE DEF after, i
  <2>3. From(rows, rows, c)
    BY DEF From
  <2> QED
    BY <1>0, <2>1, <2>2, <2>3 DEF after, i
<1> QED
  BY <1>3, <1>4, <1>5

\* What a request makes of the rows of a country; of its lines, when its SELECT and
\* its write go together.
LEMMA HandledRows ==
    ASSUME NEW rows, RowsOf(rows), nextId \in Nat \ {0}, NEW c \in Call, c.method # "load",
           c.method \in {"upsert", "update"} =>
               c.quantity \in 1..MaxQuantity /\ (c.found = 0 => RowFor(rows, c) = 0),
           c.method = "upsert" => c.item = 0
    PROVE  LET after == Handled(rows, c)
               line == rows[RowOf(rows, c.item)].line IN
           /\ after \in Seq(Row) /\ SingleRows(after)
           /\ From(after, rows, c)
           /\ c.method \notin {"upsert", "update"} =>
                 \A j \in DOMAIN after : \E i \in DOMAIN rows : after[j] = rows[i]
           /\ \A j \in DOMAIN after : \/ after[j].id < nextId
                                      \/ after[j].id = nextId /\ Len(after) > Len(rows)
           /\ /\ InHomeStore(rows) /\ c.store = HomeStore
              /\ c.method \in {"upsert", "update"} => c.found = Finds(rows, c)
              /\ c.method \in {"update", "remove"} => RowOf(rows, c.item) # 0
              => /\ c.method = "upsert" => Pairs(after) = Put(Pairs(rows), c.line, c.quantity)
                 /\ c.method = "update" =>
                       Pairs(after) = Put(Drop(Pairs(rows), line), c.line, c.quantity)
                 /\ c.method = "remove" => Pairs(after) = Drop(Pairs(rows), line)
                 /\ c.method = "clear" => Pairs(after) = {}
<1> DEFINE after == Handled(rows, c)
           i == RowOf(rows, c.item)
<1>0. /\ rows \in Seq(Row) /\ SingleRows(rows)
      /\ \A j \in DOMAIN rows : rows[j].id < nextId
  BY DEF RowsOf
<1>2. c.method \in Methods \ {"load"}
  BY DEF Call
<1>3. CASE c.method = "upsert"
  <2>1. after = Upserted(rows, c)
    BY <1>3 DEF Handled
  <2>2. LET t == Upserted(rows, c) IN
        /\ t \in Seq(Row) /\ SingleRows(t) /\ From(t, rows, c)
        /\ \A j \in DOMAIN t : \/ t[j].id < nextId
                               \/ t[j].id = nextId /\ Len(t) > Len(rows)
        /\ InHomeStore(rows) /\ c.store = HomeStore /\ c.found = Finds(rows, c) =>
              Pairs(t) = Put(Pairs(rows), c.line, c.quantity)
    BY <1>3, UpsertedRows, Zenon
  <2> HIDE DEF after
  <2>3. /\ after \in Seq(Row) /\ SingleRows(after) /\ From(after, rows, c)
        /\ \A j \in DOMAIN after : \/ after[j].id < nextId
                                   \/ after[j].id = nextId /\ Len(after) > Len(rows)
        /\ InHomeStore(rows) /\ c.store = HomeStore /\ c.found = Finds(rows, c) =>
              Pairs(after) = Put(Pairs(rows), c.line, c.quantity)
    BY <2>1, <2>2
  <2> QED
    BY <1>3, <2>3 DEF after
<1>4. CASE c.method = "update"
  <2>1. after = Updated(rows, c)
    BY <1>4 DEF Handled
  <2>3. LET t == Updated(rows, c)
            k == RowOf(rows, c.item) IN
        /\ RowsOf(t) /\ Len(t) <= Len(rows) /\ From(t, rows, c)
        /\ InHomeStore(rows) /\ c.store = HomeStore /\ c.found = Finds(rows, c) /\ k # 0 =>
              Pairs(t) = Put(Drop(Pairs(rows), rows[k].line), c.line, c.quantity)
    BY <1>4, UpdatedRows, Zenon
  <2> HIDE DEF after, i
  <2>4. /\ after \in Seq(Row) /\ SingleRows(after) /\ From(after, rows, c)
        /\ \A j \in DOMAIN after : after[j].id < nextId
        /\ InHomeStore(rows) /\ c.store = HomeStore /\ c.found = Finds(rows, c) /\ i # 0 =>
              Pairs(after) = Put(Drop(Pairs(rows), rows[i].line), c.line, c.quantity)
    BY <2>1, <2>3 DEF RowsOf, i
  <2> QED
    BY <1>4, <2>4 DEF after, i
<1>5. CASE c.method = "remove"
  <2>1. after = Without(rows, c.item)
    BY <1>5 DEF Handled
  <2>3. LET t == Without(rows, c.item)
            k == RowOf(rows, c.item) IN
        /\ RowsOf(t) /\ Len(t) <= Len(rows)
        /\ \A j \in DOMAIN t : \E m \in DOMAIN rows : t[j] = rows[m]
        /\ Single(rows) /\ k # 0 => Pairs(t) = Drop(Pairs(rows), rows[k].line)
    BY RemovedById, Zenon
  <2> HIDE DEF after, i
  <2>4. /\ RowsOf(after)
        /\ \A j \in DOMAIN after : \E k \in DOMAIN rows : after[j] = rows[k]
        /\ Single(rows) /\ i # 0 => Pairs(after) = Drop(Pairs(rows), rows[i].line)
    BY <2>1, <2>3 DEF i
  <2>5. InHomeStore(rows) => Single(rows)
    BY <1>0, HomeRowsAreSingle
  <2>6. /\ after \in Seq(Row) /\ SingleRows(after) /\ From(after, rows, c)
        /\ \A j \in DOMAIN after : after[j].id < nextId
    BY <2>4 DEF RowsOf, From
  <2> QED
    BY <1>5, <2>4, <2>5, <2>6 DEF after, i
<1>6. CASE c.method = "clear"
  <2>1. after = <<>>
    BY <1>6 DEF Handled
  <2>2. after \in Seq(Row) /\ SingleRows(after) /\ DOMAIN after = {}
    BY <2>1 DEF SingleRows
  <2> HIDE DEF after
  <2>3. From(after, rows, c) /\ Pairs(after) = {}
    BY <2>2 DEF From, Pairs
  <2> QED
    BY <1>6, <2>2, <2>3 DEF after
<1> QED
  BY <1>2, <1>3, <1>4, <1>5, <1>6 DEF Methods

LEMMA HandledTyped ==
    ASSUME NEW rows \in Seq(Row), nextId \in Nat \ {0}, NEW c \in Call, c.method # "load",
           c.method \in {"upsert", "update"} => c.quantity \in 1..MaxQuantity
    PROVE  Handled(rows, c) \in Seq(Row)
<1>0. Len(rows) \in Nat /\ DOMAIN rows = 1..Len(rows) /\ \A j \in DOMAIN rows : rows[j] \in Row
  BY LenProperties, ElementOfSeq
<1>1. ASSUME NEW s \in Seq(Row), NEW id, NEW q \in 1..MaxQuantity
      PROVE  Requantified(s, id, q) \in Seq(Row)
  <2> DEFINE i == RowOf(s, id)
  <2>1. i # 0 => i \in 1..Len(s)
    BY RowOfFound, LenProperties
  <2>2. \A j \in 1..Len(s) : s[j] \in Row
    BY LenProperties, ElementOfSeq
  <2>3. i # 0 => [s[i] EXCEPT !.quantity = q] \in Row
    BY <2>1, <2>2 DEF Row
  <2> HIDE DEF i
  <2>4. i # 0 => [s EXCEPT ![i] = [s[i] EXCEPT !.quantity = q]] \in Seq(Row)
    BY <2>1, <2>3, ExceptSeq
  <2> QED
    BY <2>4 DEF Requantified, i
<1>2. ASSUME NEW s \in Seq(Row), NEW id
      PROVE  Without(s, id) \in Seq(Row)
  <2> DEFINE i == RowOf(s, id)
  <2>1. i # 0 => i \in 1..Len(s)
    BY RowOfFound, LenProperties
  <2> HIDE DEF i
  <2>2. i # 0 => RemoveAt(s, i) \in Seq(Row)
    BY <2>1, WithoutOne
  <2> QED
    BY <2>2 DEF Without, i
<1>3. CASE c.method = "upsert"
  <2> DEFINE new == [id |-> nextId, store |-> c.store, line |-> c.line, quantity |-> c.quantity]
  <2>1. new \in Row
    BY <1>3 DEF Row, Call
  <2> HIDE DEF new
  <2>2. Append(rows, new) \in Seq(Row)
    BY <2>1, AppendProperties
  <2>3. Requantified(rows, c.found, c.quantity) \in Seq(Row)
    BY <1>1, <1>3
  <2> QED
    BY <1>3, <2>2, <2>3 DEF Handled, Upserted, new
<1>4. CASE c.method = "update"
  <2> DEFINE i == RowOf(rows, c.item)
             new == [rows[i] EXCEPT !.store = c.store, !.line = c.line, !.quantity = c.quantity]
  <2>1. i # 0 => i \in 1..Len(rows)
    BY RowOfFound, LenProperties
  <2>2. i # 0 => new \in Row
    BY <1>0, <1>4, <2>1 DEF Row, Call
  <2> HIDE DEF i
  <2>3. i # 0 => [rows EXCEPT ![i] = new] \in Seq(Row)
    <3> HIDE DEF new
    <3> QED
      BY <2>1, <2>2, ExceptSeq
  <2>4. Without(Requantified(rows, c.found, c.quantity), c.item) \in Seq(Row)
    BY <1>1, <1>2, <1>4
  <2> QED
    BY <1>4, <2>3, <2>4 DEF Handled, Updated, i
<1>5. CASE c.method = "remove"
  BY <1>2, <1>5 DEF Handled
<1>6. CASE c.method = "clear"
  BY <1>6 DEF Handled
<1> QED
  BY <1>3, <1>4, <1>5, <1>6 DEF Call, Methods

\* A request's phase and number play no part in what it finds and writes.
LEMMA SameSearch ==
    ASSUME NEW rows, NEW c, NEW d, c.store = d.store, c.line = d.line, c.item = d.item
    PROVE  RowFor(rows, c) = RowFor(rows, d) /\ Finds(rows, c) = Finds(rows, d)
<1> DEFINE I(x) == {i \in 1..Len(rows) :
                       rows[i].store = x.store /\ rows[i].line = x.line /\ rows[i].id # x.item}
<1>1. RowFor(rows, c) = FirstOf(I(c)) /\ RowFor(rows, d) = FirstOf(I(d))
  BY DEF RowFor, SelectInSeq, FirstOf
<1>2. I(c) = I(d)
  OBVIOUS
<1>3. RowFor(rows, c) = RowFor(rows, d)
  BY <1>1, <1>2
<1> QED
  BY <1>3 DEF Finds

LEMMA SameHandled ==
    ASSUME NEW rows, NEW c, NEW d, c.method = d.method, c.store = d.store, c.line = d.line,
           c.quantity = d.quantity, c.item = d.item, c.found = d.found
    PROVE  Handled(rows, c) = Handled(rows, d)
  BY DEF Handled, Upserted, Updated

LEMMA LookedCall ==
    ASSUME NEW rows \in Seq(Row), NEW c \in Call
    PROVE  LET d == Looked(rows, c) IN
           /\ d \in Call /\ d.method = c.method /\ d.country = c.country /\ d.store = c.store
           /\ d.line = c.line /\ d.quantity = c.quantity /\ d.item = c.item
           /\ d.found = Finds(rows, c) /\ Finds(rows, d) = Finds(rows, c)
<1> DEFINE d == Looked(rows, c)
<1>1. Finds(rows, c) \in Nat
  <2>1. \A j \in DOMAIN rows : rows[j] \in Row
    BY LenProperties, ElementOfSeq
  <2>2. RowFor(rows, c) # 0 => RowFor(rows, c) \in DOMAIN rows
    BY RowForFound
  <2> QED
    BY <2>1, <2>2 DEF Finds, Row
<1>2. /\ d \in Call /\ d.method = c.method /\ d.country = c.country /\ d.store = c.store
      /\ d.line = c.line /\ d.quantity = c.quantity /\ d.item = c.item
      /\ d.found = Finds(rows, c)
  BY <1>1 DEF Looked, Call
<1> HIDE DEF d
<1>3. Finds(rows, d) = Finds(rows, c)
  BY <1>2, SameSearch, Zenon
<1> QED
  BY <1>2, <1>3 DEF d

-----------------------------------------------------------------------------
(* The list in the app *)

LEMMA RequantifiedItems ==
    ASSUME NEW s \in Seq(Entry), NEW i \in DOMAIN s, NEW q \in 1..MaxQuantity
    PROVE  LET t == [s EXCEPT ![i].quantity = q] IN
           /\ t \in Seq(Entry) /\ Len(t) = Len(s)
           /\ \A j \in DOMAIN s : t[j].line = s[j].line
           /\ Single(s) => Single(t) /\ Pairs(t) = Put(Pairs(s), s[i].line, q)
<1> DEFINE t == [s EXCEPT ![i].quantity = q]
<1>0. Len(s) \in Nat /\ DOMAIN s = 1..Len(s) /\ \A j \in DOMAIN s : s[j] \in Entry
  BY LenProperties, ElementOfSeq
<1>1. [s[i] EXCEPT !.quantity = q] \in Entry
  BY <1>0 DEF Entry
<1>2. /\ t \in Seq(Entry) /\ Len(t) = Len(s)
      /\ \A j \in 1..Len(s) : t[j] = IF j = i THEN [s[i] EXCEPT !.quantity = q] ELSE s[j]
  BY <1>0, <1>1, ExceptSeq
<1> HIDE DEF t
<1>3. /\ DOMAIN t = DOMAIN s /\ t[i].quantity = q
      /\ \A j \in DOMAIN s : /\ t[j].line = s[j].line
                             /\ j # i => t[j].quantity = s[j].quantity
  <2>1. DOMAIN t = 1..Len(t)
    BY <1>2, LenProperties
  <2> QED
    BY <1>0, <1>2, <2>1 DEF Entry
<1>4. ASSUME Single(s)
      PROVE  Single(t) /\ Pairs(t) = Put(Pairs(s), s[i].line, q)
  <2>1. /\ DOMAIN t = DOMAIN s \cup {i}
        /\ \A j \in DOMAIN s \ {i} : t[j].line = s[j].line /\ t[j].quantity = s[j].quantity
        /\ \A j \in DOMAIN s : s[j].line = t[i].line <=> j = i
    BY <1>3, <1>4 DEF Single
  <2>2. Single(t) /\ Pairs(t) = Put(Pairs(s), t[i].line, t[i].quantity)
    BY <1>4, <2>1, PairsPut
  <2> QED
    BY <1>3, <2>2
<1> QED
  BY <1>2, <1>3, <1>4 DEF t

LEMMA AppendedItems ==
    ASSUME NEW s \in Seq(Entry), NEW x \in Entry
    PROVE  LET t == Append(s, x) IN
           /\ t \in Seq(Entry)
           /\ Single(s) /\ (\A j \in DOMAIN s : s[j].line # x.line) =>
                 Single(t) /\ Pairs(t) = Put(Pairs(s), x.line, x.quantity)
<1> DEFINE t == Append(s, x)
           k == Len(s) + 1
<1>1. /\ t \in Seq(Entry) /\ Len(t) = Len(s) + 1
      /\ \A j \in 1..Len(s) : t[j] = s[j]
      /\ t[Len(s) + 1] = x
  BY AppendProperties
<1>2. Len(s) \in Nat /\ DOMAIN s = 1..Len(s) /\ DOMAIN t = 1..Len(t)
  BY <1>1, LenProperties
<1> HIDE DEF t
<1>3. /\ DOMAIN t = DOMAIN s \cup {k} /\ k \notin DOMAIN s
      /\ \A j \in DOMAIN s : t[j] = s[j]
      /\ t[k] = x
  BY <1>1, <1>2
<1> HIDE DEF k
<1>4. ASSUME Single(s), \A j \in DOMAIN s : s[j].line # x.line
      PROVE  Single(t) /\ Pairs(t) = Put(Pairs(s), x.line, x.quantity)
  <2>1. /\ \A j \in DOMAIN s \ {k} : t[j].line = s[j].line /\ t[j].quantity = s[j].quantity
        /\ \A j \in DOMAIN s : s[j].line = t[k].line <=> j = k
    BY <1>3, <1>4
  <2>2. Single(t) /\ Pairs(t) = Put(Pairs(s), t[k].line, t[k].quantity)
    BY <1>3, <1>4, <2>1, PairsPut
  <2> QED
    BY <1>3, <2>2
<1> QED
  BY <1>1, <1>4 DEF t

LEMMA RemovedItems ==
    ASSUME NEW s \in Seq(Entry), NEW i \in DOMAIN s
    PROVE  LET t == RemoveFirst(s, s[i]) IN
           /\ t \in Seq(Entry)
           /\ Single(s) => Single(t) /\ Pairs(t) = Drop(Pairs(s), s[i].line)
<1> DEFINE k == SelectInSeq(s, LAMBDA e : e = s[i])
<1>0. Len(s) \in Nat /\ DOMAIN s = 1..Len(s)
  BY LenProperties
<1>1. /\ k \in 0..Len(s)
      /\ k = 0 <=> \A j \in DOMAIN s : s[j] # s[i]
      /\ k # 0 => k \in DOMAIN s /\ s[k] = s[i]
  BY EditedFound, Zenon
<1>2. RemoveFirst(s, s[i]) = RemoveAt(s, k)
  BY <1>0 DEF RemoveFirst
<1> HIDE DEF k
<1>3. k \in 1..Len(s) /\ s[k] = s[i]
  BY <1>0, <1>1
<1>4. RemoveAt(s, k) \in Seq(Entry)
  BY <1>3, WithoutOne
<1>5. Single(s) => Single(RemoveAt(s, k)) /\ Pairs(RemoveAt(s, k)) = Drop(Pairs(s), s[k].line)
  BY <1>3, PairsWithout, Zenon
<1> QED
  BY <1>2, <1>3, <1>4, <1>5

LEMMA MergedItems ==
    ASSUME NEW rest \in Seq(Entry), NEW i \in 1..Len(rest) + 1, NEW updated \in Entry,
           MaxQuantity \in Nat,
           LET after == Merged(rest, i, updated) IN
           after[At(after, updated.line)].quantity <= MaxQuantity
    PROVE  LET after == Merged(rest, i, updated) IN
           /\ after \in Seq(Entry)
           /\ after[At(after, updated.line)].quantity \in 1..MaxQuantity
           /\ Single(rest) =>
                 /\ Single(after)
                 /\ Pairs(after) = Put(Pairs(rest), updated.line,
                                       after[At(after, updated.line)].quantity)
<1> DEFINE m == At(rest, updated.line)
           after == Merged(rest, i, updated)
           k == At(after, updated.line)
<1>0. /\ Len(rest) \in Nat /\ DOMAIN rest = 1..Len(rest)
      /\ \A j \in DOMAIN rest : rest[j] \in Entry
  BY LenProperties, ElementOfSeq
<1>1. /\ m = 0 <=> \A j \in DOMAIN rest : rest[j].line # updated.line
      /\ m # 0 => m \in DOMAIN rest /\ rest[m].line = updated.line
  BY AtFound
<1>2. CASE m = 0
  <2>1. after = InsertAt(rest, i, updated)
    BY <1>2 DEF Merged
  <2>2. /\ InsertAt(rest, i, updated) \in Seq(Entry)
        /\ Len(InsertAt(rest, i, updated)) = Len(rest) + 1
        /\ \A j \in 1..Len(rest) + 1 : InsertAt(rest, i, updated)[j] =
              IF j < i THEN rest[j] ELSE IF j = i THEN updated ELSE rest[j - 1]
    BY WithOne
  <2>3. LET t == InsertAt(rest, i, updated) IN
        /\ \A j \in DOMAIN t : t[j] = updated \/ \E n \in 1..Len(rest) : t[j] = rest[n]
        /\ Single(rest) /\ (\A n \in DOMAIN rest : rest[n].line # updated.line) =>
              /\ Single(t)
              /\ Pairs(t) = Put(Pairs(rest), updated.line, updated.quantity)
    BY PairsWith, Zenon
  <2>4. /\ after \in Seq(Entry) /\ Len(after) = Len(rest) + 1
        /\ \A j \in 1..Len(rest) + 1 : after[j] =
              IF j < i THEN rest[j] ELSE IF j = i THEN updated ELSE rest[j - 1]
    BY <2>1, <2>2
  <2>5. /\ \A j \in DOMAIN after : after[j] = updated \/ \E n \in 1..Len(rest) : after[j] = rest[n]
        /\ Single(rest) => /\ Single(after)
                           /\ Pairs(after) = Put(Pairs(rest), updated.line, updated.quantity)
    BY <1>1, <1>2, <2>1, <2>3
  <2> HIDE DEF m, after
  <2>6. /\ k = 0 <=> \A j \in DOMAIN after : after[j].line # updated.line
        /\ k # 0 => k \in DOMAIN after /\ after[k].line = updated.line
    BY <2>4, AtFound
  <2>7. i \in DOMAIN after /\ after[i] = updated
    BY <1>0, <2>4, LenProperties
  <2> HIDE DEF k
  <2>8. after[k] = updated
    BY <1>0, <1>1, <1>2, <2>5, <2>6, <2>7
  <2>9. updated.quantity \in 1..MaxQuantity
    BY DEF Entry
  <2> QED
    BY <2>4, <2>5, <2>8, <2>9 DEF after, k
<1>3. CASE m # 0
  <2> DEFINE total == rest[m].quantity + updated.quantity
  <2>1. after = [rest EXCEPT ![m].quantity = total]
    BY <1>3 DEF Merged
  <2>2. m \in DOMAIN rest /\ rest[m].line = updated.line
    BY <1>1, <1>3
  <2>3. total \in Nat \ {0}
    BY <1>0, <2>2 DEF Entry
  <2>4. /\ DOMAIN after = DOMAIN rest /\ Len(after) = Len(rest)
        /\ \A j \in DOMAIN rest : after[j].line = rest[j].line
        /\ after[m].quantity = total
    <3> DEFINE Wide == [line : Lines, quantity : Nat, serverId : Nat]
               edited == [rest[m] EXCEPT !.quantity = total]
    <3>1. Entry \subseteq Wide
      BY DEF Entry
    <3>2. rest \in Seq(Wide)
      BY <3>1, SeqMonotonic
    <3>3. /\ edited \in Wide /\ edited.line = rest[m].line /\ edited.quantity = total
      BY <1>0, <2>2, <2>3 DEF Entry
    <3>4. after = [rest EXCEPT ![m] = edited]
      BY <2>1
    <3> HIDE DEF after, Wide, edited
    <3>5. /\ after \in Seq(Wide) /\ Len(after) = Len(rest)
          /\ \A j \in 1..Len(rest) : after[j] = IF j = m THEN edited ELSE rest[j]
      BY <1>0, <2>2, <3>2, <3>3, <3>4, ExceptSeq
    <3>6. DOMAIN after = 1..Len(after)
      BY <3>5, LenProperties
    <3> QED
      BY <1>0, <2>2, <3>3, <3>5, <3>6
  <2>5. k = m
    <3> DEFINE I(t) == {j \in 1..Len(t) : t[j].line = updated.line}
    <3>1. I(after) = I(rest)
      <4> HIDE DEF after
      <4> QED
        BY <1>0, <2>4
    <3>2. At(after, updated.line) = FirstOf(I(after)) /\ At(rest, updated.line) = FirstOf(I(rest))
      BY DEF At, SelectInSeq, FirstOf
    <3> QED
      BY <3>1, <3>2
  <2>6. total \in 1..MaxQuantity
    <3>1. after[k].quantity <= MaxQuantity
      OBVIOUS
    <3> HIDE DEF total, after, k, m
    <3>2. total <= MaxQuantity
      BY <2>4, <2>5, <3>1
    <3> QED
      BY <2>3, <3>2
  <2> HIDE DEF total, m
  <2>7. LET t == [rest EXCEPT ![m].quantity = total] IN
        /\ t \in Seq(Entry) /\ Len(t) = Len(rest)
        /\ \A j \in DOMAIN rest : t[j].line = rest[j].line
        /\ Single(rest) => Single(t) /\ Pairs(t) = Put(Pairs(rest), rest[m].line, total)
    BY <2>2, <2>6, RequantifiedItems, Zenon
  <2> HIDE DEF after, k
  <2>8. /\ after \in Seq(Entry) /\ after[k].quantity = total
        /\ Single(rest) => Single(after) /\ Pairs(after) = Put(Pairs(rest), updated.line, total)
    BY <2>1, <2>2, <2>4, <2>5, <2>7
  <2> QED
    BY <2>6, <2>8 DEF after, k
<1> QED
  BY <1>2, <1>3

LEMMA LoadedItems ==
    ASSUME NEW rows \in Seq(Row)
    PROVE  /\ Loaded(rows) \in Seq(Entry)
           /\ DOMAIN Loaded(rows) = DOMAIN rows
           /\ \A i \in DOMAIN rows : /\ Loaded(rows)[i].line = rows[i].line
                                     /\ Loaded(rows)[i].quantity = rows[i].quantity
                                     /\ Loaded(rows)[i].serverId = rows[i].id
           /\ Pairs(Loaded(rows)) = Pairs(rows)
           /\ Single(rows) => Single(Loaded(rows))
<1> DEFINE t == Loaded(rows)
<1>0. Len(rows) \in Nat /\ DOMAIN rows = 1..Len(rows) /\ \A j \in DOMAIN rows : rows[j] \in Row
  BY LenProperties, ElementOfSeq
<1>1. /\ DOMAIN t = DOMAIN rows
      /\ \A i \in DOMAIN rows : t[i] = [line |-> rows[i].line, quantity |-> rows[i].quantity,
                                        serverId |-> rows[i].id]
      /\ t \in [DOMAIN rows -> Entry]
  BY <1>0 DEF Loaded, Entry, Row
<1> HIDE DEF t
<1>2. t \in Seq(Entry)
  BY <1>0, <1>1, SeqDef
<1>3. \A i \in DOMAIN rows : /\ t[i].line = rows[i].line /\ t[i].quantity = rows[i].quantity
                             /\ t[i].serverId = rows[i].id
  BY <1>1
<1>4. Pairs(t) = Pairs(rows)
  BY <1>1, <1>3 DEF Pairs
<1>5. Single(rows) => Single(t)
  BY <1>1, <1>3 DEF Single
<1> QED
  BY <1>1, <1>2, <1>3, <1>4, <1>5 DEF t

LEMMA ItemsWithIds ==
    ASSUME items \in Seq(Entry), NEW rows \in Seq(Row)
    PROVE  LET t == WithIds(rows) IN
           /\ t \in Seq(Entry) /\ DOMAIN t = DOMAIN items
           /\ \A i \in DOMAIN items : /\ t[i].line = items[i].line
                                      /\ t[i].quantity = items[i].quantity
                                      /\ At(rows, items[i].line) # 0 =>
                                            t[i].serverId = rows[At(rows, items[i].line)].id
<1> DEFINE t == WithIds(rows)
           match(i) == At(rows, items[i].line)
<1>0. /\ Len(items) \in Nat /\ DOMAIN items = 1..Len(items)
      /\ \A j \in DOMAIN items : items[j] \in Entry
      /\ \A j \in DOMAIN rows : rows[j] \in Row
  BY LenProperties, ElementOfSeq
<1>1. \A i \in DOMAIN items : match(i) # 0 => match(i) \in DOMAIN rows
  BY AtFound
<1>2. /\ DOMAIN t = DOMAIN items
      /\ \A i \in DOMAIN items :
            t[i] = IF match(i) = 0 THEN items[i]
                   ELSE [items[i] EXCEPT !.serverId = rows[match(i)].id]
  BY DEF WithIds
<1> HIDE DEF t, match
<1>3. ASSUME NEW i \in DOMAIN items
      PROVE  /\ t[i] \in Entry
             /\ t[i].line = items[i].line /\ t[i].quantity = items[i].quantity
             /\ match(i) # 0 => t[i].serverId = rows[match(i)].id
  <2>1. CASE match(i) = 0
    BY <1>0, <1>2, <2>1
  <2>2. CASE match(i) # 0
    BY <1>0, <1>1, <1>2, <2>2 DEF Entry, Row
  <2> QED
    BY <2>1, <2>2
<1>4. t \in [1..Len(items) -> Entry]
  <2>1. t = [i \in DOMAIN items |-> t[i]]
    BY DEF t, WithIds
  <2> QED
    BY <1>0, <1>3, <2>1
<1>5. t \in Seq(Entry)
  BY <1>0, <1>4, SeqDef
<1> QED
  BY <1>2, <1>3, <1>5 DEF t, match

-----------------------------------------------------------------------------
(* What an edit and a poll have in common *)

New(new) ==
    /\ new \in Call /\ new.phase = "sent" /\ new.found = 0 /\ new.rows = <<>>
    /\ new.method \in {"upsert", "update"} => new.quantity \in 1..MaxQuantity
    /\ new.method = "upsert" => new.item = 0

LEMMA Sent ==
    ASSUME NEW method \in Methods, NEW c \in Countries, NEW s \in Stores, NEW line \in Lines,
           NEW quantity \in Nat, NEW item \in Nat, NEW setsStore \in BOOLEAN,
           method \in {"upsert", "update"} => quantity \in 1..MaxQuantity,
           method = "upsert" => item = 0,
           Send(method, c, s, line, quantity, item, setsStore)
    PROVE  \E new : /\ New(new) /\ calls' = calls \cup {new}
                    /\ new.method = method /\ new.country = c /\ new.store = s
                    /\ new.line = line /\ new.quantity = quantity /\ new.item = item
<1> DEFINE number == CHOOSE n \in Numbers : TRUE
           new == [n |-> number, phase |-> "sent", found |-> 0, rows |-> <<>>,
                   method |-> method, country |-> c, store |-> s, line |-> line,
                   quantity |-> quantity, item |-> item, setsStore |-> setsStore]
<1>1. number \in 1..MaxCalls /\ calls' = calls \cup {new}
  BY DEF Send, Numbers
<1> HIDE DEF number
<1>2. <<>> \in Seq(Row)
  OBVIOUS
<1>3. /\ new.phase = "sent" /\ new.found = 0 /\ new.rows = <<>> /\ new.method = method /\ new.country = c
      /\ new.store = s /\ new.line = line /\ new.quantity = quantity /\ new.item = item
  OBVIOUS
<1>4. new \in Call
  BY <1>1, <1>2 DEF Call
<1> HIDE DEF new
<1>5. New(new)
  BY <1>3, <1>4 DEF New
<1> QED
  BY <1>1, <1>3, <1>5

LEMMA Requested ==
    ASSUME NEW method \in Methods, country \in Countries, store \in Stores, NEW line \in Lines,
           NEW quantity \in Nat, NEW item \in Nat,
           method \in {"upsert", "update"} => quantity \in 1..MaxQuantity,
           method = "upsert" => item = 0,
           Request(method, line, quantity, item)
    PROVE  \E new : /\ New(new) /\ calls' = calls \cup {new}
                    /\ new.method = method /\ new.country = country /\ new.store = store
                    /\ new.line = line /\ new.quantity = quantity /\ new.item = item
<1> DEFINE setsStore == FALSE
<1>1. setsStore \in BOOLEAN /\ Send(method, country, store, line, quantity, item, setsStore)
  BY DEF Request
<1> HIDE DEF setsStore
<1> QED
  BY <1>1, Sent

\* What the server makes of a request is what the app made of its list.
Settles(new) ==
    /\ new.country = country'
    /\ new.method # "load" =>
          /\ country' = country
          /\ new.method \in {"update", "remove"} => RowOf(server[country], new.item) # 0
          /\ Pairs(items)' = Pairs(Handled(server[country], Looked(server[country], new)))

Edited ==
    /\ country' \in Countries /\ store' \in Stores /\ selected' \in Stores
    /\ items' \in Seq(Entry) /\ editing' \in Entry \cup {Closed}
    /\ moved' \in BOOLEAN /\ (moved => moved')
    /\ ~moved' => store' = HomeStore /\ (~raced => Single(items)')
    /\ \/ /\ calls' = calls
          /\ ~moved' /\ ~raced /\ AgreesWith(server[country]) => AgreesWith(server[country])'
       \/ \E new : /\ New(new) /\ calls' = calls \cup {new}
                   /\ ~moved' => /\ new.store = HomeStore
                                 /\ ~raced /\ AgreesWith(server[country]) => Settles(new)

LEMMA EditedKeeps ==
    ASSUME SyncInv, Edited, server' = server, nextId' = nextId, lost' = lost, raced' = raced,
           overlap' = (overlap \/ calls # {}),
           events' \in 0..MaxEvents, hurries' \in 0..MaxHurries
    PROVE  SyncInv'
<1>0. TypeOK /\ CallsTyped /\ RowsAreSingle /\ OneStore /\ Quiet
  BY DEF SyncInv, LinesInv
<1>1. \A c \in calls' : c \in calls \/ (New(c) /\ (~moved' => c.store = HomeStore))
  BY DEF Edited
<1>2. CallsTyped'
  BY <1>0, <1>1 DEF CallsTyped, New
<1>3. TypeOK'
  <2>1. \A c \in calls' : /\ c.n \in 1..MaxCalls /\ c.country \in Countries /\ c.store \in Stores
                          /\ c.found \in Nat
                          /\ c.phase = "reply" => c.rows \in Seq(Row)
    BY <1>2 DEF CallsTyped, Call
  <2>2. /\ country' \in Countries /\ store' \in Stores /\ selected' \in Stores
        /\ items' \in Seq(Entry) /\ editing' \in Entry \cup {Closed} /\ moved' \in BOOLEAN
    BY DEF Edited
  <2>3. /\ server' \in [Countries -> Seq(Row)] /\ nextId' \in Nat \ {0} /\ lost' \in 0..MaxLost
    BY <1>0 DEF TypeOK
  <2>4. overlap' \in BOOLEAN /\ raced' \in BOOLEAN
    BY <1>0 DEF TypeOK
  <2> QED
    BY <2>1, <2>2, <2>3, <2>4 DEF TypeOK
<1>4. RowsAreSingle'
  <2>1. ~raced => \A c \in calls' : SingleRows(c.rows)
    BY <1>0, <1>1 DEF RowsAreSingle, New, SingleRows
  <2>2. ~raced => FoundAlone'
    <3>1. \A c \in calls' : c.phase = "found" => c \in calls
      BY <1>1 DEF New
    <3> QED
      BY <1>0, <3>1 DEF RowsAreSingle, FoundAlone
  <2> QED
    BY <1>0, <2>1, <2>2 DEF RowsAreSingle
<1>5. OneStore'
  <2> SUFFICES ASSUME ~moved'
               PROVE  /\ store' = HomeStore
                      /\ \A c \in calls' : c.store = HomeStore
                      /\ ~raced => /\ \A c \in calls' : InHomeStore(c.rows)
                                   /\ \A k \in Countries : InHomeStore(server[k])
    BY DEF OneStore
  <2>1. ~moved /\ store' = HomeStore
    BY DEF Edited
  <2>2. \A c \in calls' : c.store = HomeStore /\ (~raced => InHomeStore(c.rows))
    BY <1>0, <1>1, <2>1 DEF OneStore, New, InHomeStore
  <2> QED
    BY <1>0, <2>1, <2>2 DEF OneStore
<1>6. LinesDistinct'
  BY DEF Edited, LinesDistinct, Single
<1>7. Quiet'
  <2> SUFFICES ASSUME ~overlap', ~moved', lost' = 0
               PROVE  /\ ~raced'
                      /\ \/ calls' = {} /\ AgreesWith(server[country])'
                         \/ \E c \in calls' : calls' = {c} /\ Pending(c)'
    BY DEF Quiet
  <2>1. calls = {} /\ AgreesWith(server[country]) /\ ~raced
    BY <1>0 DEF Quiet, Edited
  <2>2. CASE /\ calls' = calls
             /\ ~moved' /\ ~raced /\ AgreesWith(server[country]) => AgreesWith(server[country])'
    BY <2>1, <2>2
  <2>3. CASE \E new : /\ New(new) /\ calls' = calls \cup {new}
                      /\ ~moved' => /\ new.store = HomeStore
                                    /\ ~raced /\ AgreesWith(server[country]) => Settles(new)
    <3>1. PICK new : New(new) /\ calls' = {new} /\ Settles(new)
      BY <2>1, <2>3
    <3>2. new.country = country' /\ new.phase = "sent"
      BY <3>1 DEF Settles, New
    <3>3. ASSUME new.method # "load"
          PROVE  /\ new.method \in {"update", "remove"} => RowOf(server[country], new.item)' # 0
                 /\ Pairs(items)' = Pairs(Handled(server[country], Looked(server[country], new)))'
      <4>1. /\ country' = country
            /\ new.method \in {"update", "remove"} => RowOf(server[country], new.item) # 0
            /\ Pairs(items)' = Pairs(Handled(server[country], Looked(server[country], new)))
        BY <3>1, <3>3 DEF Settles
      <4>2. Handled(server[country], Looked(server[country], new))'
               = Handled(server[country], Looked(server[country], new))
        BY <4>1 DEF Handled, Upserted
      <4> QED
        BY <4>1, <4>2
    <3> QED
      BY <2>1, <3>1, <3>2, <3>3 DEF Pending
  <2> QED
    BY <2>2, <2>3 DEF Edited
<1> QED
  BY <1>2, <1>3, <1>4, <1>5, <1>6, <1>7 DEF SyncInv, LinesInv

LEMMA UserKeeps ==
    ASSUME SyncInv, UserEvent, Edited
    PROVE  SyncInv'
<1>1. /\ server' = server /\ nextId' = nextId /\ lost' = lost /\ raced' = raced
      /\ overlap' = (overlap \/ calls # {})
  BY DEF UserEvent
<1>2. /\ events \in 0..MaxEvents /\ hurries \in 0..MaxHurries
      /\ MaxEvents \in Nat /\ MaxHurries \in Nat
  BY CartSyncAssumption DEF SyncInv, LinesInv, TypeOK
<1>3. events' \in 0..MaxEvents /\ hurries' \in 0..MaxHurries
  BY <1>2 DEF UserEvent
<1> QED
  BY <1>1, <1>3, EditedKeeps

\* What the rows of the chosen country are, and what agreeing with them means.
LEMMA ServerRows ==
    ASSUME SyncInv
    PROVE  /\ ~raced => RowsOf(server[country])
           /\ nextId \in Nat \ {0}
           /\ ~moved => store = HomeStore
           /\ ~moved /\ ~raced => InHomeStore(server[country]) /\ Single(items)
           /\ items \in Seq(Entry) /\ DOMAIN items = 1..Len(items) /\ Len(items) \in Nat
           /\ \A i \in DOMAIN items : items[i] \in Entry
<1>1. items \in Seq(Entry) /\ country \in Countries
  BY DEF SyncInv, LinesInv, TypeOK
<1>2. /\ DOMAIN items = 1..Len(items) /\ Len(items) \in Nat
      /\ \A i \in DOMAIN items : items[i] \in Entry
  BY <1>1, LenProperties, ElementOfSeq
<1>3. (~raced => RowsOf(server[country])) /\ nextId \in Nat \ {0}
  BY <1>1 DEF SyncInv, LinesInv, TypeOK, RowsAreSingle, RowsOf
<1>4. ~moved => store = HomeStore /\ (~raced => InHomeStore(server[country]))
  BY <1>1 DEF SyncInv, LinesInv, OneStore
<1>5. ~moved /\ ~raced => Single(items)
  BY DEF SyncInv, LinesInv, LinesDistinct, Single
<1> QED
  BY <1>1, <1>2, <1>3, <1>4, <1>5

LEMMA Agreement ==
    ASSUME items \in Seq(Entry), NEW rows, RowsOf(rows), AgreesWith(rows)
    PROVE  /\ Pairs(items) = Pairs(rows)
           /\ \A i \in DOMAIN items :
                 /\ items[i].serverId # 0
                 /\ RowOf(rows, items[i].serverId) # 0
                 /\ rows[RowOf(rows, items[i].serverId)].line = items[i].line
<1>0. rows \in Seq(Row) /\ \A j \in DOMAIN rows : rows[j] \in Row
  BY ElementOfSeq, LenProperties DEF RowsOf
<1>1. \A j \in DOMAIN rows : /\ Loaded(rows)[j].line = rows[j].line
                             /\ Loaded(rows)[j].quantity = rows[j].quantity
                             /\ Loaded(rows)[j].serverId = rows[j].id
  BY <1>0, LoadedItems
<1>2. /\ \A i \in DOMAIN items : \E j \in DOMAIN rows :
            /\ items[i].line = rows[j].line /\ items[i].quantity = rows[j].quantity
            /\ items[i].serverId = rows[j].id
      /\ \A j \in DOMAIN rows : \E i \in DOMAIN items :
            items[i].line = rows[j].line /\ items[i].quantity = rows[j].quantity
  BY <1>1 DEF AgreesWith
<1>3. Pairs(items) = Pairs(rows)
  BY <1>2 DEF Pairs
<1>4. ASSUME NEW i \in DOMAIN items
      PROVE  /\ items[i].serverId # 0
             /\ RowOf(rows, items[i].serverId) # 0
             /\ rows[RowOf(rows, items[i].serverId)].line = items[i].line
  <2>1. PICK j \in DOMAIN rows : items[i].line = rows[j].line /\ items[i].serverId = rows[j].id
    BY <1>2
  <2>2. rows[j].id # 0
    BY <1>0 DEF Row
  <2> DEFINE k == RowOf(rows, items[i].serverId)
  <2>3. /\ k = 0 <=> \A n \in DOMAIN rows : rows[n].id # items[i].serverId
        /\ k # 0 => k \in DOMAIN rows /\ rows[k].id = items[i].serverId
    BY <1>0, RowOfFound
  <2> HIDE DEF k
  <2>4. k # 0 /\ k = j
    BY <2>1, <2>3 DEF RowsOf, SingleRows
  <2> QED
    BY <2>1, <2>2, <2>4 DEF k
<1> QED
  BY <1>3, <1>4

-----------------------------------------------------------------------------
(* Each of the user's actions *)

\* The server's rows after a request that changes the line the list was changed in.
LEMMA RequestSettles ==
    ASSUME SyncInv, ~moved, ~raced, AgreesWith(server[country]), NEW new, New(new),
           new.country = country, country' = country, new.store = HomeStore,
           new.method \in {"upsert", "update", "remove", "clear"},
           new.method = "upsert" => Pairs(items)' = Put(Pairs(items), new.line, new.quantity),
           new.method \in {"update", "remove"} =>
               \E i \in DOMAIN items :
                  /\ items[i].serverId = new.item
                  /\ new.method = "update" => Pairs(items)' =
                        Put(Drop(Pairs(items), items[i].line), new.line, new.quantity)
                  /\ new.method = "remove" => Pairs(items)' = Drop(Pairs(items), items[i].line),
           new.method = "clear" => Pairs(items)' = {}
    PROVE  Settles(new)
<1> DEFINE rows == server[country]
           looked == Looked(rows, new)
           after == Handled(rows, looked)
           k == RowOf(rows, new.item)
<1>1. /\ RowsOf(rows) /\ nextId \in Nat \ {0} /\ InHomeStore(rows) /\ items \in Seq(Entry)
  BY ServerRows
<1>2. /\ Pairs(items) = Pairs(rows)
      /\ \A i \in DOMAIN items :
            /\ items[i].serverId # 0
            /\ RowOf(rows, items[i].serverId) # 0
            /\ rows[RowOf(rows, items[i].serverId)].line = items[i].line
  <2> HIDE DEF rows
  <2>1. AgreesWith(rows)
    BY DEF rows
  <2> QED
    BY <1>1, <2>1, Agreement, Zenon
<1>3. new.method \in {"update", "remove"} => k # 0
  BY <1>2
<1>4. /\ new.method = "upsert" => Pairs(after) = Put(Pairs(rows), new.line, new.quantity)
      /\ new.method = "update" =>
            Pairs(after) = Put(Drop(Pairs(rows), rows[k].line), new.line, new.quantity)
      /\ new.method = "remove" => Pairs(after) = Drop(Pairs(rows), rows[k].line)
      /\ new.method = "clear" => Pairs(after) = {}
  <2>1. /\ new \in Call /\ rows \in Seq(Row)
        /\ new.method \in {"upsert", "update"} => new.quantity \in 1..MaxQuantity
        /\ new.method = "upsert" => new.item = 0
    BY <1>1 DEF New, RowsOf
  <2> HIDE DEF rows
  <2>2. /\ looked \in Call /\ looked.method = new.method /\ looked.store = new.store
        /\ looked.line = new.line /\ looked.quantity = new.quantity /\ looked.item = new.item
        /\ looked.found = Finds(rows, looked)
    BY <2>1, LookedCall
  <2> HIDE DEF looked
  <2>3. looked.found = 0 => RowFor(rows, looked) = 0
    BY <1>1, <2>2, FindsNone
  <2>4. LET t == Handled(rows, looked)
            line == rows[RowOf(rows, looked.item)].line IN
        /\ t \in Seq(Row) /\ SingleRows(t)
        /\ From(t, rows, looked)
        /\ looked.method \notin {"upsert", "update"} =>
              \A j \in DOMAIN t : \E i \in DOMAIN rows : t[j] = rows[i]
        /\ \A j \in DOMAIN t : \/ t[j].id < nextId
                               \/ t[j].id = nextId /\ Len(t) > Len(rows)
        /\ /\ InHomeStore(rows) /\ looked.store = HomeStore
           /\ looked.method \in {"upsert", "update"} => looked.found = Finds(rows, looked)
           /\ looked.method \in {"update", "remove"} => RowOf(rows, looked.item) # 0
           => /\ looked.method = "upsert" => Pairs(t) = Put(Pairs(rows), looked.line, looked.quantity)
              /\ looked.method = "update" =>
                    Pairs(t) = Put(Drop(Pairs(rows), line), looked.line, looked.quantity)
              /\ looked.method = "remove" => Pairs(t) = Drop(Pairs(rows), line)
              /\ looked.method = "clear" => Pairs(t) = {}
    <3>1. /\ looked.method # "load"
          /\ looked.method \in {"upsert", "update"} =>
                looked.quantity \in 1..MaxQuantity /\ (looked.found = 0 => RowFor(rows, looked) = 0)
          /\ looked.method = "upsert" => looked.item = 0
      BY <2>1, <2>2, <2>3
    <3> QED
      BY <1>1, <2>2, <3>1, HandledRows, Zenon
  <2> QED
    BY <1>1, <1>3, <2>2, <2>4
<1>5. Pairs(items)' = Pairs(after)
  <2> HIDE DEF after, rows
  <2>1. new.method \in {"update", "remove"} =>
           \E i \in DOMAIN items :
              /\ rows[k].line = items[i].line
              /\ new.method = "update" => Pairs(items)' =
                    Put(Drop(Pairs(items), items[i].line), new.line, new.quantity)
              /\ new.method = "remove" => Pairs(items)' = Drop(Pairs(items), items[i].line)
    BY <1>2
  <2> HIDE DEF k
  <2> QED
    BY <1>2, <1>4, <2>1
<1> QED
  BY <1>3, <1>5 DEF Settles

LEMMA Added ==
    ASSUME SyncInv, NEW l \in Lines, NEW q \in 1..MaxQuantity, ItemAdded(l, q)
    PROVE  Edited
<1> DEFINE i == At(items, l)
           total == IF i = 0 THEN q ELSE items[i].quantity + q
           x == [line |-> l, quantity |-> q, serverId |-> 0]
<1>0. /\ items \in Seq(Entry) /\ DOMAIN items = 1..Len(items) /\ Len(items) \in Nat
      /\ \A j \in DOMAIN items : items[j] \in Entry
      /\ ~moved => store = HomeStore /\ (~raced => Single(items))
      /\ MaxQuantity \in Nat
  BY ServerRows, CartSyncAssumption
<1>1. /\ i = 0 <=> \A j \in DOMAIN items : items[j].line # l
      /\ i # 0 => i \in DOMAIN items /\ items[i].line = l
  BY <1>0, AtFound
<1>2. total \in 1..MaxQuantity
  <2>1. total <= MaxQuantity
    BY DEF ItemAdded
  <2>2. total \in Nat \ {0}
    BY <1>0, <1>1 DEF Entry
  <2> HIDE DEF total
  <2> QED
    BY <1>0, <2>1, <2>2
<1>3. /\ items' \in Seq(Entry)
      /\ Single(items) => Single(items)' /\ Pairs(items)' = Put(Pairs(items), l, total)
  <2>1. CASE i = 0
    <3>1. items' = Append(items, x)
      BY <2>1 DEF ItemAdded
    <3>2. x \in Entry /\ x.line = l /\ x.quantity = total
      BY <2>1 DEF Entry
    <3>3. LET t == Append(items, x) IN
          /\ t \in Seq(Entry)
          /\ Single(items) /\ (\A j \in DOMAIN items : items[j].line # x.line) =>
                Single(t) /\ Pairs(t) = Put(Pairs(items), x.line, x.quantity)
      <4> HIDE DEF x
      <4> QED
        BY <1>0, <3>2, AppendedItems, Zenon
    <3> HIDE DEF x, total
    <3> QED
      BY <1>1, <2>1, <3>1, <3>2, <3>3 DEF Single, Pairs
  <2>2. CASE i # 0
    <3>1. items' = [items EXCEPT ![i].quantity = total]
      BY <2>2 DEF ItemAdded
    <3>2. i \in DOMAIN items /\ items[i].line = l
      BY <1>1, <2>2
    <3> HIDE DEF total, i
    <3>3. LET t == [items EXCEPT ![i].quantity = total] IN
          /\ t \in Seq(Entry) /\ Len(t) = Len(items)
          /\ \A j \in DOMAIN items : t[j].line = items[j].line
          /\ Single(items) => Single(t) /\ Pairs(t) = Put(Pairs(items), items[i].line, total)
      BY <1>0, <1>2, <3>2, RequantifiedItems, Zenon
    <3> QED
      BY <3>1, <3>2, <3>3 DEF Single, Pairs
  <2> QED
    BY <2>1, <2>2
<1>4. /\ country' = country /\ store' = store /\ selected' = selected /\ editing' = editing
      /\ moved' = moved
      /\ Request("upsert", l, total, 0)
  BY DEF ItemAdded, Upsert
<1>5. /\ country \in Countries /\ store \in Stores /\ selected \in Stores
      /\ editing \in Entry \cup {Closed} /\ moved \in BOOLEAN
  BY DEF SyncInv, LinesInv, TypeOK
<1> HIDE DEF total
<1>6. PICK new : /\ New(new) /\ calls' = calls \cup {new}
                 /\ new.method = "upsert" /\ new.country = country /\ new.store = store
                 /\ new.line = l /\ new.quantity = total /\ new.item = 0
  <2>1. total \in Nat /\ "upsert" \in Methods
    BY <1>2 DEF Methods
  <2> QED
    BY <1>2, <1>4, <1>5, <2>1, Requested
<1>7. ~moved' /\ ~raced /\ AgreesWith(server[country]) => Settles(new)
  BY <1>0, <1>3, <1>4, <1>6, RequestSettles
<1> QED
  BY <1>0, <1>3, <1>4, <1>5, <1>6, <1>7 DEF Edited

LEMMA Removed ==
    ASSUME SyncInv, NEW i \in DOMAIN items, ItemRemoved(i)
    PROVE  Edited
<1>0. /\ items \in Seq(Entry) /\ items[i] \in Entry
      /\ ~moved => store = HomeStore /\ (~raced => Single(items))
      /\ ~raced => RowsOf(server[country])
  BY ServerRows
<1>1. /\ items' \in Seq(Entry)
      /\ Single(items) => Single(items)' /\ Pairs(items)' = Drop(Pairs(items), items[i].line)
  <2>1. items' = RemoveFirst(items, items[i])
    BY DEF ItemRemoved
  <2>2. LET t == RemoveFirst(items, items[i]) IN
        /\ t \in Seq(Entry)
        /\ Single(items) => Single(t) /\ Pairs(t) = Drop(Pairs(items), items[i].line)
    BY <1>0, RemovedItems, Zenon
  <2> QED
    BY <2>1, <2>2 DEF Single, Pairs
<1>2. /\ country' = country /\ store' = store /\ selected' = selected /\ editing' = editing
      /\ moved' = moved /\ server' = server
  BY DEF ItemRemoved, UserEvent
<1>3. /\ country \in Countries /\ store \in Stores /\ selected \in Stores
      /\ editing \in Entry \cup {Closed} /\ moved \in BOOLEAN
  BY DEF SyncInv, LinesInv, TypeOK
<1>4. CASE items[i].serverId # 0
  <2>1. Request("remove", NoLine, 0, items[i].serverId)
    BY <1>4 DEF ItemRemoved
  <2>2. PICK new : /\ New(new) /\ calls' = calls \cup {new}
                   /\ new.method = "remove" /\ new.country = country /\ new.store = store
                   /\ new.item = items[i].serverId
    <3>1. "remove" \in Methods /\ NoLine \in Lines /\ items[i].serverId \in Nat
      BY <1>0, CartSyncAssumption DEF Methods, NoLine, Entry
    <3> QED
      BY <1>3, <2>1, <3>1, Requested
  <2>3. ~moved' /\ ~raced /\ AgreesWith(server[country]) => Settles(new)
    BY <1>0, <1>1, <1>2, <2>2, RequestSettles
  <2> QED
    BY <1>0, <1>1, <1>2, <1>3, <2>2, <2>3 DEF Edited
<1>5. CASE items[i].serverId = 0
  <2>1. calls' = calls
    BY <1>5 DEF ItemRemoved
  <2>2. ~raced => ~AgreesWith(server[country])
    BY <1>0, <1>5, Agreement
  <2> QED
    BY <1>0, <1>1, <1>2, <1>3, <2>1, <2>2 DEF Edited
<1> QED
  BY <1>4, <1>5

LEMMA QuantityUpdated ==
    ASSUME SyncInv, NEW i \in DOMAIN items, NEW q \in 1..MaxQuantity, ItemQuantityUpdated(i, q)
    PROVE  Edited
<1>0. /\ items \in Seq(Entry) /\ items[i] \in Entry
      /\ ~moved => store = HomeStore /\ (~raced => Single(items))
      /\ MaxQuantity \in Nat
  BY ServerRows, CartSyncAssumption
<1>1. /\ items' \in Seq(Entry)
      /\ Single(items) => Single(items)' /\ Pairs(items)' = Put(Pairs(items), items[i].line, q)
  <2>1. items' = [items EXCEPT ![i].quantity = q]
    BY DEF ItemQuantityUpdated
  <2>2. LET t == [items EXCEPT ![i].quantity = q] IN
        /\ t \in Seq(Entry) /\ Len(t) = Len(items)
        /\ \A j \in DOMAIN items : t[j].line = items[j].line
        /\ Single(items) => Single(t) /\ Pairs(t) = Put(Pairs(items), items[i].line, q)
    BY <1>0, RequantifiedItems, Zenon
  <2> QED
    BY <2>1, <2>2 DEF Single, Pairs
<1>2. /\ country' = country /\ store' = store /\ selected' = selected /\ editing' = editing
      /\ moved' = moved
      /\ Request("upsert", items[i].line, q, 0)
  BY DEF ItemQuantityUpdated, Upsert
<1>3. /\ country \in Countries /\ store \in Stores /\ selected \in Stores
      /\ editing \in Entry \cup {Closed} /\ moved \in BOOLEAN
  BY DEF SyncInv, LinesInv, TypeOK
<1>4. PICK new : /\ New(new) /\ calls' = calls \cup {new}
                 /\ new.method = "upsert" /\ new.country = country /\ new.store = store
                 /\ new.line = items[i].line /\ new.quantity = q /\ new.item = 0
  <2>1. q \in Nat /\ "upsert" \in Methods /\ items[i].line \in Lines
    BY <1>0 DEF Methods, Entry
  <2> QED
    BY <1>2, <1>3, <2>1, Requested
<1>5. ~moved' /\ ~raced /\ AgreesWith(server[country]) => Settles(new)
  BY <1>0, <1>1, <1>2, <1>4, RequestSettles
<1> QED
  BY <1>0, <1>1, <1>2, <1>3, <1>4, <1>5 DEF Edited

LEMMA Opened ==
    ASSUME SyncInv, NEW i \in DOMAIN items, OpenItem(i)
    PROVE  Edited
<1>0. /\ items \in Seq(Entry) /\ items[i] \in Entry
      /\ ~moved => store = HomeStore /\ (~raced => Single(items))
  BY ServerRows
<1>1. /\ country' = country /\ store' = store /\ selected' = selected /\ editing' = items[i]
      /\ items' = items /\ calls' = calls /\ moved' = moved /\ server' = server
  BY DEF OpenItem, UserEvent
<1>2. /\ country \in Countries /\ store \in Stores /\ selected \in Stores /\ moved \in BOOLEAN
  BY DEF SyncInv, LinesInv, TypeOK
<1>3. Single(items)' = Single(items) /\ AgreesWith(server[country])' = AgreesWith(server[country])
  BY <1>1 DEF Single, AgreesWith
<1> QED
  BY <1>0, <1>1, <1>2, <1>3 DEF Edited

LEMMA ConfigurationUpdated ==
    ASSUME SyncInv, NEW l \in Lines, NEW q \in 1..MaxQuantity, ItemConfigurationUpdated(l, q)
    PROVE  Edited
<1> DEFINE i == SelectInSeq(items, LAMBDA e : e = editing)
           rest == RemoveAt(items, i)
           updated == [editing EXCEPT !.line = l, !.quantity = q]
           after == Merged(rest, i, updated)
           total == after[At(after, l)].quantity
<1>0. /\ items \in Seq(Entry) /\ DOMAIN items = 1..Len(items) /\ Len(items) \in Nat
      /\ \A j \in DOMAIN items : items[j] \in Entry
      /\ ~moved => store = HomeStore /\ (~raced => Single(items))
      /\ ~raced => RowsOf(server[country])
      /\ MaxQuantity \in Nat
  BY ServerRows, CartSyncAssumption
<1>1. /\ i \in 0..Len(items)
      /\ i = 0 <=> \A j \in DOMAIN items : items[j] # editing
      /\ i # 0 => i \in DOMAIN items /\ items[i] = editing
  BY <1>0, EditedFound, Zenon
<1>2. /\ country' = country /\ store' = store /\ selected' = selected /\ editing' = Closed
      /\ moved' = moved /\ server' = server /\ editing # Closed
      /\ i = 0 => items' = items /\ calls' = calls
      /\ i # 0 => /\ total <= MaxQuantity /\ items' = after
                  /\ IF l # editing.line /\ editing.serverId # 0
                     THEN Request("update", l, total, editing.serverId)
                     ELSE Request("upsert", l, total, 0)
  BY DEF ItemConfigurationUpdated, UserEvent, Upsert
<1>3. /\ country \in Countries /\ store \in Stores /\ selected \in Stores
      /\ editing \in Entry \cup {Closed} /\ moved \in BOOLEAN
  BY DEF SyncInv, LinesInv, TypeOK
<1>4. CASE i = 0
  <2>1. items' = items /\ calls' = calls
    BY <1>2, <1>4
  <2>2. Single(items)' = Single(items) /\ AgreesWith(server[country])' = AgreesWith(server[country])
    BY <1>2, <2>1 DEF Single, AgreesWith
  <2> HIDE DEF i
  <2> QED
    BY <1>0, <1>2, <1>3, <2>1, <2>2 DEF Edited
<1>5. CASE i # 0
  <2>1. i \in 1..Len(items) /\ items[i] = editing /\ editing \in Entry
    BY <1>0, <1>1, <1>2, <1>3, <1>5
  <2>2. updated \in Entry /\ updated.line = l /\ updated.quantity = q
    BY <2>1 DEF Entry
  <2>3. rest \in Seq(Entry) /\ Len(rest) = Len(items) - 1
    BY <1>0, <2>1, WithoutOne
  <2>4. Single(items) => Single(rest) /\ Pairs(rest) = Drop(Pairs(items), editing.line)
    <3>1. Single(items) => Single(RemoveAt(items, i))
                           /\ Pairs(RemoveAt(items, i)) = Drop(Pairs(items), items[i].line)
      BY <1>0, <2>1, PairsWithout, Zenon
    <3> QED
      BY <2>1, <3>1
  <2>5. /\ items' = after /\ total <= MaxQuantity
        /\ IF l # editing.line /\ editing.serverId # 0
           THEN Request("update", l, total, editing.serverId)
           ELSE Request("upsert", l, total, 0)
    BY <1>2, <1>5
  <2>6. /\ after \in Seq(Entry) /\ total \in 1..MaxQuantity
        /\ Single(rest) => Single(after) /\ Pairs(after) = Put(Pairs(rest), l, total)
    <3> HIDE DEF i, rest, updated
    <3>1. i \in 1..Len(rest) + 1
      BY <1>0, <2>1, <2>3
    <3>2. LET t == Merged(rest, i, updated) IN
          t[At(t, updated.line)].quantity <= MaxQuantity
      BY <2>2, <2>5
    <3>3. LET t == Merged(rest, i, updated) IN
          /\ t \in Seq(Entry)
          /\ t[At(t, updated.line)].quantity \in 1..MaxQuantity
          /\ Single(rest) =>
                /\ Single(t)
                /\ Pairs(t) = Put(Pairs(rest), updated.line, t[At(t, updated.line)].quantity)
      BY <1>0, <2>2, <2>3, <3>1, <3>2, MergedItems, Zenon
    <3> QED
      BY <2>2, <3>3
  <2> HIDE DEF i, rest, updated, after, total
  <2>7. /\ items' \in Seq(Entry)
        /\ Single(items) =>
              Single(items)' /\ Pairs(items)' = Put(Drop(Pairs(items), editing.line), l, total)
    BY <2>4, <2>5, <2>6 DEF Single, Pairs
  <2>8. l = editing.line =>
           Put(Drop(Pairs(items), editing.line), l, total) = Put(Pairs(items), l, total)
    BY DEF Put, Drop
  <2>9. total \in Nat
    BY <2>6
  <2>10. CASE l # editing.line /\ editing.serverId # 0
    <3>1. PICK new : /\ New(new) /\ calls' = calls \cup {new}
                     /\ new.method = "update" /\ new.country = country /\ new.store = store
                     /\ new.line = l /\ new.quantity = total /\ new.item = editing.serverId
      <4>1. "update" \in Methods /\ editing.serverId \in Nat
        BY <2>1 DEF Methods, Entry
      <4> QED
        BY <1>3, <2>5, <2>6, <2>9, <2>10, <4>1, Requested
    <3>2. i \in DOMAIN items
      BY <1>0, <2>1
    <3>3. ~moved' /\ ~raced /\ AgreesWith(server[country]) => Settles(new)
      BY <1>0, <1>2, <2>1, <2>7, <3>1, <3>2, RequestSettles
    <3> QED
      BY <1>0, <1>2, <1>3, <2>7, <3>1, <3>3 DEF Edited
  <2>11. CASE ~(l # editing.line /\ editing.serverId # 0)
    <3>1. PICK new : /\ New(new) /\ calls' = calls \cup {new}
                     /\ new.method = "upsert" /\ new.country = country /\ new.store = store
                     /\ new.line = l /\ new.quantity = total /\ new.item = 0
      <4>1. "upsert" \in Methods
        BY DEF Methods
      <4> QED
        BY <1>3, <2>5, <2>6, <2>9, <2>11, <4>1, Requested
    <3>2. ~raced /\ AgreesWith(server[country]) => l = editing.line
      <4>1. i \in DOMAIN items
        BY <1>0, <2>1
      <4> QED
        BY <1>0, <2>1, <2>11, <4>1, Agreement
    <3>3. ~moved' /\ ~raced /\ AgreesWith(server[country]) => Settles(new)
      BY <1>0, <1>2, <2>7, <2>8, <3>1, <3>2, RequestSettles
    <3> QED
      BY <1>0, <1>2, <1>3, <2>7, <3>1, <3>3 DEF Edited
  <2> QED
    BY <2>10, <2>11
<1> QED
  BY <1>4, <1>5

LEMMA Emptied ==
    ASSUME SyncInv, Cleared
    PROVE  Edited
<1>0. (~moved => store = HomeStore /\ (~raced => Single(items))) /\ NoLine \in Lines
  BY ServerRows, CartSyncAssumption DEF NoLine
<1>1. /\ items' = <<>> /\ country' = country /\ store' = store /\ selected' = selected
      /\ editing' = editing /\ moved' = moved
      /\ Request("clear", NoLine, 0, 0)
  BY DEF Cleared
<1>2. /\ country \in Countries /\ store \in Stores /\ selected \in Stores
      /\ editing \in Entry \cup {Closed} /\ moved \in BOOLEAN
  BY DEF SyncInv, LinesInv, TypeOK
<1>3. items' \in Seq(Entry) /\ Single(items)' /\ Pairs(items)' = {}
  BY <1>1 DEF Single, Pairs
<1>4. PICK new : /\ New(new) /\ calls' = calls \cup {new}
                 /\ new.method = "clear" /\ new.country = country /\ new.store = store
  <2>1. "clear" \in Methods
    BY DEF Methods
  <2> QED
    BY <1>0, <1>1, <1>2, <2>1, Requested
<1>5. ~moved' /\ ~raced /\ AgreesWith(server[country]) => Settles(new)
  BY <1>0, <1>1, <1>3, <1>4, RequestSettles
<1> QED
  BY <1>0, <1>1, <1>2, <1>3, <1>4, <1>5 DEF Edited

LEMMA LoadSent ==
    ASSUME NEW c \in Countries, NEW s \in Stores, NEW setsStore \in BOOLEAN, Load(c, s, setsStore)
    PROVE  \E new : /\ New(new) /\ calls' = calls \cup {new}
                    /\ new.method = "load" /\ new.country = c /\ new.store = s
<1>1. "load" \in Methods /\ NoLine \in Lines
  BY CartSyncAssumption DEF Methods, NoLine
<1>2. Send("load", c, s, NoLine, 0, 0, setsStore)
  BY DEF Load
<1> QED
  BY <1>1, <1>2, Sent

LEMMA CountrySwitched ==
    ASSUME SyncInv, NEW c \in Countries, SwitchCountry(c)
    PROVE  Edited
<1>0. ~moved => store = HomeStore
  BY ServerRows
<1>1. /\ items' = <<>> /\ country' = c /\ store' = store /\ selected' = selected
      /\ editing' = editing /\ moved' = moved
      /\ \E b \in BOOLEAN : Load(c, store, b)
  BY DEF SwitchCountry
<1>2. /\ store \in Stores /\ selected \in Stores
      /\ editing \in Entry \cup {Closed} /\ moved \in BOOLEAN
  BY DEF SyncInv, LinesInv, TypeOK
<1>3. items' \in Seq(Entry) /\ Single(items)'
  BY <1>1 DEF Single
<1>4. PICK new : /\ New(new) /\ calls' = calls \cup {new}
                 /\ new.method = "load" /\ new.country = c /\ new.store = store
  BY <1>1, <1>2, LoadSent
<1>5. Settles(new)
  BY <1>1, <1>4 DEF Settles
<1> QED
  BY <1>0, <1>1, <1>2, <1>3, <1>4, <1>5 DEF Edited

LEMMA StoreSet ==
    ASSUME SyncInv, NEW s \in Stores, SetStore(s)
    PROVE  Edited
<1>1. /\ items' = items /\ country' = country /\ store' = s /\ selected' = s
      /\ editing' = editing /\ moved'
      /\ calls' = calls \/ \E b \in BOOLEAN : Load(country, s, b)
  BY DEF SetStore
<1>2. /\ country \in Countries /\ items \in Seq(Entry)
      /\ editing \in Entry \cup {Closed} /\ moved' \in BOOLEAN
  BY DEF SyncInv, LinesInv, TypeOK, SetStore
<1>3. CASE calls' = calls
  BY <1>1, <1>2, <1>3 DEF Edited
<1>4. CASE \E b \in BOOLEAN : Load(country, s, b)
  <2>1. PICK new : New(new) /\ calls' = calls \cup {new}
    BY <1>2, <1>4, LoadSent
  <2> QED
    BY <1>1, <1>2, <2>1 DEF Edited
<1> QED
  BY <1>1, <1>3, <1>4

LEMMA PollKeeps ==
    ASSUME SyncInv, Poll
    PROVE  SyncInv'
<1>0. ~moved => store = HomeStore /\ (~raced => Single(items))
  BY ServerRows
<1>1. /\ items' = items /\ country' = country /\ store' = store /\ selected' = selected
      /\ editing' = editing /\ moved' = moved
      /\ \E b \in BOOLEAN : Load(country, store, b)
  BY DEF Poll, local
<1>2. /\ country \in Countries /\ store \in Stores /\ selected \in Stores /\ items \in Seq(Entry)
      /\ editing \in Entry \cup {Closed} /\ moved \in BOOLEAN
  BY DEF SyncInv, LinesInv, TypeOK
<1>3. PICK new : /\ New(new) /\ calls' = calls \cup {new}
                 /\ new.method = "load" /\ new.country = country /\ new.store = store
  BY <1>1, <1>2, LoadSent
<1>4. Settles(new) /\ Single(items)' = Single(items)
  BY <1>1, <1>3 DEF Settles, Single
<1>5. Edited
  BY <1>0, <1>1, <1>2, <1>3, <1>4 DEF Edited
<1>6. /\ server' = server /\ nextId' = nextId /\ lost' = lost /\ raced' = raced
      /\ overlap' = (overlap \/ calls # {}) /\ events' = events /\ hurries' = hurries
  BY DEF Poll
<1>7. events' \in 0..MaxEvents /\ hurries' \in 0..MaxHurries
  BY <1>6 DEF SyncInv, LinesInv, TypeOK
<1> QED
  BY <1>5, <1>6, <1>7, EditedKeeps

-----------------------------------------------------------------------------
(* The server and the replies *)

LEMMA LoseKeeps ==
    ASSUME SyncInv, NEW c \in calls, Lose(c)
    PROVE  SyncInv'
<1>0. TypeOK /\ CallsTyped /\ RowsAreSingle /\ OneStore /\ LinesDistinct
  BY DEF SyncInv, LinesInv
<1>1. /\ country' = country /\ store' = store /\ selected' = selected /\ items' = items
      /\ editing' = editing /\ server' = server /\ nextId' = nextId
      /\ events' = events /\ hurries' = hurries /\ overlap' = overlap /\ moved' = moved
      /\ raced' = raced /\ calls' = calls \ {c} /\ lost' = lost + 1 /\ lost < MaxLost
  BY DEF Lose, local
<1>2. lost \in 0..MaxLost /\ MaxLost \in Nat
  BY <1>0, CartSyncAssumption DEF TypeOK
<1>3. lost' \in 0..MaxLost /\ lost' # 0
  BY <1>1, <1>2
<1>4. TypeOK'
  BY <1>0, <1>1, <1>3 DEF TypeOK
<1>5. CallsTyped' /\ RowsAreSingle' /\ OneStore' /\ LinesDistinct'
  BY <1>0, <1>1 DEF CallsTyped, RowsAreSingle, FoundAlone, OneStore, LinesDistinct
<1>6. Quiet'
  BY <1>3 DEF Quiet
<1> QED
  BY <1>4, <1>5, <1>6 DEF SyncInv, LinesInv

\* What a reply leaves alone.
LEMMA ReplyKeeps ==
    ASSUME SyncInv, NEW c \in calls, calls' = calls \ {c}, items' \in Seq(Entry),
           ~moved /\ ~raced => Single(items)', store' \in {store, c.store},
           UNCHANGED <<country, selected, editing, server, nextId, bounds>>,
           ~overlap /\ ~moved /\ ~raced /\ lost = 0 /\ Pending(c) => AgreesWith(server[country])'
    PROVE  SyncInv'
<1>0. TypeOK /\ CallsTyped /\ RowsAreSingle /\ OneStore /\ LinesDistinct /\ Quiet
  BY DEF SyncInv, LinesInv
<1>1. /\ country' = country /\ selected' = selected /\ editing' = editing
      /\ server' = server /\ nextId' = nextId /\ events' = events /\ hurries' = hurries
      /\ overlap' = overlap /\ raced' = raced /\ moved' = moved /\ lost' = lost
  BY DEF bounds
<1>2. store' \in Stores /\ (~moved => store' = HomeStore)
  BY <1>0 DEF TypeOK, OneStore
<1>3. TypeOK'
  BY <1>0, <1>1, <1>2 DEF TypeOK
<1>4. CallsTyped' /\ RowsAreSingle' /\ OneStore'
  BY <1>0, <1>1, <1>2 DEF CallsTyped, RowsAreSingle, FoundAlone, OneStore
<1>5. LinesDistinct'
  BY <1>1 DEF LinesDistinct, Single
<1>6. Quiet'
  BY <1>0, <1>1 DEF Quiet
<1> QED
  BY <1>3, <1>4, <1>5, <1>6 DEF SyncInv, LinesInv

LEMMA LoadReplyKeeps ==
    ASSUME SyncInv, NEW c \in calls, LoadReply(c)
    PROVE  SyncInv'
<1>0. /\ c \in Call /\ (~raced => SingleRows(c.rows))
      /\ ~moved /\ ~raced => InHomeStore(c.rows)
      /\ items' = Loaded(c.rows) /\ c.phase = "reply"
  BY DEF SyncInv, LinesInv, CallsTyped, RowsAreSingle, OneStore, LoadReply
<1>1. c.rows \in Seq(Row)
  BY <1>0 DEF Call
<1>2. /\ Loaded(c.rows) \in Seq(Entry) /\ DOMAIN Loaded(c.rows) = DOMAIN c.rows
      /\ Single(c.rows) => Single(Loaded(c.rows))
  BY <1>1, LoadedItems
<1>3. items' \in Seq(Entry) /\ (~moved /\ ~raced => Single(items)')
  BY <1>0, <1>2, HomeRowsAreSingle DEF Single
<1>4. Pending(c) => AgreesWith(server[country])'
  <2> SUFFICES ASSUME Pending(c)
               PROVE  AgreesWith(server[country])'
    OBVIOUS
  <2>1. server'[country'] = c.rows
    BY <1>0 DEF Pending, LoadReply
  <2>2. AgreesWith(c.rows)'
    BY <1>0, <1>2 DEF AgreesWith
  <2> QED
    BY <2>1, <2>2 DEF AgreesWith
<1>5. /\ calls' = calls \ {c} /\ store' \in {store, c.store}
      /\ UNCHANGED <<country, selected, editing, server, nextId, bounds>>
  BY DEF LoadReply
<1> QED
  BY <1>3, <1>4, <1>5, ReplyKeeps

LEMMA ServerIdsKeep ==
    ASSUME SyncInv, NEW c \in calls, ServerIdsApplied(c)
    PROVE  SyncInv'
<1> DEFINE rows == c.rows
<1>0. /\ c \in Call /\ (~raced => SingleRows(rows))
      /\ ~moved /\ ~raced => InHomeStore(rows)
      /\ items' = WithIds(rows) /\ c.phase = "reply" /\ c.method # "load"
  BY DEF SyncInv, LinesInv, CallsTyped, RowsAreSingle, OneStore, ServerIdsApplied
<1>1. rows \in Seq(Row)
  BY <1>0 DEF Call
<1> HIDE DEF rows
<1>2. items \in Seq(Entry) /\ (~moved /\ ~raced => Single(items))
  BY ServerRows
<1>3. LET t == WithIds(rows) IN
      /\ t \in Seq(Entry) /\ DOMAIN t = DOMAIN items
      /\ \A i \in DOMAIN items : /\ t[i].line = items[i].line
                                 /\ t[i].quantity = items[i].quantity
                                 /\ At(rows, items[i].line) # 0 =>
                                       t[i].serverId = rows[At(rows, items[i].line)].id
  BY <1>1, <1>2, ItemsWithIds, Zenon
<1>4. /\ items' \in Seq(Entry) /\ DOMAIN items' = DOMAIN items
      /\ \A i \in DOMAIN items : /\ items'[i].line = items[i].line
                                 /\ items'[i].quantity = items[i].quantity
                                 /\ At(rows, items[i].line) # 0 =>
                                       items'[i].serverId = rows[At(rows, items[i].line)].id
  BY <1>0, <1>3
<1>5. ~moved /\ ~raced => Single(items)'
  BY <1>2, <1>4 DEF Single
<1>6. ASSUME ~moved, ~raced, Pending(c)
      PROVE  AgreesWith(server[country])'
  <2>1. server'[country'] = rows /\ Pairs(items) = Pairs(rows)
    BY <1>0, <1>6 DEF Pending, ServerIdsApplied, rows
  <2>2. Single(rows)
    BY <1>0, <1>6, HomeRowsAreSingle
  <2>3. /\ Loaded(rows) \in Seq(Entry) /\ DOMAIN Loaded(rows) = DOMAIN rows
        /\ \A j \in DOMAIN rows : /\ Loaded(rows)[j].line = rows[j].line
                                  /\ Loaded(rows)[j].quantity = rows[j].quantity
                                  /\ Loaded(rows)[j].serverId = rows[j].id
    BY <1>1, LoadedItems
  <2>4. ASSUME NEW i \in DOMAIN items, NEW j \in DOMAIN rows,
               items[i].line = rows[j].line, items[i].quantity = rows[j].quantity
        PROVE  items'[i] = Loaded(rows)[j]
    <3>1. At(rows, items[i].line) = j
      <4> DEFINE m == At(rows, items[i].line)
      <4>1. /\ m = 0 <=> \A k \in DOMAIN rows : rows[k].line # items[i].line
            /\ m # 0 => m \in DOMAIN rows /\ rows[m].line = items[i].line
        BY <1>1, AtFound
      <4> HIDE DEF m
      <4>2. m = j
        BY <2>2, <2>4, <4>1 DEF Single
      <4> QED
        BY <4>2 DEF m
    <3>2. j # 0
      BY <1>1, LenProperties
    <3>3. /\ items'[i].line = Loaded(rows)[j].line /\ items'[i].quantity = Loaded(rows)[j].quantity
          /\ items'[i].serverId = Loaded(rows)[j].serverId
      BY <1>4, <2>3, <2>4, <3>1, <3>2
    <3>4. items'[i] \in Entry /\ Loaded(rows)[j] \in Entry
      <4>1. \A k \in DOMAIN items' : items'[k] \in Entry
        BY <1>4, LenProperties, ElementOfSeq
      <4>2. \A k \in DOMAIN Loaded(rows) : Loaded(rows)[k] \in Entry
        BY <2>3, LenProperties, ElementOfSeq
      <4> QED
        BY <1>4, <2>3, <4>1, <4>2
    <3> QED
      BY <3>3, <3>4 DEF Entry
  <2>5. /\ \A i \in DOMAIN items : \E j \in DOMAIN rows :
              items[i].line = rows[j].line /\ items[i].quantity = rows[j].quantity
        /\ \A j \in DOMAIN rows : \E i \in DOMAIN items :
              items[i].line = rows[j].line /\ items[i].quantity = rows[j].quantity
    <3>1. ASSUME NEW i \in DOMAIN items
          PROVE  \E j \in DOMAIN rows :
                    items[i].line = rows[j].line /\ items[i].quantity = rows[j].quantity
      <4>1. <<items[i].line, items[i].quantity>> \in Pairs(rows)
        BY <2>1 DEF Pairs
      <4> QED
        BY <4>1 DEF Pairs
    <3>2. ASSUME NEW j \in DOMAIN rows
          PROVE  \E i \in DOMAIN items :
                    items[i].line = rows[j].line /\ items[i].quantity = rows[j].quantity
      <4>1. <<rows[j].line, rows[j].quantity>> \in Pairs(items)
        BY <2>1 DEF Pairs
      <4> QED
        BY <4>1 DEF Pairs
    <3> QED
      BY <3>1, <3>2
  <2>6. AgreesWith(rows)'
    <3>1. /\ \A i \in DOMAIN items' : \E j \in DOMAIN rows : items'[i] = Loaded(rows)[j]
          /\ \A j \in DOMAIN rows : \E i \in DOMAIN items' : items'[i] = Loaded(rows)[j]
      BY <1>4, <2>4, <2>5
    <3> QED
      BY <3>1 DEF AgreesWith, rows
  <2> QED
    BY <2>1, <2>6 DEF AgreesWith, rows
<1>7. /\ calls' = calls \ {c} /\ store' \in {store, c.store}
      /\ UNCHANGED <<country, selected, editing, server, nextId, bounds>>
  BY DEF ServerIdsApplied
<1> QED
  BY <1>4, <1>5, <1>6, <1>7, ReplyKeeps

\* A step of the server for one request.
LEMMA ServerStep ==
    ASSUME SyncInv, NEW c \in calls, NEW d \in Call,
           d.country = c.country, d.store = c.store, d.method = c.method,
           d.quantity = c.quantity, d.item = c.item, calls' \subseteq calls \cup {d},
           server' \in [Countries -> Seq(Row)], nextId' \in Nat \ {0},
           raced' \in BOOLEAN, raced => raced',
           UNCHANGED <<local, events, lost, hurries, overlap, moved>>
    PROVE  TypeOK' /\ CallsTyped' /\ LinesDistinct'
<1>0. TypeOK /\ CallsTyped /\ LinesDistinct
  BY DEF SyncInv, LinesInv
<1>1. /\ country' = country /\ store' = store /\ selected' = selected /\ items' = items
      /\ editing' = editing /\ events' = events /\ lost' = lost /\ hurries' = hurries
      /\ overlap' = overlap /\ moved' = moved
  BY DEF local
<1>2. CallsTyped'
  BY <1>0 DEF CallsTyped
<1>3. \A e \in calls' : /\ e.n \in 1..MaxCalls /\ e.country \in Countries /\ e.store \in Stores
                        /\ e.found \in Nat
                        /\ e.phase = "reply" => e.rows \in Seq(Row)
  BY <1>2 DEF CallsTyped, Call
<1>4. TypeOK'
  BY <1>0, <1>1, <1>3 DEF TypeOK
<1>5. LinesDistinct'
  BY <1>0, <1>1 DEF LinesDistinct
<1> QED
  BY <1>2, <1>4, <1>5

\* A request that ends without an effect, which one under way alone does not.
LEMMA RefusedKeeps ==
    ASSUME SyncInv, NEW c \in calls, calls' = calls \ {c}, ~raced => ~Pending(c),
           UNCHANGED <<local, server, nextId, bounds>>
    PROVE  SyncInv'
<1>1. /\ country' = country /\ store' = store /\ selected' = selected /\ items' = items
      /\ editing' = editing
  BY DEF local
<1>2. items \in Seq(Entry) /\ (~moved /\ ~raced => Single(items))
  BY ServerRows
<1>3. items' \in Seq(Entry) /\ (~moved /\ ~raced => Single(items)')
  BY <1>1, <1>2 DEF Single
<1> QED
  BY <1>1, <1>3, ReplyKeeps

LEMMA FindKeeps ==
    ASSUME SyncInv, NEW c \in calls, Find(c)
    PROVE  SyncInv'
<1> DEFINE rows == server[c.country]
           d == [c EXCEPT !.phase = "found", !.found = Finds(rows, c)]
           missing == c.method = "update" /\ RowOf(rows, c.item) = 0
<1>0. TypeOK /\ CallsTyped /\ RowsAreSingle /\ OneStore /\ LinesDistinct /\ Quiet
  BY DEF SyncInv, LinesInv
<1>1. /\ country' = country /\ store' = store /\ selected' = selected /\ items' = items
      /\ editing' = editing /\ events' = events /\ lost' = lost /\ hurries' = hurries
      /\ overlap' = overlap /\ moved' = moved /\ server' = server /\ nextId' = nextId
      /\ c.phase = "sent" /\ c.method \in {"upsert", "update"}
  BY DEF Find, local
<1>2. c \in Call /\ c.country \in Countries /\ rows \in Seq(Row)
  BY <1>0 DEF CallsTyped, Call, TypeOK
<1>3. CASE missing
  <2>1. calls' = calls \ {c} /\ raced' = raced
    BY <1>3 DEF Find
  <2>2. ~Pending(c)
    BY <1>1, <1>3 DEF Pending
  <2> QED
    BY <1>1, <2>1, <2>2, RefusedKeeps DEF local, bounds
<1>4. CASE ~missing
  <2>1. /\ calls' = (calls \ {c}) \cup {d}
        /\ raced' = (raced \/ \E e \in calls : e.phase = "found" /\ SameLine(c, e))
    BY <1>4 DEF Find, Finds
  <2>2. Looked(rows, c) \in Call /\ Finds(rows, c) \in Nat
    <3>1. LET x == Looked(rows, c) IN x \in Call /\ x.found = Finds(rows, c)
      BY <1>2, LookedCall
    <3>2. \A x \in Call : x.found \in Nat
      BY DEF Call
    <3> QED
      BY <3>1, <3>2
  <2>3. /\ d \in Call /\ d.country = c.country /\ d.store = c.store /\ d.method = c.method
        /\ d.quantity = c.quantity /\ d.item = c.item /\ d.line = c.line /\ d.phase = "found"
        /\ d.found = Finds(rows, c) /\ d.rows = c.rows
    BY <1>2, <2>2 DEF Call
  <2> HIDE DEF d
  <2>4. TypeOK' /\ CallsTyped' /\ LinesDistinct'
    <3>1. raced' \in BOOLEAN /\ (raced => raced')
      BY <1>0, <2>1 DEF TypeOK
    <3>2. server' \in [Countries -> Seq(Row)] /\ nextId' \in Nat \ {0}
      BY <1>0, <1>1 DEF TypeOK
    <3>3. UNCHANGED <<local, events, lost, hurries, overlap, moved>>
      BY DEF Find
    <3> QED
      BY <2>1, <2>3, <3>1, <3>2, <3>3, ServerStep
  <2>5. RowsAreSingle'
    <3> SUFFICES ASSUME ~raced'
                 PROVE  /\ \A e \in calls' : SingleRows(e.rows)
                        /\ FoundAlone'
                        /\ ~raced
      BY <1>0, <1>1, <2>1 DEF RowsAreSingle
    <3>1. ~raced /\ \A e \in calls : e.phase = "found" => ~SameLine(c, e)
      BY <2>1
    <3>2. \A e \in calls' : SingleRows(e.rows)
      BY <1>0, <2>1, <2>3, <3>1 DEF RowsAreSingle
    <3>3. FoundAlone
      BY <1>0, <3>1 DEF RowsAreSingle
    <3>4. \A e \in calls' : e.phase = "found" /\ e.found = 0 => RowFor(server[e.country], e) = 0
      <4>1. RowsOf(rows)
        BY <1>0, <1>2, <3>1 DEF RowsAreSingle, RowsOf
      <4>2. d.found = 0 => RowFor(rows, d) = 0
        <5>1. RowFor(rows, d) = RowFor(rows, c)
          BY <2>3, SameSearch
        <5>2. Finds(rows, c) = 0 => RowFor(rows, c) = 0
          BY <4>1, FindsNone
        <5> QED
          BY <2>3, <5>1, <5>2
      <4> QED
        BY <2>1, <2>3, <3>3, <4>2 DEF FoundAlone
    <3>5. ASSUME NEW e \in calls', NEW f \in calls', e.phase = "found", f.phase = "found",
                 SameLine(e, f)
          PROVE  e = f
      <4>1. CASE e \in calls /\ f \in calls
        BY <3>3, <3>5, <4>1 DEF FoundAlone
      <4>2. CASE e = d /\ f \in calls \ {c}
        BY <2>3, <3>1, <3>5, <4>2 DEF SameLine
      <4>3. CASE f = d /\ e \in calls \ {c}
        BY <2>3, <3>1, <3>5, <4>3 DEF SameLine
      <4> QED
        BY <2>1, <4>1, <4>2, <4>3
    <3>6. FoundAlone'
      BY <1>1, <3>4, <3>5 DEF FoundAlone
    <3> QED
      BY <3>1, <3>2, <3>6
  <2>6. OneStore'
    BY <1>0, <1>1, <2>1, <2>3 DEF OneStore
  <2>7. Quiet'
    <3> SUFFICES ASSUME ~overlap, ~moved, lost = 0
                 PROVE  ~raced' /\ \E e \in calls' : calls' = {e} /\ Pending(e)'
      BY <1>1 DEF Quiet
    <3>1. calls = {c} /\ Pending(c) /\ ~raced
      BY <1>0 DEF Quiet
    <3>2. ~raced' /\ calls' = {d}
      BY <1>1, <2>1, <3>1
    <3>3. /\ c.country = country
          /\ c.method \in {"update", "remove"} => RowOf(rows, c.item) # 0
          /\ Pairs(items) = Pairs(Handled(rows, Looked(rows, c)))
      BY <1>1, <3>1 DEF Pending
    <3>4. Finds(rows, d) = Finds(rows, c)
      BY <2>3, SameSearch
    <3>5. Handled(rows, Looked(rows, d)) = Handled(rows, Looked(rows, c))
      <4>1. LET x == Looked(rows, c)  y == Looked(rows, d) IN
            /\ x.method = c.method /\ x.store = c.store /\ x.line = c.line
            /\ x.quantity = c.quantity /\ x.item = c.item /\ x.found = Finds(rows, c)
            /\ y.method = d.method /\ y.store = d.store /\ y.line = d.line
            /\ y.quantity = d.quantity /\ y.item = d.item /\ y.found = Finds(rows, d)
        BY <1>2, <2>3, LookedCall
      <4> QED
        BY <2>3, <3>4, <4>1, SameHandled
    <3>6. Pending(d)
      BY <2>3, <3>3, <3>4, <3>5 DEF Pending
    <3>7. \E e : e = d
      OBVIOUS
    <3>8. PICK e : e = d
      BY <3>7
    <3>9. Pending(e)' = Pending(e)
      <4>1. Handled(server[country], Looked(server[country], e))'
               = Handled(server[country], Looked(server[country], e))
        BY <1>1 DEF Handled, Upserted
      <4> QED
        BY <1>1, <4>1 DEF Pending, Pairs
    <3> QED
      BY <3>2, <3>6, <3>8, <3>9
  <2> QED
    BY <2>4, <2>5, <2>6, <2>7 DEF SyncInv, LinesInv
<1> QED
  BY <1>3, <1>4

\* A write that is alone with its line leaves the rows single, and what the other
\* requests have found true.
LEMMA WrittenRows ==
    ASSUME SyncInv, NEW c \in calls, Write(c), ~Refused(c), ~raced
    PROVE  LET rows == server[c.country]
               after == Handled(rows, c) IN
           /\ SingleRows(after) /\ From(after, rows, c)
           /\ \A j \in DOMAIN after : \/ after[j].id < nextId
                                      \/ after[j].id = nextId /\ Len(after) > Len(rows)
           /\ \A e \in calls \ {c} : e.phase = "found" /\ e.country = c.country /\ e.found = 0 =>
                 RowFor(after, e) = 0
<1> DEFINE rows == server[c.country]
           after == Handled(rows, c)
<1>0. TypeOK /\ CallsTyped /\ RowsAreSingle
  BY DEF SyncInv, LinesInv
<1>1. /\ c \in Call /\ c.country \in Countries /\ c.method # "load"
      /\ c.method \in {"upsert", "update"} => c.quantity \in 1..MaxQuantity /\ c.phase = "found"
      /\ c.method = "upsert" => c.item = 0
  BY <1>0 DEF CallsTyped, Call, Write
<1>2. RowsOf(rows) /\ nextId \in Nat \ {0} /\ FoundAlone
  BY <1>0, <1>1 DEF TypeOK, RowsAreSingle, RowsOf
<1>3. c.phase = "found" /\ c.found = 0 => RowFor(rows, c) = 0
  BY <1>2 DEF FoundAlone
<1> HIDE DEF rows
<1>4. LET t == Handled(rows, c)
          line == rows[RowOf(rows, c.item)].line IN
      /\ t \in Seq(Row) /\ SingleRows(t)
      /\ From(t, rows, c)
      /\ c.method \notin {"upsert", "update"} =>
            \A j \in DOMAIN t : \E i \in DOMAIN rows : t[j] = rows[i]
      /\ \A j \in DOMAIN t : \/ t[j].id < nextId
                             \/ t[j].id = nextId /\ Len(t) > Len(rows)
      /\ /\ InHomeStore(rows) /\ c.store = HomeStore
         /\ c.method \in {"upsert", "update"} => c.found = Finds(rows, c)
         /\ c.method \in {"update", "remove"} => RowOf(rows, c.item) # 0
         => /\ c.method = "upsert" => Pairs(t) = Put(Pairs(rows), c.line, c.quantity)
            /\ c.method = "update" =>
                  Pairs(t) = Put(Drop(Pairs(rows), line), c.line, c.quantity)
            /\ c.method = "remove" => Pairs(t) = Drop(Pairs(rows), line)
            /\ c.method = "clear" => Pairs(t) = {}
  <2>1. c.method \in {"upsert", "update"} =>
           c.quantity \in 1..MaxQuantity /\ (c.found = 0 => RowFor(rows, c) = 0)
    BY <1>1, <1>3
  <2> QED
    BY <1>1, <1>2, <2>1, HandledRows, Zenon
<1>5. /\ after \in Seq(Row) /\ SingleRows(after) /\ From(after, rows, c)
      /\ c.method \notin {"upsert", "update"} =>
            \A j \in DOMAIN after : \E i \in DOMAIN rows : after[j] = rows[i]
      /\ \A j \in DOMAIN after : \/ after[j].id < nextId
                                 \/ after[j].id = nextId /\ Len(after) > Len(rows)
  BY <1>4
<1> HIDE DEF after
<1>6. ASSUME NEW e \in calls \ {c}, e.phase = "found", e.country = c.country, e.found = 0
      PROVE  RowFor(after, e) = 0
  <2>1. RowFor(rows, e) = 0
    BY <1>2, <1>6 DEF FoundAlone, rows
  <2>2. \A i \in DOMAIN rows :
           ~(rows[i].store = e.store /\ rows[i].line = e.line /\ rows[i].id # e.item)
    BY <1>2, <2>1, RowForFound DEF RowsOf
  <2>3. c.method \in {"upsert", "update"} => ~(c.store = e.store /\ c.line = e.line)
    BY <1>1, <1>2, <1>6 DEF FoundAlone, SameLine
  <2>4. ASSUME NEW j \in DOMAIN after
        PROVE  ~(after[j].store = e.store /\ after[j].line = e.line /\ after[j].id # e.item)
    <3>1. CASE c.method \in {"upsert", "update"}
      BY <1>5, <2>2, <2>3, <3>1 DEF From
    <3>2. CASE c.method \notin {"upsert", "update"}
      BY <1>5, <2>2, <3>2
    <3> QED
      BY <3>1, <3>2
  <2> QED
    BY <1>5, <2>4, RowForFound
<1> QED
  BY <1>5, <1>6 DEF after, rows

LEMMA WriteKeeps ==
    ASSUME SyncInv, NEW c \in calls, Write(c)
    PROVE  SyncInv'
<1> DEFINE rows == server[c.country]
           after == Handled(rows, c)
           d == [c EXCEPT !.phase = "written"]
<1>0. TypeOK /\ CallsTyped /\ RowsAreSingle /\ OneStore /\ LinesDistinct /\ Quiet
  BY DEF SyncInv, LinesInv
<1>1. /\ country' = country /\ store' = store /\ selected' = selected /\ items' = items
      /\ editing' = editing /\ events' = events /\ lost' = lost /\ hurries' = hurries
      /\ overlap' = overlap /\ raced' = raced /\ moved' = moved
      /\ c.method # "load"
      /\ c.phase = (IF c.method \in {"upsert", "update"} THEN "found" ELSE "sent")
  BY DEF Write, local, bounds
<1>2. /\ c \in Call /\ c.country \in Countries /\ rows \in Seq(Row) /\ nextId \in Nat \ {0}
      /\ c.method \in {"upsert", "update"} => c.quantity \in 1..MaxQuantity
      /\ c.method = "upsert" => c.item = 0
  BY <1>0 DEF CallsTyped, Call, TypeOK
<1>3. CASE Refused(c)
  <2>1. calls' = calls \ {c} /\ UNCHANGED <<local, server, nextId, bounds>>
    BY <1>3 DEF Write
  <2>2. ~raced => ~Pending(c)
    <3> SUFFICES ASSUME ~raced, Pending(c)
                 PROVE  FALSE
      OBVIOUS
    <3>1. RowsOf(rows)
      BY <1>0, <1>2 DEF RowsAreSingle, RowsOf
    <3>2. /\ c.country = country
          /\ c.method \in {"update", "remove"} => RowOf(rows, c.item) # 0
          /\ c.phase = "found" => c.found = Finds(rows, c)
      BY <1>1 DEF Pending
    <3>3. c.phase = "found" /\ c.found # 0 => RowOf(rows, c.found) # 0
      <4> HIDE DEF rows
      <4> QED
        BY <3>1, <3>2, FoundRow
    <3>4. c.method # "remove"
      <4>1. c.method = "remove" => c.phase = "sent"
        BY <1>1
      <4> QED
        BY <1>3, <3>2, <4>1 DEF Refused
    <3>5. c.phase = "found" /\ (IF c.found # 0 THEN c.found ELSE c.item) # 0
             /\ RowOf(rows, IF c.found # 0 THEN c.found ELSE c.item) = 0
      BY <1>3, <3>4 DEF Refused
    <3> QED
      BY <1>1, <1>2, <3>2, <3>3, <3>5
  <2> QED
    BY <2>1, <2>2, RefusedKeeps
<1>4. CASE ~Refused(c)
  <2>1. /\ server' = [server EXCEPT ![c.country] = after]
        /\ nextId' = IF Len(server'[c.country]) > Len(rows) THEN nextId + 1 ELSE nextId
        /\ calls' = (calls \ {c}) \cup {d}
    BY <1>4 DEF Write
  <2>2. c.country \in DOMAIN server
    BY <1>0, <1>2 DEF TypeOK
  <2>3. server'[c.country] = after /\ \A k \in Countries : k # c.country => server'[k] = server[k]
    BY <1>0, <2>1, <2>2 DEF TypeOK
  <2>4. after \in Seq(Row)
    <3> HIDE DEF rows
    <3> QED
      BY <1>1, <1>2, HandledTyped
  <2>5. ~raced =>
           /\ SingleRows(after) /\ From(after, rows, c)
           /\ \A j \in DOMAIN after : \/ after[j].id < nextId
                                      \/ after[j].id = nextId /\ Len(after) > Len(rows)
           /\ \A e \in calls \ {c} : e.phase = "found" /\ e.country = c.country /\ e.found = 0 =>
                 RowFor(after, e) = 0
    BY <1>4, WrittenRows
  <2>6. server' \in [Countries -> Seq(Row)]
    <3> HIDE DEF after
    <3> QED
      BY <1>0, <2>1, <2>4 DEF TypeOK
  <2>7. /\ nextId' \in Nat \ {0} /\ nextId <= nextId'
        /\ Len(after) > Len(rows) => nextId' = nextId + 1
    <3> HIDE DEF after, rows
    <3> QED
      BY <1>2, <2>1, <2>3
  <2>8. /\ d.method = c.method /\ d.country = c.country /\ d.store = c.store
        /\ d.quantity = c.quantity /\ d.item = c.item /\ d.phase = "written" /\ d.rows = c.rows
        /\ d \in Call
    BY <1>2 DEF Call
  <2> HIDE DEF d, after
  <2>9. TypeOK' /\ CallsTyped' /\ LinesDistinct'
    <3>1. UNCHANGED <<local, events, lost, hurries, overlap, moved>>
      BY DEF Write, bounds
    <3>2. raced' \in BOOLEAN /\ (raced => raced')
      BY <1>0, <1>1 DEF TypeOK
    <3> QED
      BY <2>1, <2>6, <2>7, <2>8, <3>1, <3>2, ServerStep
  <2>10. RowsAreSingle'
    <3> SUFFICES ASSUME ~raced
                 PROVE  /\ \A k \in Countries : SingleRows(server'[k])
                        /\ \A k \in Countries : \A j \in DOMAIN server'[k] : server'[k][j].id < nextId'
                        /\ \A e \in calls' : SingleRows(e.rows)
                        /\ FoundAlone'
      BY <1>1 DEF RowsAreSingle
    <3>1. \A k \in Countries : SingleRows(server'[k])
      BY <1>0, <2>3, <2>5 DEF RowsAreSingle
    <3>2. \A e \in calls' : SingleRows(e.rows)
      BY <1>0, <2>1, <2>8 DEF RowsAreSingle
    <3>3. \A j \in DOMAIN after : after[j].id < nextId'
      <4>1. \A j \in DOMAIN after : after[j] \in Row
        BY <2>4, LenProperties, ElementOfSeq
      <4>2. \A j \in DOMAIN after : after[j].id \in Nat
        BY <4>1 DEF Row
      <4> QED
        BY <1>2, <2>5, <2>7, <4>2
    <3>4. ASSUME NEW k \in Countries, k # c.country
          PROVE  \A j \in DOMAIN server[k] : server[k][j].id < nextId'
      <4>1. server[k] \in Seq(Row)
        BY <1>0 DEF TypeOK
      <4>2. \A j \in DOMAIN server[k] : server[k][j] \in Row
        BY <4>1, LenProperties, ElementOfSeq
      <4>3. \A j \in DOMAIN server[k] : server[k][j].id \in Nat /\ server[k][j].id < nextId
        BY <1>0, <4>2 DEF Row, RowsAreSingle
      <4> QED
        BY <1>2, <2>7, <4>3
    <3>5. \A k \in Countries : \A j \in DOMAIN server'[k] : server'[k][j].id < nextId'
      BY <2>3, <3>3, <3>4
    <3>6. FoundAlone'
      <4>1. FoundAlone
        BY <1>0 DEF RowsAreSingle
      <4>2. \A e \in calls' : e.phase = "found" => e \in calls \ {c}
        BY <2>1, <2>8
      <4>3. \A e \in calls : e.country \in Countries
        BY <1>0 DEF TypeOK
      <4>4. \A e \in calls \ {c} : e.phase = "found" /\ e.found = 0 =>
               RowFor(server'[e.country], e) = 0
        BY <2>3, <2>5, <4>1, <4>3 DEF FoundAlone
      <4> QED
        BY <4>1, <4>2, <4>4 DEF FoundAlone
    <3> QED
      BY <3>1, <3>2, <3>5, <3>6
  <2>11. OneStore'
    <3> SUFFICES ASSUME ~moved
                 PROVE  /\ store = HomeStore
                        /\ \A e \in calls' : e.store = HomeStore
                        /\ ~raced => /\ \A e \in calls' : InHomeStore(e.rows)
                                     /\ \A k \in Countries : InHomeStore(server'[k])
      BY <1>1 DEF OneStore
    <3>1. store = HomeStore /\ \A e \in calls' : e.store = HomeStore
      BY <1>0, <2>1, <2>8 DEF OneStore
    <3>2. ~raced => \A e \in calls' : InHomeStore(e.rows)
      BY <1>0, <2>1, <2>8 DEF OneStore
    <3>3. ~raced => InHomeStore(after)
      BY <1>0, <1>2, <2>5 DEF OneStore, InHomeStore, From
    <3>4. ~raced => \A k \in Countries : InHomeStore(server'[k])
      BY <1>0, <2>3, <3>3 DEF OneStore
    <3> QED
      BY <3>1, <3>2, <3>4
  <2>12. Quiet'
    <3> SUFFICES ASSUME ~overlap, ~moved, lost = 0
                 PROVE  ~raced /\ \E e \in calls' : calls' = {e} /\ Pending(e)'
      BY <1>1 DEF Quiet
    <3>1. calls = {c} /\ Pending(c) /\ ~raced
      BY <1>0 DEF Quiet
    <3>2. calls' = {d}
      BY <2>1, <3>1
    <3>3. /\ c.country = country
          /\ c.phase = "found" => c.found = Finds(rows, c)
          /\ Pairs(items) = Pairs(Handled(rows, Looked(rows, c)))
      BY <1>1, <3>1 DEF Pending
    <3>4. Handled(rows, Looked(rows, c)) = after
      <4> DEFINE x == Looked(rows, c)
      <4>1. /\ x.method = c.method /\ x.store = c.store /\ x.line = c.line
            /\ x.quantity = c.quantity /\ x.item = c.item /\ x.found = Finds(rows, c)
        BY <1>2, LookedCall
      <4> HIDE DEF x, rows
      <4>2. CASE c.method \in {"upsert", "update"}
        <5>1. x.found = c.found
          BY <1>1, <3>3, <4>1, <4>2
        <5>2. Handled(rows, x) = Handled(rows, c)
          BY <4>1, <5>1, SameHandled
        <5> QED
          BY <5>2 DEF after, x, rows
      <4>3. CASE c.method \notin {"upsert", "update"}
        <5>1. c.method \in {"remove", "clear"}
          BY <1>1, <1>2, <4>3 DEF Call, Methods
        <5>2. Handled(rows, x) = Handled(rows, c)
          BY <4>1, <5>1 DEF Handled
        <5> QED
          BY <5>2 DEF after, x, rows
      <4> QED
        BY <4>2, <4>3
    <3>5. PICK e : e = d
      OBVIOUS
    <3>6. Pending(e)'
      <4>1. /\ e.country = country' /\ e.phase = "written"
            /\ Pairs(items)' = Pairs(server[country])'
        BY <1>1, <2>3, <2>8, <3>3, <3>4, <3>5 DEF Pairs
      <4> QED
        BY <4>1 DEF Pending
    <3> QED
      BY <3>1, <3>2, <3>5, <3>6
  <2> QED
    BY <2>9, <2>10, <2>11, <2>12 DEF SyncInv, LinesInv
<1> QED
  BY <1>3, <1>4

LEMMA GetCartKeeps ==
    ASSUME SyncInv, NEW c \in calls, GetCart(c)
    PROVE  SyncInv'
<1> DEFINE rows == server[c.country]
           d == [c EXCEPT !.phase = "reply", !.rows = rows]
<1>0. TypeOK /\ CallsTyped /\ RowsAreSingle /\ OneStore /\ Quiet
  BY DEF SyncInv, LinesInv
<1>1. /\ country' = country /\ store' = store /\ selected' = selected /\ items' = items
      /\ editing' = editing /\ events' = events /\ lost' = lost /\ hurries' = hurries
      /\ overlap' = overlap /\ raced' = raced /\ moved' = moved
      /\ server' = server /\ nextId' = nextId
      /\ c.phase = (IF c.method = "load" THEN "sent" ELSE "written")
      /\ calls' = (calls \ {c}) \cup {d}
  BY DEF GetCart, local, bounds
<1>2. c \in Call /\ c.country \in Countries /\ rows \in Seq(Row)
  BY <1>0 DEF CallsTyped, Call, TypeOK
<1>3. /\ d.method = c.method /\ d.country = c.country /\ d.store = c.store
      /\ d.quantity = c.quantity /\ d.item = c.item /\ d.phase = "reply" /\ d.rows = rows
      /\ d \in Call
  BY <1>2 DEF Call
<1> HIDE DEF d
<1>4. TypeOK' /\ CallsTyped' /\ LinesDistinct'
  <2>1. UNCHANGED <<local, events, lost, hurries, overlap, moved>>
    BY DEF GetCart, bounds
  <2>2. /\ raced' \in BOOLEAN /\ (raced => raced')
        /\ server' \in [Countries -> Seq(Row)] /\ nextId' \in Nat \ {0}
    BY <1>0, <1>1 DEF TypeOK
  <2> QED
    BY <1>1, <1>3, <2>1, <2>2, ServerStep
<1>5. RowsAreSingle'
  <2>1. ~raced => \A e \in calls' : SingleRows(e.rows)
    BY <1>0, <1>1, <1>2, <1>3 DEF RowsAreSingle
  <2>2. ~raced => FoundAlone'
    <3>1. \A e \in calls' : e.phase = "found" => e \in calls
      BY <1>1, <1>3
    <3> QED
      BY <1>0, <1>1, <3>1 DEF RowsAreSingle, FoundAlone
  <2> QED
    BY <1>0, <1>1, <2>1, <2>2 DEF RowsAreSingle
<1>6. OneStore'
  <2>1. ~moved => \A e \in calls' : e.store = HomeStore
    BY <1>0, <1>1, <1>3 DEF OneStore
  <2>2. ~moved /\ ~raced => \A e \in calls' : InHomeStore(e.rows)
    BY <1>0, <1>1, <1>2, <1>3 DEF OneStore
  <2> QED
    BY <1>0, <1>1, <2>1, <2>2 DEF OneStore
<1>7. Quiet'
  <2> SUFFICES ASSUME ~overlap, ~moved, lost = 0
               PROVE  ~raced /\ \E e \in calls' : calls' = {e} /\ Pending(e)'
    BY <1>1 DEF Quiet
  <2>1. calls = {c} /\ Pending(c) /\ ~raced
    BY <1>0 DEF Quiet
  <2>2. PICK e : e = d
    OBVIOUS
  <2>3. /\ calls' = {e} /\ e.country = country /\ e.phase = "reply" /\ e.rows = server[country]
        /\ e.method # "load" => Pairs(items) = Pairs(server[country])
    BY <1>1, <1>3, <2>1, <2>2 DEF Pending
  <2>4. Pending(e)'
    <3>1. Pairs(items)' = Pairs(items) /\ Pairs(server[country])' = Pairs(server[country])
      BY <1>1 DEF Pairs
    <3> QED
      BY <1>1, <2>3, <3>1 DEF Pending
  <2> QED
    BY <2>1, <2>3, <2>4
<1> QED
  BY <1>4, <1>5, <1>6, <1>7 DEF SyncInv, LinesInv

-----------------------------------------------------------------------------
(* The theorems *)

LEMMA SyncInitially == Init => SyncInv
<1> SUFFICES ASSUME Init
             PROVE  SyncInv
  OBVIOUS
<1>1. \A k \in Countries : server[k] = <<>>
  BY DEF Init
<1>2. /\ country = HomeCountry /\ store = HomeStore /\ selected = HomeStore
      /\ items = <<>> /\ editing = Closed /\ calls = {} /\ server \in [Countries -> Seq(Row)]
      /\ nextId = 1 /\ events = 0 /\ lost = 0 /\ hurries = 0 /\ overlap = FALSE /\ raced = FALSE
      /\ moved = FALSE
  BY DEF Init
<1>3. TypeOK
  <2>1. /\ HomeCountry \in Countries /\ HomeStore \in Stores
        /\ MaxEvents \in Nat /\ MaxHurries \in Nat /\ MaxLost \in Nat
    BY CartSyncAssumption
  <2>2. 0 \in 0..MaxEvents /\ 0 \in 0..MaxHurries /\ 0 \in 0..MaxLost /\ 1 \in Nat \ {0}
    BY <2>1
  <2>3. events \in 0..MaxEvents /\ lost \in 0..MaxLost /\ hurries \in 0..MaxHurries
    BY <1>2, <2>2
  <2>4. items \in Seq(Entry) /\ overlap \in BOOLEAN /\ raced \in BOOLEAN /\ moved \in BOOLEAN
    <3>1. items \in Seq(Entry)
      BY <1>2
    <3>2. overlap \in BOOLEAN /\ raced \in BOOLEAN /\ moved \in BOOLEAN
      BY Zenon DEF Init
    <3> QED
      BY <3>1, <3>2
  <2>5. /\ country \in Countries /\ store \in Stores /\ selected \in Stores
        /\ editing \in Entry \cup {Closed} /\ nextId \in Nat \ {0}
        /\ server \in [Countries -> Seq(Row)]
    BY <1>2, <2>1
  <2>6. \A c \in calls : /\ c.n \in 1..MaxCalls /\ c.country \in Countries /\ c.store \in Stores
                         /\ c.found \in Nat
                         /\ c.phase = "reply" => c.rows \in Seq(Row)
    BY <1>2
  <2> QED
    BY <2>3, <2>4, <2>5, <2>6 DEF TypeOK
<1>4. CallsTyped /\ RowsAreSingle /\ OneStore /\ LinesDistinct
  BY <1>1, <1>2 DEF CallsTyped, RowsAreSingle, FoundAlone, SingleRows,
       OneStore, InHomeStore, LinesDistinct
<1>5. Quiet
  BY <1>1, <1>2, CartSyncAssumption DEF Quiet, AgreesWith
<1> QED
  BY <1>3, <1>4, <1>5 DEF SyncInv, LinesInv

LEMMA SyncSteps == SyncInv /\ [Next]_vars => SyncInv'
<1> SUFFICES ASSUME SyncInv, [Next]_vars
             PROVE  SyncInv'
  OBVIOUS
<1>1. ASSUME NEW l \in Lines, NEW q \in 1..MaxQuantity, ItemAdded(l, q)
      PROVE  SyncInv'
  BY <1>1, Added, UserKeeps DEF ItemAdded
<1>2. ASSUME NEW l \in Lines, NEW q \in 1..MaxQuantity, ItemConfigurationUpdated(l, q)
      PROVE  SyncInv'
  BY <1>2, ConfigurationUpdated, UserKeeps DEF ItemConfigurationUpdated
<1>3. ASSUME NEW i \in DOMAIN items, ItemRemoved(i)
      PROVE  SyncInv'
  BY <1>3, Removed, UserKeeps DEF ItemRemoved
<1>4. ASSUME NEW i \in DOMAIN items, OpenItem(i)
      PROVE  SyncInv'
  BY <1>4, Opened, UserKeeps DEF OpenItem
<1>5. ASSUME NEW i \in DOMAIN items, NEW q \in 1..MaxQuantity, ItemQuantityUpdated(i, q)
      PROVE  SyncInv'
  BY <1>5, QuantityUpdated, UserKeeps DEF ItemQuantityUpdated
<1>6. CASE Cleared
  BY <1>6, Emptied, UserKeeps DEF Cleared
<1>7. ASSUME NEW c \in Countries, SwitchCountry(c)
      PROVE  SyncInv'
  BY <1>7, CountrySwitched, UserKeeps DEF SwitchCountry
<1>8. ASSUME NEW s \in Stores, SetStore(s)
      PROVE  SyncInv'
  BY <1>8, StoreSet, UserKeeps DEF SetStore
<1>9. CASE Poll
  BY <1>9, PollKeeps
<1>10. ASSUME NEW c \in calls, Find(c) \/ Write(c) \/ GetCart(c) \/ Lose(c) \/ LoadReply(c) \/ ServerIdsApplied(c)
       PROVE  SyncInv'
  BY <1>10, FindKeeps, WriteKeeps, GetCartKeeps, LoseKeeps, LoadReplyKeeps, ServerIdsKeep
<1>11. CASE UNCHANGED vars
  <2>1. /\ country' = country /\ store' = store /\ selected' = selected /\ items' = items
        /\ editing' = editing /\ server' = server /\ nextId' = nextId /\ calls' = calls
        /\ events' = events /\ lost' = lost /\ hurries' = hurries /\ overlap' = overlap
        /\ raced' = raced /\ moved' = moved
    BY <1>11 DEF vars, local, bounds
  <2>2. TypeOK' /\ CallsTyped' /\ RowsAreSingle' /\ OneStore' /\ LinesDistinct'
    BY <2>1 DEF SyncInv, LinesInv, TypeOK, CallsTyped, RowsAreSingle, FoundAlone,
       OneStore, LinesDistinct
  <2>3. Quiet'
    <3>1. \A c : Handled(server[country], Looked(server[country], c))'
                  = Handled(server[country], Looked(server[country], c))
      BY <2>1 DEF Handled, Upserted
    <3> QED
      BY <2>1, <3>1 DEF SyncInv, Quiet, Pending, AgreesWith, Pairs
  <2> QED
    BY <2>2, <2>3 DEF SyncInv, LinesInv
<1> QED
  BY <1>1, <1>2, <1>3, <1>4, <1>5, <1>6, <1>7, <1>8, <1>9, <1>10, <1>11 DEF Next

LEMMA SyncIsInvariant == Spec => []SyncInv
  BY SyncInitially, SyncSteps, PTL DEF Spec

\* Whatever the requests, their order and their losses, the list of the app has
\* one entry per configuration, so checkout submits one line for each, as long as
\* no other store is chosen and no two requests look for the row of one line before
\* either has written.
THEOREM LinesStayDistinct == Spec => []LinesDistinct
<1>1. SyncInv => LinesDistinct
  BY DEF SyncInv, LinesInv
<1> QED
  BY <1>1, SyncIsInvariant, PTL

LEMMA OneEntryPerRow ==
    ASSUME SyncInv, ~moved, ~raced, AgreesWith(server[country])
    PROVE  Len(items) = Len(server[country])
<1> DEFINE rows == server[country]
           row == [i \in DOMAIN items |-> CHOOSE j \in DOMAIN rows : items[i] = Loaded(rows)[j]]
           entry == [j \in DOMAIN rows |-> CHOOSE i \in DOMAIN items : items[i] = Loaded(rows)[j]]
<1>0. /\ rows \in Seq(Row) /\ Single(rows) /\ Single(items) /\ items \in Seq(Entry)
  BY ServerRows, HomeRowsAreSingle DEF RowsOf
<1>1. \A j \in DOMAIN rows : Loaded(rows)[j].line = rows[j].line
  BY <1>0, LoadedItems
<1>2. /\ Len(items) \in Nat /\ DOMAIN items = 1..Len(items)
      /\ Len(rows) \in Nat /\ DOMAIN rows = 1..Len(rows)
  BY <1>0, LenProperties
<1>3. /\ \A i \in DOMAIN items : \E j \in DOMAIN rows : items[i] = Loaded(rows)[j]
      /\ \A j \in DOMAIN rows : \E i \in DOMAIN items : items[i] = Loaded(rows)[j]
  BY DEF AgreesWith
<1> HIDE DEF rows
<1>4. /\ row \in Injection(1..Len(items), 1..Len(rows))
      /\ entry \in Injection(1..Len(rows), 1..Len(items))
  <2>1. \A i \in DOMAIN items : row[i] \in DOMAIN rows /\ items[i] = Loaded(rows)[row[i]]
    BY <1>3
  <2>2. \A j \in DOMAIN rows : entry[j] \in DOMAIN items /\ items[entry[j]] = Loaded(rows)[j]
    BY <1>3
  <2>3. DOMAIN row = DOMAIN items /\ DOMAIN entry = DOMAIN rows
    OBVIOUS
  <2>4. row \in [DOMAIN items -> DOMAIN rows] /\ entry \in [DOMAIN rows -> DOMAIN items]
    BY <2>1, <2>2
  <2> HIDE DEF row, entry
  <2>5. \A i, j \in DOMAIN items : row[i] = row[j] => i = j
    BY <1>0, <2>1 DEF Single
  <2>6. \A i, j \in DOMAIN rows : entry[i] = entry[j] => i = j
    BY <1>0, <1>1, <2>2 DEF Single
  <2> QED
    BY <1>2, <2>4, <2>5, <2>6 DEF Injection, IsInjective
<1> HIDE DEF row, entry
<1>5. /\ IsFiniteSet(1..Len(items)) /\ Cardinality(1..Len(items)) = Len(items)
      /\ IsFiniteSet(1..Len(rows)) /\ Cardinality(1..Len(rows)) = Len(rows)
  <2>1. ASSUME NEW n \in Nat
        PROVE  IsFiniteSet(1..n) /\ Cardinality(1..n) = n
    <3>1. IsFiniteSet(1..n) /\ Cardinality(1..n) = IF 1 > n THEN 0 ELSE n - 1 + 1
      BY FS_Interval
    <3> QED
      BY <3>1
  <2> QED
    BY <1>2, <2>1
<1>6. Len(items) <= Len(rows) /\ Len(rows) <= Len(items)
  <2>1. Cardinality(1..Len(items)) <= Cardinality(1..Len(rows))
    BY <1>4, <1>5, FS_Injection
  <2>2. Cardinality(1..Len(rows)) <= Cardinality(1..Len(items))
    BY <1>4, <1>5, FS_Injection
  <2> QED
    BY <1>5, <2>1, <2>2
<1>7. Len(items) = Len(rows)
  <2>1. \A m, n \in Nat : m <= n /\ n <= m => m = n
    OBVIOUS
  <2> QED
    BY <1>2, <1>6, <2>1, Zenon
<1> QED
  BY <1>7 DEF rows

\* Between requests, when each was answered before the next edit or poll, none was
\* lost and no other store was chosen, the list is the server's: same lines,
\* quantities and ids.
THEOREM AgreesWhenQuiet == Spec => []QuietAgrees
<1>1. SyncInv => QuietAgrees
  <2> SUFFICES ASSUME SyncInv
               PROVE  QuietAgrees
    OBVIOUS
  <2>1. TypeOK
    BY DEF SyncInv, LinesInv
  <2>2. ASSUME ~overlap, ~moved, lost = 0, calls = {}
        PROVE  /\ Range(items) = Range(Loaded(server[country]))
               /\ Len(items) = Len(server[country])
    <3>1. AgreesWith(server[country]) /\ ~raced
      BY <2>2 DEF SyncInv, Quiet
    <3>2. Len(items) = Len(server[country])
      BY <2>2, <3>1, OneEntryPerRow
    <3>3. DOMAIN Loaded(server[country]) = DOMAIN server[country]
      BY DEF Loaded
    <3>4. Range(items) = Range(Loaded(server[country]))
      BY <3>1, <3>3 DEF AgreesWith, Range
    <3> QED
      BY <3>2, <3>4
  <2> QED
    BY <2>1, <2>2 DEF QuietAgrees
<1> QED
  BY <1>1, SyncIsInvariant, PTL
=============================================================================
