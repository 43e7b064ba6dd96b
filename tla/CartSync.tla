------------------------------- MODULE CartSync -------------------------------
(***************************************************************************)
(* The cart of the app (CartBloc) and its copy on the server.              *)
(*                                                                         *)
(* Every edit changes the local list at once and sends an unawaited        *)
(* request; requests are handled and answered in any order, may get lost,  *)
(* and a failure is only logged.  The reply to an edit only fills in       *)
(* server ids, the reply to a load replaces the list.  The state starts    *)
(* after sign-in: a store is chosen, the poll timer runs.                  *)
(*                                                                         *)
(* On the server requests overlap: the SELECT that looks for a row, the    *)
(* write by id and the list for the reply are steps of their own.          *)
(***************************************************************************)
EXTENDS Naturals, SequencesExt

CONSTANTS
    Countries, HomeCountry,
    Stores, HomeStore,
    Lines,          \* product and option ids of a cart line
    Plain,          \* the lines without options
    Closed,         \* "no product page is open on a cart line"
    MaxCalls,       \* bound: requests under way
    MaxEvents,      \* bound: what the user does
    MaxHurries,     \* bound: what the user does while a request is under way
    MaxQuantity,    \* bound
    MaxLost         \* bound: requests or replies lost

ASSUME CartSyncAssumption ==
    /\ HomeCountry \in Countries /\ HomeStore \in Stores
    /\ Lines # {} /\ Plain \subseteq Lines
    /\ {MaxCalls, MaxEvents, MaxHurries, MaxQuantity, MaxLost} \subseteq Nat

VARIABLES
    country,    \* CartState.countryCode
    store,      \* CartState.storeId
    selected,   \* CartState.selectedStore
    items,      \* CartState.items
    editing,    \* the item a product page was opened for
    server,     \* cart_items by country, in the order of creation
    nextId,
    calls,      \* requests under way
    events, lost,
    hurries,    \* how often the user acted while a request was under way
    overlap,    \* history: an edit or a poll while a request was under way
    raced,      \* history: two requests looked for the row of a line at once
    moved       \* history: another store was chosen

bounds == <<events, lost, hurries, overlap, raced, moved>>
local == <<country, store, selected, items, editing>>
vars == <<local, server, nextId, calls, bounds>>

Entry == [line : Lines, quantity : 1..MaxQuantity, serverId : Nat]
Row == [id : Nat \ {0}, store : Stores, line : Lines, quantity : 1..MaxQuantity]

TypeOK ==
    /\ country \in Countries /\ store \in Stores /\ selected \in Stores
    /\ items \in Seq(Entry) /\ editing \in Entry \cup {Closed}
    /\ server \in [Countries -> Seq(Row)] /\ nextId \in Nat \ {0}
    /\ \A c \in calls :
          /\ c.n \in 1..MaxCalls /\ c.country \in Countries /\ c.store \in Stores
          /\ c.found \in Nat
          /\ c.phase = "reply" => c.rows \in Seq(Row)
    /\ events \in 0..MaxEvents /\ lost \in 0..MaxLost
    /\ hurries \in 0..MaxHurries /\ {overlap, raced, moved} \subseteq BOOLEAN

Init ==
    /\ country = HomeCountry /\ store = HomeStore /\ selected = HomeStore
    /\ items = <<>> /\ editing = Closed
    /\ server = [c \in Countries |-> <<>>] /\ nextId = 1
    /\ calls = {} /\ events = 0 /\ lost = 0 /\ hurries = 0
    /\ overlap = FALSE /\ raced = FALSE /\ moved = FALSE

-----------------------------------------------------------------------------
(* Requests *)

Numbers == 1..MaxCalls \ {c.n : c \in calls}

NoLine == CHOOSE l \in Lines : TRUE     \* stands for an absent field

\* country and store are those of the state at this moment, unless a load names others.
Send(method, c, s, line, quantity, item, setsStore) ==
    /\ Numbers # {}
    /\ calls' = calls \cup
          {[n |-> CHOOSE n \in Numbers : TRUE, phase |-> "sent", found |-> 0, rows |-> <<>>,
            method |-> method, country |-> c, store |-> s, line |-> line,
            quantity |-> quantity, item |-> item, setsStore |-> setsStore]}

\* _syncUpdate
Request(method, line, quantity, item) ==
    Send(method, country, store, line, quantity, item, FALSE)

Upsert(line, quantity) == Request("upsert", line, quantity, 0)

\* A load requested for a store sets the state's store when its reply comes.
Load(c, s, setsStore) == Send("load", c, s, NoLine, 0, 0, setsStore)

At(seq, line) == SelectInSeq(seq, LAMBDA e : e.line = line)

UserEvent ==
    /\ events < MaxEvents /\ events' = events + 1
    /\ hurries' = IF calls = {} THEN hurries ELSE hurries + 1
    /\ hurries' <= MaxHurries
    /\ overlap' = (overlap \/ calls # {})
    /\ UNCHANGED <<server, nextId, lost, raced>>

-----------------------------------------------------------------------------
(* What the user does *)

\* Slip: the request carries the quantity added, not the new total.
ItemAddedDelta(l, q) ==
    /\ UserEvent
    /\ LET i == At(items, l)
       IN  /\ items' = IF i = 0 THEN Append(items, [line |-> l, quantity |-> q, serverId |-> 0])
                                ELSE [items EXCEPT ![i].quantity = @ + q]
           /\ i # 0 => items[i].quantity + q <= MaxQuantity
           /\ Upsert(l, q)
    /\ UNCHANGED <<country, store, selected, editing, moved>>

ItemAdded(l, q) ==
    /\ UserEvent
    /\ LET i == At(items, l)
           total == IF i = 0 THEN q ELSE items[i].quantity + q
       IN  /\ total <= MaxQuantity
           /\ items' = IF i = 0 THEN Append(items, [line |-> l, quantity |-> q, serverId |-> 0])
                                ELSE [items EXCEPT ![i].quantity = total]
           /\ Upsert(l, total)
    /\ UNCHANGED <<country, store, selected, editing, moved>>

\* Without a server id the removal stays local.
ItemRemoved(i) ==
    /\ UserEvent
    /\ items' = RemoveFirst(items, items[i])
    /\ IF items[i].serverId # 0
       THEN Request("remove", NoLine, 0, items[i].serverId)
       ELSE UNCHANGED calls
    /\ UNCHANGED <<country, store, selected, editing, moved>>

ItemQuantityUpdated(i, q) ==
    /\ UserEvent
    /\ items' = [items EXCEPT ![i].quantity = q]
    /\ Upsert(items[i].line, q)
    /\ UNCHANGED <<country, store, selected, editing, moved>>

OpenItem(i) ==
    /\ UserEvent
    /\ editing = Closed /\ editing' = items[i]
    /\ UNCHANGED <<country, store, selected, items, calls, moved>>

\* Slip: the result is not merged with an equal line.
Reconfigured(rest, i, updated) == InsertAt(rest, i, updated)

Merged(rest, i, updated) ==
    LET m == At(rest, updated.line)
    IN  IF m = 0 THEN InsertAt(rest, i, updated)
        ELSE [rest EXCEPT ![m].quantity = @ + updated.quantity]

\* The event carries the item the page was opened for; indexOf compares
\* quantity and server id as well, and an item not found ends the handler.
ItemConfigurationUpdated(l, q) ==
    /\ UserEvent
    /\ editing # Closed /\ editing' = Closed
    /\ LET i == SelectInSeq(items, LAMBDA e : e = editing)
           after == Merged(RemoveAt(items, i), i, [editing EXCEPT !.line = l, !.quantity = q])
           total == after[At(after, l)].quantity
       IN  IF i = 0 THEN UNCHANGED <<items, calls>>
           ELSE /\ total <= MaxQuantity
                /\ items' = after
                /\ IF l # editing.line /\ editing.serverId # 0
                   THEN Request("update", l, total, editing.serverId)
                   ELSE Upsert(l, total)
    /\ UNCHANGED <<country, store, selected, moved>>

Cleared ==
    /\ UserEvent
    /\ items' = <<>>
    /\ Request("clear", NoLine, 0, 0)
    /\ UNCHANGED <<country, store, selected, editing, moved>>

SwitchCountry(c) ==
    /\ UserEvent
    /\ country' = c /\ items' = <<>>
    /\ Load(c, store, FALSE)
    /\ UNCHANGED <<store, selected, editing, moved>>

SetStore(s) ==
    /\ UserEvent
    /\ s # store \/ s # selected
    /\ store' = s /\ selected' = s /\ moved' = TRUE
    /\ IF s # store /\ items # <<>> THEN Load(country, s, TRUE) ELSE UNCHANGED calls
    /\ UNCHANGED <<country, items, editing>>

\* The 60 s timer.  A request ends within 35 s (ApiClient's timeouts), so
\* there is at most one poll at a time.
Polling == \E c \in calls : c.method = "load" /\ c.setsStore

\* Slip: the timer also stops on a cart of one line.
PollManyOnly ==
    /\ Len(items) > 1 /\ ~Polling
    /\ Load(country, store, TRUE)
    /\ overlap' = (overlap \/ calls # {})
    /\ UNCHANGED <<local, server, nextId, events, lost, hurries, raced, moved>>

Poll ==
    /\ items # <<>> /\ ~Polling
    /\ Load(country, store, TRUE)
    /\ overlap' = (overlap \/ calls # {})
    /\ UNCHANGED <<local, server, nextId, events, lost, hurries, raced, moved>>

-----------------------------------------------------------------------------
(* The server *)

RowOf(rows, id) == SelectInSeq(rows, LAMBDA a : a.id = id)
RowFor(rows, c) ==
    SelectInSeq(rows, LAMBDA a : a.store = c.store /\ a.line = c.line /\ a.id # c.item)

SameLine(c, d) == c.country = d.country /\ c.store = d.store /\ c.line = d.line

\* The plain SELECT of an upsert, and those of an update, which fails when its
\* row is gone.
Find(c) ==
    LET rows == server[c.country]
        i == RowFor(rows, c)
    IN  /\ c.phase = "sent" /\ c.method \in {"upsert", "update"}
        /\ IF c.method = "update" /\ RowOf(rows, c.item) = 0
           THEN calls' = calls \ {c} /\ UNCHANGED raced
           ELSE /\ calls' = (calls \ {c}) \cup
                      {[c EXCEPT !.phase = "found", !.found = IF i = 0 THEN 0 ELSE rows[i].id]}
                /\ raced' = (raced \/ \E d \in calls : d.phase = "found" /\ SameLine(c, d))
        /\ UNCHANGED <<local, server, nextId, events, lost, hurries, overlap, moved>>

\* UPDATE and DELETE by id; without the row they do nothing.
Requantified(rows, id, quantity) ==
    LET i == RowOf(rows, id)
    IN  IF i = 0 THEN rows ELSE [rows EXCEPT ![i].quantity = quantity]
Without(rows, id) ==
    LET i == RowOf(rows, id)
    IN  IF i = 0 THEN rows ELSE RemoveAt(rows, i)

\* The rows after an upsert or update that found its row, or a twin of it.
Upserted(rows, c) ==
    IF c.found # 0 THEN Requantified(rows, c.found, c.quantity)
    ELSE Append(rows, [id |-> nextId, store |-> c.store, line |-> c.line, quantity |-> c.quantity])

Updated(rows, c) ==
    LET i == RowOf(rows, c.item)
    IN  IF c.found # 0 THEN Without(Requantified(rows, c.found, c.quantity), c.item)
        ELSE IF i = 0 THEN rows
        ELSE [rows EXCEPT ![i] = [@ EXCEPT !.store = c.store, !.line = c.line, !.quantity = c.quantity]]

Handled(rows, c) ==
    CASE c.method = "upsert" -> Upserted(rows, c)
      [] c.method = "update" -> Updated(rows, c)
      [] c.method = "remove" -> Without(rows, c.item)
      [] c.method = "clear"  -> <<>>

\* A removal that removes nothing is refused, and option rows for a row that is
\* gone violate their foreign key.
Refused(c) ==
    LET rows == server[c.country]
        id == IF c.found # 0 THEN c.found ELSE c.item
    IN  \/ c.method = "remove" /\ RowOf(rows, c.item) = 0
        \/ c.phase = "found" /\ id # 0 /\ RowOf(rows, id) = 0 /\ c.line \notin Plain

Write(c) ==
    LET rows == server[c.country]
    IN  /\ c.phase = (IF c.method \in {"upsert", "update"} THEN "found" ELSE "sent")
        /\ c.method # "load"
        /\ IF Refused(c)
           THEN calls' = calls \ {c} /\ UNCHANGED <<server, nextId>>
           ELSE /\ server' = [server EXCEPT ![c.country] = Handled(rows, c)]
                /\ nextId' = IF Len(server'[c.country]) > Len(rows) THEN nextId + 1 ELSE nextId
                /\ calls' = (calls \ {c}) \cup {[c EXCEPT !.phase = "written"]}
        /\ UNCHANGED <<local, bounds>>

\* Every answer is the list of the cart.
GetCart(c) ==
    /\ c.phase = (IF c.method = "load" THEN "sent" ELSE "written")
    /\ calls' = (calls \ {c}) \cup {[c EXCEPT !.phase = "reply", !.rows = server[c.country]]}
    /\ UNCHANGED <<local, server, nextId, bounds>>

\* The request or its reply does not arrive, or its transaction is rolled back
\* (deadlock, timeout); the app logs the error.
Lose(c) ==
    /\ lost < MaxLost /\ lost' = lost + 1
    /\ calls' = calls \ {c}
    /\ UNCHANGED <<local, server, nextId, events, hurries, overlap, raced, moved>>

-----------------------------------------------------------------------------
(* Replies *)

Loaded(rows) ==
    [i \in DOMAIN rows |->
        [line |-> rows[i].line, quantity |-> rows[i].quantity, serverId |-> rows[i].id]]

LoadReply(c) ==
    /\ c.phase = "reply" /\ c.method = "load"
    /\ items' = Loaded(c.rows)
    /\ store' = IF c.setsStore THEN c.store ELSE store
    /\ calls' = calls \ {c}
    /\ UNCHANGED <<country, selected, editing, server, nextId, bounds>>

\* Each line gets the id of the first row with the same product and options.
WithIds(rows) ==
    [i \in DOMAIN items |->
        LET match == At(rows, items[i].line)
        IN  IF match = 0 THEN items[i] ELSE [items[i] EXCEPT !.serverId = rows[match].id]]

ServerIdsApplied(c) ==
    /\ c.phase = "reply" /\ c.method # "load"
    /\ items' = WithIds(c.rows)
    /\ calls' = calls \ {c}
    /\ UNCHANGED <<country, store, selected, editing, server, nextId, bounds>>

Next ==
    \/ \E l \in Lines, q \in 1..MaxQuantity : ItemAdded(l, q) \/ ItemConfigurationUpdated(l, q)
    \/ \E i \in DOMAIN items : ItemRemoved(i) \/ OpenItem(i)
    \/ \E i \in DOMAIN items, q \in 1..MaxQuantity : ItemQuantityUpdated(i, q)
    \/ Cleared
    \/ \E c \in Countries : SwitchCountry(c)
    \/ \E s \in Stores : SetStore(s)
    \/ Poll
    \/ \E c \in calls :
          \/ Find(c) \/ Write(c) \/ GetCart(c) \/ Lose(c)
          \/ LoadReply(c) \/ ServerIdsApplied(c)

Spec == Init /\ [][Next]_vars

\* The timer fires, and the requests under way do not all stall: each ends by a
\* timeout at the latest.  Nothing forces the user.
Fairness ==
    /\ WF_vars(Poll)
    /\ WF_vars(\E c \in calls : \/ Find(c) \/ Write(c) \/ GetCart(c)
                               \/ LoadReply(c) \/ ServerIdsApplied(c))
FairSpec == Spec /\ Fairness

-----------------------------------------------------------------------------
(* Properties *)

Agree == items = Loaded(server[country])

\* As long as every request is answered before the next edit or poll, the list
\* computed in the app for one store is the server's: same lines, quantities and ids.
\* (And TypeOK.)
QuietAgrees ==
    /\ TypeOK
    /\ ~overlap /\ ~moved /\ lost = 0 /\ calls = {} =>
          /\ Range(items) = Range(Loaded(server[country]))
          /\ Len(items) = Len(server[country])

\* Requests may overlap, be reordered or lost: as long as the store stays the same
\* and no two of them look for the row of one line at once, when both may insert one
\* (cart_items has no unique key), the list has one entry per configuration.
LinesDistinct ==
    ~moved /\ ~raced => \A i, j \in DOMAIN items : items[i].line = items[j].line => i = j

\* The poll repairs whatever lost and reordered requests have left, unless
\* the list is empty, when it does not run.
EventuallyAgreesOrEmpty == <>[](Agree \/ items = <<>>)
=============================================================================
