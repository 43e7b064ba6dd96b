# Verification of the Loob ordering system

Loob is an ordering app for a chain of tea shops: a Go backend
(`src/backend`) over MySQL and Redis, and a Flutter app (`src/mobile`). This
directory holds TLA+ models of the parts of it where money, vouchers, carts,
menus, caches and queues can go wrong, TLC configurations that check them on small
instances, and proofs that hold for every instance.

A path below without a prefix is relative to `src/backend/internal/` (Go) or
`src/mobile/lib/` (Dart). `PROJECT.json` maps each definition to the lines it
models and lists the hazards, line by line.

* [The system](#the-system)
* [The modules](#the-modules)
* [Runs, bounds and fairness](#runs-bounds-and-fairness)
* [Proofs](#proofs)
* [Where the code departs from what is said of
  it](#where-the-code-departs-from-what-is-said-of-it)
* [Not modelled](#not-modelled)
* [Plan](#plan)

## The system

### Components

| Component | State | Operations | What makes it correct |
| --- | --- | --- | --- |
| Checkout (`checkout/`) | `order_intents`, `order_intent_items`, `order_intent_vouchers` | `Checkout` (look up the idempotency key, price, create intent and payment, retry a missing payment), `CreateIntent`, `MarkOrderCollected` | one order per key, one answer for all retries, an order that can be paid |
| Pricing (`checkout/service.go`) | none | price a cart with options, stack vouchers, charges, tax, total | independent of the order of codes, no voucher makes an order dearer, within a cent of the exact amount, no silent overflow |
| Payments (`payments/`) | `payment_transactions`, `payment_events`, `wallet_*`, `loyalty_*` | `StartPayment`, `ApplyCallback` with wallet, loyalty and voucher effects | effects once per payment and all or none, balances that follow from their history, order and payment in step |
| Vouchers (`vouchers/`, `checkout/repository.go`, `payments/repository.go`) | `vouchers`, `voucher_user_redemption_counters`, `user_vouchers` | reservation at checkout, redemption at capture, assignment | limits hold for reservations and redemptions, no deadlock where ids and priorities agree |
| Cart service (`cart/`) | `cart_items`, `cart_item_customization_options` | upsert, update, remove, clear, list | one row per line, only the user's own rows |
| Menu (`catalog/`, the reads of `cart/` and `checkout/`) | catalog tables, which the backend only reads | store context, category list, category page, item page, availability check, store list, cart view, prices for checkout | all views of an item agree, what is offered can be had for that price |
| Order history (`checkout/service.go`) | `order_intents` | pages with a status filter, one order, reorder list | an order looks the same on a page and alone and adds up to what was charged, what is offered again can be had |
| Menu cache (`catalog/service.go`) | Redis: store contexts, menus, versions, locks | `ListCategories`, `InvalidateMenuCache` | no answer older than the last invalidation, nobody waits for a lock for ever |
| Redis client (`database/redis.go`) | idle connections, tokens, failure count, breaker | `execute` behind every command | a reply belongs to its command, nothing leaks, recovery |
| Cart in the app (`features/cart/.../cart_bloc.dart`) | list of items, country, store, server ids | add, remove, change, configure, clear, change country or store, poll, apply replies | app and server agree in the end, one entry per line |
| Session in the app (`core/network`, `core/auth`) | tokens, user | renew token, sign in and out, expire | a late answer does not end a newer session |
| Checkout and orders in the app | cubits | quote, submit, list and refresh orders | retries are recognised, late pages dropped |
| Order queue worker (`ordering/`, `cmd/worker`) | `order_intents.status`, `queue_status` | claim a batch, complete, fail | no order claimed twice, none decided twice, every queued one decided |
| Migrations (`database/database.go`) | the schema, `schema_migrations` | `RunMigrations` at every start of API and worker | files in order, all processes start in the end |
| Authentication (`auth/`) | cached signing keys, their expiry | verify a token, refill the cache | no token of a key long withdrawn, no refusal of a published one |
| Users, campaigns, app configuration, rate limiter, seed | tables they read | queries, single-row upserts | -- |

### How they interact

The app calls the API over HTTP; each call is a goroutine that reads and writes
MySQL in one or several transactions, and Redis in front of the catalog tables.
Nothing in the backend is shared between requests except the database, Redis
and the Redis client's pool. The payment gateway calls
`payments.Service.ApplyMockGatewayCallback` whenever it likes, several times
and in any order. The app holds its cart locally, sends each edit as an
unawaited request and polls the server's copy once a minute.

What is hard about it:

* *Interleaved requests.* Checkout reads outside its transaction, then relies
  on a unique key and on row locks. The cart relies on neither.
* *Snapshot reads.* MySQL runs the transactions at REPEATABLE READ:
  `SELECT ... FOR UPDATE` sees the last committed row, a plain `SELECT` the
  snapshot.
* *Gateway reports.* Duplicates, late and contradicting reports, reports of one
  capture under two event ids.
* *Partial failure.* A report that finds the wallet too short after it wrote
  event, payment and order; a Redis command that fails with or without effect;
  option rows rewritten beside the JSON column they repeat.
* *Replies in any order.* The app applies replies whatever happened since they
  were asked for.
* *Caches.* A value read before an invalidation is written after it; keys are
  fetched outside the lock that guards them.
* *One question, seven queries.* Whether an item is sold is asked by catalog, cart
  and checkout, each with conditions of its own, while the menu is edited.
* *Starts and crashes.* All processes migrate the database at once, DDL commits by
  itself; a worker may die between claim and completion.
* *Limits.* Vouchers with few redemptions, a pool with few connections, a
  circuit breaker.
* *Rounding* of several vouchers over prices with and without tax.

## The modules

Each module has a header that says what one step is. `MC` modules give the
constants of the instances.

### OrderPayments (core), OrderPaymentsProofs

`checkout`, `payments` and the voucher wallet over the tables they share. One
action is one transaction, or one read that the service makes outside of one.
The checkout transaction is two actions, since orders that are committed between
its counts make a difference to it (`seen`); a transaction that needs a row it
has locked waits (`Free`).

| Action | Code |
| --- | --- |
| `Begin` | `Service.Checkout`: lookup by idempotency key, then pricing with `GetVoucher`'s view of the limits |
| `OpenSnapshot` | the first half of `enforceVoucherRedemptionLimits`: the rows of the stack locked up to the first voucher with a limit, and the plain SELECT that counts it |
| `CreateIntentWithPayment`, `CreateIntentFails` | the rest of the transaction, which counts the other vouchers in the snapshot of that SELECT, and its rollback after any error |
| `LookUpAgain`, `CreatePaymentIfMissing` | the second lookup after a failure, `createMissingPayment` |
| `StartPayment` | the wallet top-up of `users.Service.TopUpWallet` |
| `ApplyCallback` | the whole of `payments.Repository.ApplyCallback`: event, payment, order, and `applyCapturedPaymentEffects` with wallet, vouchers and loyalty |
| `MarkOrderCollected`, `AssignActiveVouchers` | the two remaining writers of these tables |

An error inside a transaction rolls all of it back and is therefore a
stuttering step: the action is not enabled. `IntentOnly` requests are those of
`CreateIntent`, which has no caller in the repository but whose orders
`createMissingPayment` is written for. History rows are records of type,
payment, amount and `balance_after`; a reference number is the payment itself.
The voucher of an order stands for its row in `order_intent_vouchers`. `TypeOK` is
not checked by a run, being proved for every instance.

### VoucherReservation, VoucherLedger, VoucherProofs

The same vouchers one level down: the statements inside the checkout and the capture
transaction, the row locks they take, the snapshot their plain SELECTs see, and
rollback at any point (deadlock victim, lock wait timeout, cancelled request).
Checkouts lock a stack by `Rank`, its (priority, code), captures by `Id`, in which the
join hands them the rows; the two may differ. `VoucherLedger` is the abstract promise:
an order reserves all its vouchers in one step within the limits, and later redeems or
returns them together. `VoucherReservation` implements it (`ImplementsLedger`) with
`held` = the orders that await payment. The refinement is stated for the vouchers in
`CountedFirst`, since for the others the code does not keep the promise (see
`reservation_snapshot`).

### CartStore, Cart, CartStoreProofs

The `cart_items` table under concurrent requests: the read that looks for a row
and the write by id are two steps. `Cart` is what a cart is to its user, a
quantity for every line. `ImplementsCart` says that requests which do not
overlap do to the table what the user asked of the cart; `overlap` is a history
variable that records whether any two did. `CartConsistent` includes the types,
as do `QuietAgrees`, `NoRequestStuck`, `NothingLeaked`, `CapturesHaveRoom` and
`DiscountsWithinSubtotal` in the other modules.

### CartSync, CartSyncProofs

`CartBloc` and its copy on the server. Every handler of the bloc is an action;
a request is sent with the country and the store of that moment, handled
(`Serve`), answered (`LoadReply`, `ServerIdsApplied`) or lost (`Lose`) in any
order. The bloc awaits none of its edits, so requests overlap on the server too: the
SELECT that looks for a row (`Find`), the write by id (`Write`) and the list for the
answer (`GetCart`) are three steps. A line is the product with its options; the
lines without (`Plain`) have no option rows that a foreign key could refuse. Prices
and availability flags are left out. History variables: `overlap` (an edit or poll
while something was under way), `raced` (two requests looked for the row of one
line before either had written) and `moved` (another store was chosen).

### CatalogCache, CatalogProofs

`ListCategories` with its three stages (store context, version, menu), for requests
that name the store by code, by id, or by both (`catalog/handler.go:24-38`), which is
the key of the context, while versions and menus go by the code when there is one; the
rebuild lock and `InvalidateMenuCache`, one Redis command or one query per step.
A command may fail at any point, with or without its effect; contexts and locks
may expire. A value that has expired and a GET that fails are one step, since
the code takes both for a miss. A cached value is the number of edits the
database had seen when it was read, which is all that freshness depends on.
History variables: `since` (what was invalidated when a request came), `misread`
(its version could not be read) and `disturbed` (the names for which an invalidation
left an older context, be it in a request, by a lost DEL or under the key of requests
by both), the two conditions under which the code promises less.

### RedisClient, RedisClientProofs

The pool and the circuit breaker: one step is one operation on a channel, one
critical section of the mutex, or one read or write of a socket. A connection
carries a sequence of replies of which each knows whether it belongs to the
caller that holds the connection. The probe of `getConn` is modelled as
written: an error other than `io.EOF` and a timeout replaces the connection, a
byte that is there is consumed. A write to a dead connection may succeed or
fail. `Conns` is `PoolSize + MaxActive` numbers: idle connections plus one for each
token, so a number is always free when the code dials.

### CheckoutPricing, StorefrontProofs

Pure computation as operators: `Order(r)` is what `Service.Checkout` and
`calculateVoucherStack`, `calculateCharges` and `calculateItemTotals` make of a
request, with Go's truncating division and the checked sums and products.
`ValidateVoucher(r)` is what the cart page is told of the same vouchers before: a
second loop over the cart, with other rules. One action answers one request. Brand,
category and item scopes of a voucher are one set of items; the rules that do not look
at the cart (dates, store, wallet status, new users) are one flag. The rule on payment
methods is apart (`Accepts`): it is skipped when the request names none, as the app's
previews do until the methods have loaded. A loop of the code is a fold over the
sequence it runs through, and a sum that fails on the way is None from there on.

### Customizations, Menu, Storefront, StorefrontProofs

`Menu` holds the catalog tables and one operator for each query that reads them,
in the three packages that do, and for each view built from them. A row the SQL
COALESCEs away and a row with the default are the same; names and pictures are
left out. The only action is `Edit`, by a back office that is not in the
repository. `Customizations` is `validateCustomizations`, used here and by
`CheckoutPricing`. `Storefront` composes the menu with checkout, which reads in
three queries between which edits may come, and with the list of orders, a
single order and the list for reordering. A view is one step: what a page shows
while the menu changes under its queries has no promise to be held against.

### Migrations, OrderQueue, PlatformProofs

`Migrations` runs the files statement by statement in any number of processes at
once. A statement creates, adds, redefines or drops one thing (a table, a column, a
key). Those that add or drop look first (information_schema) and alter then, and the
two are two steps; CREATE TABLE IF NOT EXISTS and MODIFY look at nothing, so a slow
process can redefine what a later file made. A process whose migration fails exits
and is started again by its platform. `shared` records the files that two processes
applied at once. `OrderQueue` extends it: a worker that is up polls,
claims a batch (`SELECT ... FOR UPDATE SKIP LOCKED`, `UPDATE`, commit) and
completes or fails each order with a statement of its own. Payment reports overwrite
the status of any order that no claim has locked. Statements may fail
with or without effect, workers may die anywhere, their locks living on until
the database drops the connection. Setting an order to QUEUED is external:
nothing in the repository does. `lost` records the orders a crash or an error
left in PROCESSING.

### SigningKeys, PlatformProofs

Requests with tokens, the cached keys, and an issuer that publishes and withdraws
keys while its answers are under way. Time is a counter that stands still while
a handler computes, since computing takes no time against the ages of keys. A
signature is good if the key it names made it.

## Runs, bounds and fairness

`pass` means that TLC checked every reachable state; `violation` means that the
code contradicts the quoted sentence, and TLC shows how.

| Run | Module | Instance | Distinct states |
| --- | --- | --- | --- |
| `orders` | OrderPayments | four requests of two users under one key: one stored without a payment, two retries of it, one rival; a top-up; reports of every status any number of times, two captures under two ids; vouchers with one redemption in all or per user | 324,320 |
| `orders_duplicates` (violation) | OrderPayments | as above | -- |
| `reservation` | VoucherReservation | four orders, two stacks of both vouchers, which captures lock the other way round, one order revived | 4,971 |
| `reservation_snapshot` (violation) | VoucherReservation | as above, nothing revived | -- |
| `cart_store` | CartStore | six requests of two users: two upserts, an update, an update of a foreign row, remove, clear | 3,291 |
| `cart_sync` | CartSync | two lines, stores and countries, four events of the user, two requests under way, one lost | 1,117,769 |
| `catalog_cache` | CatalogCache | two handlers, three requests by code, id or both, one edit, one invalidation, one failure or expiry | 3,617,377 |
| `redis_client` | RedisClient | three goroutines, two connections, two tokens, two failures trip the breaker, one fault | 409,243 |
| `pricing` | CheckoutPricing | carts of up to two lines, all stacks of two of eight vouchers and four of three, ordered and previewed, with one of two payment methods or none; all 4-bit arithmetic | 68,912 |
| `menu` | Storefront, Menu | two stores in two zones, two drinks, two add-ons, one of another brand, one item in a category of another brand; five carts, two orders, two edits, three of these changes in all | 48,885 |
| `worker` | OrderQueue, Migrations | two workers, two files of five statements, two orders, one crash, two failing statements | 472,249 |
| `signing_keys` | SigningKeys | two handlers, two keys, three tokens, time up to 5 | 1,323,419 |

What they show:

* **`orders`** -- `OneOrderPerKey` and `AnswersAgree`: requests racing
  under one key store one order, all get that order as their answer, and it has
  exactly one payment, also when the first one stopped before creating it;
  `StatusesAgree` (payment and order move together),
  `CapturedIsSettled` (a captured payment has had all its effects),
  `RedemptionsCounted` (counters count each captured order once),
  `ReservationsWithinLimits` (reservations of a voucher that every checkout
  counts first fit its limit; of the others a checkout may miss an order, as
  `reservation_snapshot` shows), `BalancesExplained`,
  `OneRowPerPayment`, `ChargesAreCaptures` (no money moves
  without a row, twice for one payment, or without releasing the order).
  `RedemptionsCounted` is conditional on the gateway not reporting a capture
  under two ids, and `ReservationsWithinLimits` on one verdict per payment; both
  conditions are really needed, as removing them gives counterexamples.
* **`reservation`** -- `NoOrderlyDeadlock`: checkouts and captures wait in a circle
  only through a capture that holds one voucher of its stack and waits for one that
  checkouts lock before it, so never where ids and priorities order the vouchers
  alike, and checkouts among themselves never. In this instance such circles are
  reached; the database rolls one of the transactions back, which is the step
  `Rollback`. `CapturesHaveRoom` (a customer who was let through checkout with
  vouchers that everybody counts first can pay, unless the gateway had refused
  the payment before) and the refinement of `VoucherLedger`, for the same vouchers.
* **`cart_store`** -- the table is a cart as long as requests do not overlap,
  and no request does anything to another user's.
* **`cart_sync`** -- app and server agree whenever nothing is under way and
  nothing overlapped, the list has one entry per line while the store stays the
  same and no two requests look for the row of one line at once (then both may insert
  it, and the app shows both), and once the user stops they agree for good unless the
  list is empty.
* **`catalog_cache`** -- menus and prices are never older than the last complete
  invalidation, unless the version could not be read, and for prices unless an
  invalidation left an older context behind; no request waits for ever.
* **`redis_client`** -- no command gets the reply to another, no connection and no
  token is lost or has two owners, and once Redis stays up the pool rids itself of
  dead connections and the breaker stays closed.
* **`pricing`** -- `CodesInAnyOrder`, `FewerVouchersNeverCheaper`,
  `DiscountsWithinSubtotal`, `WithinACent`, `ArithmeticExact`, and
  `PreviewIsHonoured`: for a cart that can be ordered, preview and order
  accept the same stacks and take off the same; what a preview accepts can be
  ordered, unless it named no payment method and a voucher is not for the one of the
  order.
* **`menu`** -- `AvailabilityAgrees` (the four catalog views of an item, with or
  without a store in the request, and the pages of the store list; an item in the
  category of another brand is missing from the menu, and only from it),
  `OffersAreHonoured` (what item pages and the cart show as available is what
  checkout sells, for that price), `ReordersAreHonoured` (the same of the
  reorder list), `PagesAddUp` (an order looks alike on a page and alone, and
  adds up to what was charged unless the menu changed). The conditions inside
  `OffersAreHonoured` mark where the queries differ; they are listed below.
* **`worker`** -- `SchemaInOrder`: although processes migrate at once and start
  again after a crash in a file, a recorded file is in effect, but for statements
  that a later one undoes, or that a file undoes which two processes applied at once;
  a process that works has all files recorded. The last exception is needed: without
  it TLC finds the slower process dropping the key that the faster has added and
  recorded; if it dies there, the key stays away. `AllStartUp`: all processes come up.
  `ProcessingIsHeld`: an order is with one worker at most, and an
  order in PROCESSING with one, unless a crash or an error left it behind.
  `OnlyReportsRevise`: nothing but a payment report changes an order that a worker or
  a report has decided, in particular not a worker whose `Complete` had its effect but
  reported an error, nor one whose batch still has the order. `QueuedIsDecided`: with the
  same exception, every queued order is decided.
* **`signing_keys`** -- `AcceptedIsRecent` bounds how long a withdrawn key is
  accepted: the longest lifetime of an answer plus one timeout, however answers
  overtake each other. `PublishedIsAccepted`: the cache and the other handlers
  never make a good token fail.

Bounds, and why they are enough:

* *Requests and users.* A race over a key or a voucher needs two requests; the third
  and fourth are there for a retry after the race, or for somebody who takes
  the place that became free. All limits are 1, and reached,
  with one order too many.
* *Reports* are not bounded: every report may come at any time and again. The
  state stays finite because rows are unique per payment. Counters are
  bounded by their limits; the voucher without a limit in all (`v2` in
  `orders`) has one per user.
* *CartSync* `MaxCalls = 2`: reordering needs two requests under way.
  `MaxHurries` is how often the user acts while something is under way; the
  other events wait for quiet. `MaxEvents` covers add, open, configure and one
  more. `MaxQuantity = 2`, since quantities are only compared and added.
* *VoucherReservation* The ids of the two vouchers order them against their ranks.
* *CatalogCache* `MaxRequests = 3`: one that caches, one that builds under the
  old version, one that is answered after the invalidation. With one edit and
  one invalidation an answer is either old or new. `MaxFaults = 1`
  covers each single failure at each point; `MaxAttempts = 1` (8 in the code)
  keeps the loop of the lock, which has the same steps in each round. Handlers
  are symmetric; the VIEW drops what a finished request no longer reads.
* *RedisClient* Three goroutines against two tokens, so that one is refused; a
  pool of two, so that a dead connection can hide behind a live one;
  `FailureLimit = 2` (5 in the code) so that the breaker trips on what one
  restart leaves behind. `MaxFaults = 1`; with 2 the same properties hold
  (1,328,667 states).
* *CheckoutPricing* amounts of a few cents make every rounding, cap and
  exhausted subtotal occur. `MaxInt` is far from the carts, overflow being
  checked on the arithmetic alone, exhaustively for 4 bits.
  Previews are asked for the same carts and stacks, with either method or none.
* *Menu* Two zones, so that a price may exist in one only; one shared and one
  foreign add-on; one edit of anything between two queries of a checkout, and
  one more before or after. `MaxChanges` bounds edits and orders together.
* *OrderQueue* Two workers collide and take over from each other; two orders in
  a batch of two, so that the second one waits for the first; two failures, so
  that `Complete` and the `Fail` after it may both fail. The files have all kinds of
  statements: a column that is created, redefined, and redefined again by the second
  file (`loyalty_accounts.tier`, 0004, 0012, 0020), and a key dropped and added (0016).
* *SigningKeys* two keys are one rotation; answers with a lifetime longer and
  shorter than the default; time enough for a key to be withdrawn,
  cached, brought back by a slow answer and to expire.
* Deadlock is checked in the runs of `OrderPayments` (reports may always come) and
  of `RedisClient`, and switched off where the system may simply be finished:
  every request answered, bounds used up.

Fairness, stated only where liveness is checked:

* `CartSync!FairSpec`: the poll timer fires (`Timer.periodic`, stopped only when
  the bloc is closed), and requests under way do not all stall: `ApiClient` has
  connect and receive timeouts, 35 s in all, so each one is answered or fails.
  The user owes nothing.
* `RedisClient!FairSpec`: a goroutine inside `execute` goes on, since each of its
  waits has a deadline (100 ms for a token, 150 ms to dial, 1 s to write and
  read); time passes for the breaker; Redis answers what it received. That
  commands keep coming is an assumption on the load, not on the code: the pool
  is only examined when a command wants a connection.
* `OrderQueue!FairSpec`: a process that runs goes on and one that exited is started
  again (the services of ECS and EKS in `SYSTEM_DESIGN.md`), a worker polls with
  each tick of its ticker (`cmd/worker/main.go:31`), and the database drops a
  dead connection with its locks. That statements fail is bounded, not fair.
* `CatalogCache!NoRequestStuck` needs no fairness: in every state each request
  under way can take a step of its own, whatever the others do, and the attempts
  at the lock are bounded by the type invariant.

Each property of a passing run has a mutant in `PROJECT.json`: a plausible slip
in the code (the operators marked `Slip:`) under which TLC finds that
property violated.

## Proofs

Eight modules prove 39 theorems, for all values of the constants that satisfy
the assumption of the module: any sets of requests, users, vouchers, lines,
orders, tokens, any menu, prices and carts, any number of processes, and any
bounds. 35 state a property that a run checks; `TypeCorrect` and `LimitsHold`
state two that need no run any more, `PricingTypes` one that
`DiscountsWithinSubtotal` contains, and `WorkersMigrate` links two specifications.

| Module | Theorem | Property | Argument |
| --- | --- | --- | --- |
| OrderPaymentsProofs | `TypeCorrect` | `TypeOK` | `LinkInv` is inductive |
| | `IdempotentOrders` | `OneOrderPerKey` | `OrderInv` is inductive |
| | `SameAnswer` | `AnswersAgree` | from `OrderInv` |
| | `OrdersFollowPayments` | `StatusesAgree` | in `OrderInv` |
| | `BalancesFollowHistory` | `BalancesExplained` | inductive on top of `LinkInv` |
| | `EffectsAtMostOnce` | `OneRowPerPayment` | inductive on top of `LinkInv` |
| | `LimitsHold` | `RedemptionsWithinLimits` | inductive on top of `LinkInv` |
| | `ChargesRelease` | `ChargesAreCaptures` | a step from `LinkInv` |
| | `CapturesSettle` (E) | `CapturedIsSettled` | `SettledInv` is inductive |
| | `CountersCountOrders` (E) | `RedemptionsCounted` | `CountedInv` is inductive |
| | `ReservationsAreReal` (E) | `ReservationsWithinLimits` | `ReservationInv` is inductive |
| VoucherProofs | `PaidForOrdersFit` | `CapturesHaveRoom` | `VoucherInv` is inductive |
| | `DeadlocksTakeDisorder` | `NoOrderlyDeadlock` | from `Transactions`: the circle's highest voucher |
| | `LedgerIsKept` | `ImplementsLedger` | refinement, step by step from `VoucherInv` |
| CartStoreProofs | `LinesStaySingle` | `CartConsistent` | `StoreInv` is inductive |
| | `CartIsImplemented` | `ImplementsCart` | refinement, step by step from `StoreInv` |
| CartSyncProofs | `LinesStayDistinct` | `LinesDistinct` | `LinesInv` is inductive |
| | `AgreesWhenQuiet` | `QuietAgrees` | `SyncInv` is inductive |
| CatalogProofs | `MenusAreFresh` | `FreshMenu` | `CatalogInv` is inductive |
| | `PricesAreFresh` | `FreshContext` | in `CatalogInv` |
| RedisClientProofs | `NothingIsLeaked` | `NothingLeaked` | `Client` is inductive |
| | `RepliesAreOwn` | `OwnReply` | in `Client` |
| PlatformProofs | `SchemaOrdered` | `SchemaInOrder` | `MigrationInv` is inductive |
| | `WorkersMigrate` | `MigrationsSpec` | step by step: no action of a queue touches the schema |
| | `ClaimsExclusive` | `ProcessingIsHeld` | `QueueInv` is inductive |
| | `OnlyReportsReviseVerdicts` | `OnlyReportsRevise` | a step from `QueueInv` |
| | `OnlyRecentKeysOpen` | `AcceptedIsRecent` | `KeysInv` is inductive |
| | `PublishedKeysOpen` | `PublishedIsAccepted` | a step from `KeysInv` |
| StorefrontProofs | `PricingTypes` | `TypeOK` | from `AnswerInv` |
| | `NoMoreThanTheSubtotal` | `DiscountsWithinSubtotal` | from `AnswerInv`: remainders along the stack |
| | `ArithmeticIsExact` | `ArithmeticExact` | from `AnswerInv`: the signs of the operands |
| | `OrderOfCodesIsIdle` | `CodesInAnyOrder` | from `AnswerInv`: one list of a set in order |
| | `PreviewsAreHonoured` | `PreviewIsHonoured` | from `AnswerInv`: lines alike for vouchers |
| | `RoundsWithinACent` (R) | `WithinACent` | from `AnswerInv`: two roundings |
| | `VouchersNeverWorkAgainst` | `FewerVouchersNeverCheaper` | from `AnswerInv`: two stacks side by side |
| | `WhatIsOfferedIsHonoured` | `OffersAreHonoured` | `StoreInv`, line by line |
| | `WhatIsOfferedAgainIsHonoured` | `ReordersAreHonoured` | `StoreInv`, row by row |
| | `OrderPagesAddUp` | `PagesAddUp` | `StoreInv` is inductive |
| | `EveryoneToldTheSame` | `AvailabilityAgrees` | `StoreInv`, view by view |

### Inductive invariants

Hardly any of these properties is inductive as it stands. What each proof adds:

* **`OrderPaymentsProofs`.** `LinkInv == TypeOK /\ Linked /\ Replied`.
  `ApplyCallback` computes amounts from the order of a payment, so the
  order must exist (`Linked`: a payment row belongs to a stored order of the same
  user and is made by the last step of its request), and a retry makes a payment
  for the order it looked up, which must be one under its own key (`Replied`).

  `OrderInv` adds `Created` (an order exists only after its request has committed),
  `OneOrderPerKey` itself, `OnePaymentPerOrder` (two payments of an order could
  be in different states, and the order could agree with one of them only),
  `Payable` (an answered order has its payment) and `Undecided` (only a report
  takes an order out of PAYMENT_PENDING, so an order about to get its missing
  payment is still pending).

  `SettledInv == LinkInv /\ CapturedIsSettled /\ RecordedSettled`.
  `CapturedIsSettled` is not inductive, because a report whose event is already
  recorded sets CAPTURED without any effect. It must be known that the recorded
  event was a capture of the same payment, whose effects are still there
  (`RecordedSettled`; `SettledStays` says that rows and counters only grow).

  `CountedInv` says that the counters of a voucher count sets that are finite;
  a capture of an order adds that order, once, because its payment is the only
  one of its order and no capture of it was recorded before. `ReservationInv`
  adds `LastVerdict` (while a payment has one event, its status is that of the
  event): the order that a capture moves from pending to redeemed was pending,
  so the sum of both stays the same. `Snapshots` says that a checkout which counts has
  every pending order of a voucher that all count first in its snapshot, since it
  has held that voucher's row from before the snapshot on.

* **`VoucherProofs`.** `VoucherInv == Typed /\ Transactions /\ Room`.
  `Transactions` is what each open transaction holds: the rows it has dealt with
  (`HoldsItsRows`), in order of rank and without a snapshot before the first
  count (`GoesInOrder`), for an order in a status that allows it (`InItsTime`).
  `Room` says that redemptions and pending orders fit into the limits (`Fits`),
  and that an order which was let through still fits while its checkout runs
  (`LetThrough`), which holds because it keeps the row of the voucher locked. For
  `ImplementsLedger`, a commit of checkout or capture is a step of the ledger,
  and every other statement a stutter.

* **`CartStoreProofs`.** `StoreInv` says that ids are fresh and, as long as no two
  requests overlapped, that at most one is between its two steps and that the
  row it found is still what the table holds (`StillTrue`). The refinement is shown
  cell by cell: `Becomes` describes what a write does to the rows of each user
  and line, and `BecomesReplaces` that the cart makes the same change.

* **`CartSyncProofs`.** `LinesInv` has the types of the requests under way, rows with
  one id and one place per line and store, and one store until another is chosen.
  Until two requests race, what a request has found is still so when it writes, for
  nobody else is about to insert that line (`FoundAlone`). `SyncInv` adds `Quiet`:
  with nothing under way the list is what the rows say, and with one request under way
  alone it is what that request makes of the rows, or has made (`Pending`). List and
  rows are compared as sets of pairs of line and quantity, on which each edit of the
  bloc and each handler of the server either puts or drops one pair
  (`RequestSettles`), in whatever order both keep their rows. That the lengths agree
  too follows from one entry per row.

* **`CatalogProofs`.** A menu under the current version is no older than the
  last invalidation (`MenuFloor`), and no future version is in use (`Versions`).
  While an invalidation is between its two INCRs, the version of the code is
  already held to what that invalidation promises, the one of the id not yet.
  `FreshContexts(n)` says the same of the contexts of a name and of the requests that go
  by it, for each step of the deletion, on the condition that no invalidation left an
  older one for that name.

* **`RedisClientProofs`.** A connection is closed, in the pool, or with one caller
  (`HeldOnce`), and tokens are counted by the set of those who have one.
  `NothingLeft` is what `OwnReply` rests on: a connection in the pool has no
  reply left, since a command that fails half way closes its connection.

* **`PlatformProofs`.** `MigrationInv` says that all files before the one a process
  applies are recorded (`BehindIsRecorded`, `RecordedInOrder`), that who applies a
  file which is recorded, or which another applies, knows it is shared
  (`SharingIsKnown`), and that each statement that lasts is in effect from when it
  was executed on (`DoneIsInEffect`): to undo it takes a later statement, or a process
  that came to a file before it and is still there, which shares that file.
  `WorkersMigrate` carries this over to the workers. In `QueueInv`, rows are locked
  by one worker, claimed orders are in one batch, locked rows are QUEUED and batches
  hold none that is.

  `KeysInv` bounds, for the cache and for each answer under
  way, how long before its end of life a key in it was withdrawn (`GoodUntil`),
  given that no handler waits for more than one timeout (`OnTime`), and says that
  a key which has been published all the while is in each of those answers
  (`SteadyIsServed`).

* **`StorefrontProofs`, pricing.** The state is one request and its answer
  (`AnswerInv`); the work is in what loops compute. `FoldLeft` is defined by a
  recursive function on sets of indices. `FoldTable` builds that function up to
  any length, `FoldRuns` says that it takes one step after another, and for each
  loop of the code a lemma (`TotalRuns`, `SafeTotalRuns`, `NormalizeRuns`,
  `ApplyRuns`, ...) gives a function from 0..n to the values after each round. An
  induction over the rounds is then one over 0..n (`UpTo`).

  A voucher takes off more from a larger remainder, but never more than the
  difference (`OffStep`: true of percentages, fixed amounts and caps, with their
  rounding). So remainders that are in order stay in order along a stack
  (`LessRemains`), and the one voucher that is left out leaves no less. For
  `CodesInAnyOrder`, sorting is a CHOOSE of a list in order, which is unique
  (`OrderIsUnique`), and the pairwise rules depend on the set (`PolicyOfSet`). For
  `WithinACent`, the share of prices with tax in them is off by half a cent, on
  which the tax is off by no more, and the tax itself by half a cent.

* **`StorefrontProofs`, menu and orders.** `StoreInv` says that the menu is one,
  whatever was edited (`MenuType`), and of every order and of the checkout under
  way what it knows as long as the menu is the one it began with: that its lines
  are sold and cost the subtotal (`CostsNow`), or that the items were (`ItemsRead`,
  between the two queries). An edit makes these claims void, since `began` is then
  below `edits`; this is why `PagesAddUp` alone is not inductive. The views are
  compared with checkout line by line (`Agrees`): what the page, the cart or the
  list shows of an item and its options is what both price queries find.

Each `Next...` lemma has one step per action. Effects of a capture are taken
apart in lemmas of their own (`MoveWalletType`, `EarnPointsType`, `RedeemType`,
`EffectsType`, and their counterparts for history and settlement).

### Assumptions

The assumptions are those that stand in the modules, and TLC evaluates each on
the instances of its runs:

* `ConstantsAssumption`: types, and requests and top-ups do not share an id.
* `EventsIdentifyReports`, a hypothesis of the theorems marked (E): an event
  id belongs to one transaction and one status. `ApplyMockGatewayCallback`
  makes ids that way unless the gateway sends its own. The instance of `orders`
  satisfies it.
* `ReservationAssumption`: types; no two vouchers have the same rank, since codes are
  unique, nor the same id. How ranks and ids relate is left open.
* `CartStoreAssumption`: the table is consistent when the run starts, and the ids
  AUTO_INCREMENT hands out are above those in it.
* `CartSyncAssumption`, `CatalogAssumption`: the app starts in one of the
  countries and stores, there is something to order, bounds are numbers.
* `RedisAssumption`: finitely many goroutines, and at least as many tokens as
  the pool has places, as in `NewRedisClientWithConfig`.
* `MigrationAssumption`, `QueueAssumption`: a sequence of files of statements, of
  which none gives a thing the form of one that is absent; a batch is not empty.
* `TimesAssumption`: an answer has one of finitely many lifetimes, and tokens
  have the fields that are read.
* `PricingAssumption`: types. Base prices and what options add are not negative,
  and the value of a voucher is positive. The columns are plain INTs, so
  this is a promise of whoever fills the tables; the seed keeps it, and with a
  negative adjustment a share could exceed its whole.
* `MenuAssumption`: an option belongs to the item of its group, an item to some
  category, stores are numbered (foreign keys and ids). The category may be another
  brand's: `menu_items.brand_id` (0003) is a column of its own.
* `StorefrontAssumption`: the menu at the start and the carts are typed.
* (R), a hypothesis of `RoundsWithinACent`: the tax rate of a request is at most
  100 per cent. `countries.tax_rate` is DECIMAL(5, 4), which allows more; the seed
  has 6 and 7 per cent. With a rate beyond, the tax on half a cent is more than
  half a cent.

`None` is a model value and none of the values it stands in for: the other
conjuncts of these assumptions say that.

### Only model-checked

* Liveness: `EventuallyAgreesOrEmpty`, `FindsBack`, `AllStartUp` and
  `QueuedIsDecided`.
* `NoRequestStuck`, which speaks of ENABLED.

Both are out of the prover's reach. Every other property of a passing run is the
statement of a theorem.

## Where the code departs from what is said of it

With a run:

1. `orders_duplicates`: `ApplyCallback` (`payments/repository.go:139`) overwrites
   payment and order on every delivery, known event or not.
   `BACKEND_ARCHITECTURE.md:250` promises to "Ignore duplicated gateway event
   effects and return the current transaction state".
2. `reservation_snapshot`: the second voucher of a stack is counted in the
   snapshot taken for the first (`checkout/repository.go:697`), so two orders can
   reserve its last redemption. `DATABASE_SCHEMA.md:420`: "Voucher redemption
   must be reserved atomically during checkout."

Met while modelling, with no run of their own; a property above is stated so that it
does not promise them, or the model leaves them out:

* *Orders.* FAILED or AUTHORIZED after CAPTURED takes an order back although it
  was paid. A capture reported under two event ids counts its vouchers twice.
  One voucher of a user's wallet can pay for several pending orders: nobody looks
  whether the UPDATE at `payments/repository.go:356` changed a row. An unpaid
  order holds its vouchers for ever. A top-up by EWALLET is credited without a
  debit (`users/service.go:175`). `CreateIntent` has no caller.
* *Vouchers.* A checkout locks the vouchers of its stack by priority, a capture in the
  order of the join (`payments/repository.go:356`), which is that of the ids. Where the
  two differ they can wait for each other; InnoDB rolls one of them back, and neither
  `Checkout` nor `ApplyCallback` tries again.
* *Checkout in the app.* Each submit makes a new idempotency key
  (`checkout_cubit.dart:263`), so a submit repeated after a lost answer is a new
  order; the repository's `README.md:310` has "Duplicate submissions" controlled by
  idempotency keys.
* *Menu.* The item page shows another brand's add-on as available, which checkout
  refuses, and hides an item of an inactive category, which checkout sells. The cart
  shows an add-on in place of a drink, or an item without a price in the zone, as
  available for 0. An item whose required group is sold out is shown as available. An
  item in a category of another brand is missing from the menu, which lists the
  brand's own categories (`catalog/repository.go:187`), while category page, item page
  and availability check go by the brand of the item (`:230`, `:272`).
* *Order history.* Orders are shown at today's prices, and with 0 for what is
  not sold any more (`checkout/service.go:543`), where
  `ADR-002-raw-sql-and-sqlc.md:14`, `BACKEND_ARCHITECTURE.md:154` and
  `DATABASE_SCHEMA.md:574` promise immutable snapshots. One store that is not
  active any more makes every page with one of its orders an error, and
  `MarkOrderCollected`, which has then changed the order, as well (`:674`). The
  reorder list shows the price at the store of the newest order without naming
  the store. Pages are cut by offset over `created_at` alone, so orders of one
  second may swap between two requests.
* *Order queue worker.* An order left in PROCESSING by a crash or an error is
  never claimed again; `BACKEND_ARCHITECTURE.md:252` speaks of retries, but of
  those of the queue service the code does not use yet. A payment report overwrites an
  order that a worker has completed or failed, or is about to.
* *Migrations.* `README.md:281` of the repository says they are "applied in sorted order
  by the backend migration runner". Processes that start together apply them side by
  side (`database/database.go:142-173`): the slower may redefine the column of
  `0012_schema_hardening.sql:136` after the faster has recorded 0020, which redefined it
  again, or drop the foreign key of `0016_nullable_payment_order_tracking.sql:13` after
  the faster has added and recorded it, and die before it adds it again. Neither file
  is ever applied again.
* *Authentication.* A slow fetch that ends after a faster one brings a withdrawn
  key back for another lifetime (`auth/auth.go:213`), within the bound of
  `AcceptedIsRecent`.
* *Cart service.* `0006_cart.sql:3` says "Uniqueness is enforced at the
  application layer", but two requests for one new line both insert it
  (`cart/repository.go:128`), and later upserts change one of the two rows. Two
  updates that swap two lines at the same time delete both
  (`cart/repository.go:216`: the twin is deleted between being found and
  written).
* *Cart in the app.* A reply to a request of the old country fills the list of
  the new one (`cart_bloc.dart:117`), although `:61` clears it "so the UI
  doesn't show stale items". The reply to a load asked for one store sets
  `storeId` after another was chosen (`cart_bloc.dart:118`), and checkout then
  orders at that store (`checkout_cubit.dart:258`). A list emptied before its
  first answer arrives stays empty while the server keeps the row, since an
  empty list is not polled (`:138`, `:206`). An edit from a product page is
  dropped when the item got its server id in between (`:269`). After a change of
  store the server stores the line of the old store and of the new one (`:225`,
  `:241`). A load under way at sign-out refills the list (`app.dart:55`).
* *Menu cache.* When the version cannot be read, the menu under version 0 is
  served, however old within its 24 hours (`catalog/service.go:97-107`). A request
  that names both `store_id` and `store_code` uses a context key that no invalidation
  deletes (`:72`, `:735-738`), and a menu built from that context under the new version
  is served to everybody who names the code, until the TTLs of both are over. A
  context read before an invalidation can be cached after it. The lock
  is deleted without comparing the token (`:314-316`), so after it expired under a
  slow reader two others may rebuild at once. An invalidation that cannot
  look up the store reports success after reaching the keys of the code alone
  (`:727-730`).
* *Pricing.* `API_AND_DATABASE_DESIGN.md:71` allows one voucher per stacking
  group and computes each on "the remaining eligible subtotal"; the code lets
  combinable vouchers of one group stack (as
  `TestCalculateVoucherStackAllowsDuplicateGroupWhenConfigured` wants) and
  prorates over the whole cart (`checkout/service.go:1105`). A stack is refused
  when one voucher rounds to nothing, but a voucher after the subtotal is used
  up is skipped in silence. `prorateAmount` multiplies unchecked (`:422`), and
  the preview of a voucher adds and multiplies unchecked throughout (`:914`),
  and accepts carts that checkout refuses. As long as the payment methods have not
  loaded, the app previews without one (`checkout_cubit.dart:341`), for which the rule
  on methods is skipped (`:1168`): the stack may be refused when it is ordered.
* *Redis client.* The comment at `database/redis.go:271` says the probe verifies
  that the connection is alive; `:275` lets `io.EOF` pass, so every idle connection
  that Redis closed costs one failed command, five of them trip the breaker, and
  as the count is not reset when the breaker expires, each further one trips it
  again for 15 seconds. `FindsBack` shows that this ends.
* *Others.* `ActiveOrderCubit` has no request token where `OrdersPageCubit` has
  one. A 401 to a request of an earlier session signs the new one out
  (`api_client.dart:107`).

## Not modelled

* *Users, voucher listings, campaigns, app configuration*: one query after the
  other or an upsert of one row, no state of their own. The writes that matter
  to others, top-ups and the assignment of vouchers, are actions of
  `OrderPayments`.
* *Rate limiting*: the token bucket changes in one step under one mutex.
* *Seed, the mock mode of authentication*: for development only.
* *Texts of the migration files*: statements that create, add, redefine or drop a
  thing. What they do to rows (UPDATE, INSERT), a DROP TABLE of a table that no file
  creates (`0012_schema_hardening.sql:3`), and the guards around some MODIFYs (that the
  column is there, or is not yet what it is to be) are left out; the tables
  they leave are where the unique keys of the models come from.
* *Routing, handlers, error mapping, configuration*: each request on its own.
* *Session, checkout and orders in the app*: planned.
* *Widgets, themes, texts, routes; RESP parsing; logging*: no behaviour that a
  property would be about.
* *Loss of the process* in the middle of a request (`OrderQueue` and
  `Migrations` have it): transactions make it a rollback, which is a step (or
  stutter) of every model; between transactions it is a request that goes no
  further, which every interleaving without fairness contains.

## Plan

Done, in the order of importance: orders and payments; vouchers inside the
transactions; the cart in the database; the cart in the app; the menu cache;
pricing; the Redis client; proofs about orders and payments; the menu and what is
built on it; migrations and the worker; signing keys; proofs about every one of
these, pricing and the menu last.

Next modules: *session* (`core/network/api_client.dart`, `core/auth`), where a late
answer must not end a newer session, and *checkout and orders in the app* over
the one order per key that `OrderPayments` shows of the server.

Next proofs: the negative adjustments that `PricingAssumption` leaves out, for the
properties that survive them (`CodesInAnyOrder` and `PreviewIsHonoured` should), and
`CartSync` across a change of store, where entries may be doubled for a while.
