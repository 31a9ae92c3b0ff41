# MicroShop in TLA+

MicroShop is a marketplace of FastAPI microservices: asyncio processes over
PostgreSQL (READ COMMITTED, SQLAlchemy sessions) and MongoDB, RabbitMQ for
commands and domain events, Kafka for analytics, S3 for images, Redis as an
optional cache. This directory models what its services are hardest to get right
in: what happens to an order, its stock, its money, a session, an image, a
notification or a report when requests, consumers, retries and crashes
interleave. TLC checks the models on small instances; TLAPS proves the main
results for every value of the constants.

## 1. Inventory of the system

| Component | State | Operations | Talks to |
|---|---|---|---|
| auth-service, balance | `users.balance`, `balance_operations` (unique `reference`), cached balance | internal debit and credit, deposit, withdraw, read | called by payment-service and by the browser |
| auth-service, sessions | `users` (unique email, phone), `refresh_tokens`, a cookie in the browser | register, login, rotate, logout, logout all, change role | browser |
| payment-service | `payments`, read cache | create, complete, cancel, retry, refund; commands of order-service | auth-service over HTTP; events to order-, notification- and analytics-service |
| order-service, life of an order | `orders.status`, its queues | create, cancel, close, PATCH of any status (order-service's own route; the gateway has none), events of catalog and payment | catalog-service over HTTP and by command; payment-service by command |
| order-service, items | `order_items`, `orders.total_amount` | add, change, remove, replace all; returned by cancel and refund | catalog-service over HTTP |
| order-service, cache | five kinds of key of one order | filled by reads, deleted by every change | Redis |
| catalog-service, stock | `products.quantity` | reserve a batch, confirm (commands); reserve, release one (HTTP) | answers order-service with events |
| catalog-service, cards | `products`, images in S3, product cache | create, PATCH, upload an image, delete, read | browser, S3, Redis |
| notification-service | `notifications`, cached lists, registry of open sockets | store and push an event, read, connect | events of order- and payment-service, api-gateway |
| analytics-service | events in MongoDB (unique id), Kafka offsets, cached overview | store an event once, report | Kafka, Redis |
| api-gateway | two tasks per WebSocket | check the token, forward HTTP and WebSocket | everything |
| frontend, observability, compose, migrations | none of the domain | | |

What is hard, and what makes each part correct:

* **Balance.** A request looks its reference up without a lock, then locks the
  user's row, then writes a value computed from what its identity map holds.
  Correct: a reference moves money once, an answer is what the journal says, an
  internal change loses no update, nobody waits for ever on a lock.
* **Sessions.** Checks read without a lock what updates lock later; a sweep
  updates only the rows its statement saw; the role goes into a token as it was
  read. Correct: identifiers stay unique, a token is used twice only by two
  requests that overlapped, nothing survives a logout from all sessions but what
  was in flight, and a browser that got the answer of every request it committed
  keeps its session unless a sweep took it.
* **Payments.** No row is ever locked and every write is by id; a wallet call
  may take effect after its timeout; the consumer is redelivered what it was
  doing when it died. Correct: rows and events tell the truth about the wallet,
  a refund that was asked for is paid.
* **Orders.** Three processes act on one order: requests, the event consumer
  (one lock over two queues) and the catalog's consumer; each event may come
  twice, and a PATCH may name any status the graph allows. Correct: payment is
  asked for once and only on reserved stock, an order that failed is never
  charged and one that reads paid was, but where a PATCH said so, and a
  reservation is answered in the end.
* **Stock.** A batch takes row locks one after the other while single
  reservations and releases go on. Correct: all or nothing, never below zero,
  and nobody waits for ever.
* **Items.** Edits, cancellations and refunds change the catalog first and the
  order later, with a compensation that may itself fail, or none; an order can be
  edited before its reservation is answered. Correct: what the catalog took for
  an order, or will take when it answers, is the sum of its items, and nothing
  once they went back.
* **Product cards.** An edit writes to S3, PostgreSQL and Redis in turn; any of
  them may fail between two others, and reservations move the same row. Correct:
  the image a product shows exists, garbage has a cause, an edit undoes no
  reservation.
* **Caches.** One pattern: read through, delete after the commit. Correct: a
  stale entry was filled by a reader that overlapped the change, or its delete is
  to come or was lost.
* **Notifications.** At-least-once deliveries, a registry copied under a lock and
  used after it, a proxy of two tasks per socket. Correct: every event is stored,
  a socket that stays whole misses nothing and sees rows in order, sockets that
  are closed are forgotten.
* **Analytics.** Events come twice, late, in any order; offsets are committed by
  position. Correct: no offset passes an event that is not stored, and reports do
  not depend on how events arrived.

## 2. Modules

| Module | Stands for |
|---|---|
| `Ledger` | what auth-service promises of money: atomic, idempotent changes |
| `Wallet` | `BalanceService` as it runs: requests, identity map, row lock, unique index, cache; refines `Ledger` |
| `Sessions` | `AuthService`: accounts and refresh tokens, statement by statement with the row locks of PostgreSQL |
| `PaymentSide` | what order-service may rely on when payment-service tells it about an order |
| `Payments` | payment-service: requests and the command consumer over the rows and a `Ledger`; implements `PaymentSide` |
| `Stock` | what catalog-service promises of stock: batches atomic, only what there is |
| `Inventory` | its transactions, row lock by row lock; refines `Stock` |
| `OrderStatus`, `Orders` | order-service's life of an order with the catalog's consumer, `Stock` and a small payment-service |
| `OrderItems` | the items of an order from its creation: edits, the returns of cancel and refund, the reservation's answer, the changes of status beside them; catalog calls, totals, compensation |
| `CacheAside` | one key of a Redis cache: readers that fill it late, writers that delete it; an instance of it is in each of the next four |
| `OrderCache` | which keys of an order a change deletes, computed from the order as it was loaded |
| `Catalog` | one product: its row, its image in S3, its cached card |
| `Sockets`, `Notifications` | the browser's end, the proxy's two tasks and the registry; notification-service from its queues to the push |
| `Reports`, `Analytics` | the aggregation pipelines as operators over the stored documents; the consuming task, its offsets, the unique index, the cached overview |
| `WalletProofs`, `SessionsProofs`, `PaymentsProofs`, `OrdersProofs`, `CatalogProofs`, `NotificationsProofs`, `AnalyticsProofs`, `OrderItemsProofs` | the theorems about the module they are named after; `WalletProofs` also those about `Ledger`, `OrdersProofs` those about `Inventory`, `OrderItemsProofs` those about `OrderCache`, `PaymentsProofs` those about `Orders` and `Payments` together (`Market`) |
| `MC*` | instances for TLC |

How state and actions correspond to the code:

* **Handlers.** Every request or delivery is a record (`self[r]` in `Payments`,
  `Orders`, `OrderItems`, `Inventory`; `req[r]` in `Sessions`, `Catalog`,
  `OrderCache`; `job` and `task` in `Notifications` and `Analytics`; `pc`, `call`,
  `seen`, `reply` in `Wallet`) whose step is the next await of the function it
  runs; one action is what the code does between two awaits. A handler that goes
  on with an ORM object it loaded does not see later changes of the row: sessions
  have `expire_on_commit=False`, and a SELECT that meets an object of its identity
  map leaves its attributes alone. So the check is made when the row is loaded,
  the write is by id, and what the check saw is where the handler stands.
  `Catalog.Written` is the other half of the same rule: the session writes only
  the columns whose loaded value the request has changed.
* **Queues.** A delivery stays at the head of its queue until it is
  acknowledged; an exception puts it back there (`message.process(requeue=True)`,
  `prefetch_count=1`). `Payments.commands`, the four queues of `Orders` and
  `Notifications.queue` are these queues. Kafka is a log with a position and a
  committed offset per topic.
* **Locks.** Row locks are held to the end of the transaction (`Wallet.lock`,
  `Inventory.locked`, `held` in `Sessions`); `Orders` and `Notifications` run one
  event handler at a time, as the `asyncio.Lock` over both queues does; the
  registry of sockets is copied under its own lock. Nothing else is locked in the
  code.
* **History variables.** `Payments.published`, `sent`, `over` (what a deposit
  wrote over); `Orders.asked`, `reserved`, `patched` (what PATCH wrote);
  `Stock.held`; `OrderItems.held`, `returned`, `contended`, `lost`; `seen` in
  `Sessions`; `Catalog.owed`, `overlaps`, `doubted`; `Notifications.published`,
  `since`; `late` and `kept` of `CacheAside`: what was ever said, taken or lost,
  which the services do not keep and the properties are about.
* **Mutation** operators are the plausible bugs each property is tested against
  (`UpdateUnlocked`, `TakeCommitting`, `WrittenWhole` and so on, each beside the
  operator it is a mutation of); no specification uses them.

How they compose. `Payments` sees the wallet as `Ledger`, which is justified for
internal debits and credits by `WalletImplementsLedger`. A deposit is not one of
them: it writes a balance computed from what it read before it locked
(`MCWallet_lost.cfg`), so `Payments` has it in two steps, `DepositLoad` and
`Deposit`, and the second may write over debits and credits in between. `Orders` sees the
catalog as `Stock`, justified by `InventoryImplementsStock`, and payment-service
as the status of one payment per order. What it relies on is less: that a
payment exists only for an order that asked for one, that money moves only for a
payment and comes back only where it was taken, and that what is announced of
money has happened. That is `PaymentSide`. `Orders.OpenSpec` is `Orders` next to
any payment-service that keeps this word, in whatever order and how often it
speaks; `Payments.OpenSpec` is `Payments` next to any order-service, every command
at any time (`Receive` without the guards of `Send`). Each is proved by itself,
and `Market`, at the end of `PaymentsProofs`, joins them: the commands of one are
the queue of the other, and what `Publish` says goes to `paymentEvents`. `Notifications`
contains `Sockets`, `Analytics` contains `Reports`, and each service with a cache
an instance of `CacheAside` whose value is a function of its own rows.

## 3. Runs

| Run | Instance | Shows |
|---|---|---|
| `wallet_internal` | 2 users (1 registered), 2 requests, 2 references, fair | internal changes are serialised and idempotent, a refinement of `Ledger`; every request is answered |
| `wallet_manual` | 1 user, 2 requests, an internal reference and two of deposits and withdrawals | a change is overwritten only by a deposit or withdrawal that overlapped it; answers and cache stay truthful |
| `payments_faults` | 1 order, 2 requests on every route, all commands, 1 row, 1 fault, a deposit beside them, fair | rows and events match the wallet, a payment side that keeps its word; a refund that was asked for is made while any payment of the order stays refundable |
| `inventory` | 2 orders, 2 products, 2 of each in stock, the consumer and 2 requests, fair | every transaction is one step of `Stock`, every session ends |
| `orders_races` | 1 order, 2 requests on every route, PATCH of paid, failed and shipped, 1 fault | payment asked for once; failed never charged and paid means charged, but for those PATCH named so |
| `orders_answered` | 1 order, 1 request on every route, PATCH of paid, shipped and delivered, 2 faults, fair | the reservation is answered, even behind a blocked payment queue; without a fault a requested refund cancels the order, unless PATCH moved it elsewhere |
| `order_items` | 1 order from its creation, 2 products, 2 requests of every kind (edits, cancellation, refund, changes of status), 3 rows, 1 fault | what the catalog took for the order, or will take when it answers, is what its items list, and nothing once they went back |
| `sessions` | 3 requests of every kind, 3 users, 2 emails, 2 phones, 1 browser with a session | identifiers stay unique; tokens are used once, or by two requests that overlapped; sweeps end sessions; old roles are in flight only; a browser that got every answer keeps its session |
| `notifications` | 3 events in 2 queues (one unreadable at the start, two published), 1 socket, 1 reader, 1 fault, fair | duplicates need a fault; a whole socket misses nothing and sees rows in order; every event is stored; closed sockets are forgotten |
| `catalog` | 3 requests of every kind, 3 patches, 1 in stock at most, 1 reader whose link may fail to be signed, 1 fault | the image that is shown exists, orphans have a cause, edits keep reservations, stale cards were filled late |
| `analytics` | 4 events of one order of two products that tie, and a message that is none, 2 topics, a backlog, 3 windows, 1 reader, 1 fault, fair | offsets never pass an event that is not stored; no report depends on the order or the number of arrivals; reports agree with each other; every event is stored |
| `order_cache` | 2 requests of every kind, 1 reader, 3 items, 2 sellers, 2 changes | a view that is stale was filled late, or a delete of it is to come or was lost |

Properties that say when they do not hold; each exception is a behaviour of the
code:

* `RefundCompletes` says nothing of an order of which, from some time on, no
  payment reads succeeded or refunded. Handlers write by id what they decided on
  a stale object: one that fails, times out or dies in `complete_payment` writes
  processing, failed or cancelled over a payment that succeeded meanwhile; the
  refund then finds nothing to refund and is requeued for ever
  (`payment.py:351`), though the payer was charged and the success announced.
* `RefundCancelsOrder` ends where a fault is taken, and where PATCH gave the order
  another status: moved to shipped while the refund is under way, the order
  ignores it (`order.py:601`); named paid without a payment, it has nothing to
  refund. `FailedIsNeverCharged` and `PaidMeansCharged` except the orders that
  PATCH named failed, or paid: `update_order` asks only the graph, charges nobody
  and calls off no payment.
* `BooksBalance` excuses two requests that use one and the same item at a time, of
  which a cancellation or a refund uses all (nothing in the code keeps them apart:
  both give the stock back), a status written over a cancellation by a handler
  that had loaded the order before, and the steps the code has no way to undo
  (`lost`): a call that took effect without an answer, a death, a cancellation or
  an edit that stops half-way. TLC stops exploring there (`CONSTRAINT Unspoilt`),
  since from then on it holds trivially. What is given back of an order whose
  reservation is then refused was never taken; the formula counts a reservation
  that is not answered, or refused, as still to be taken, so it says of such an
  order only what its handlers moved (`MCOrders_returns.cfg` shows the stock that
  is gained).
* `CachedCardStaleOnlyIfLate` allows a card to lack the link of its image: signing
  it may fail, and the card is cached all the same (`s3_client.py:86`).
* `ReportsIgnoreArrival` compares the sets of top lists the database may answer:
  products that tie come in any order, and the limit may cut between them
  (`analytics.py:195`).
* `ShownImageExists` ends where a commit succeeded and its handler was told that
  it failed (`doubted`): `upload_product_image` then deletes the image it has just
  made visible.
* `EventsAreStored` of `Analytics` ends where a commit of offsets failed: it is
  outside the loop's `try`, the task ends, and nothing starts it again.
* `WholeSocketMissesNothing` is about connections no end of which is closed or
  hangs.

Bounds. Two requests and the consumers are enough for every pair of handlers to
overlap, and no code path involves more than two handlers of one kind: a third
only repeats the effect of one of them. Only `orders_answered` has one request
beside the consumers, to leave room for two faults. `Sessions` and `Catalog` have a third
request, for a sweep beside a rotation and a login, and for two edits beside a
reservation. `MaxFaults` bounds deaths, timeouts and lost publications or
answers: with two, a redelivery can fail again; with one, a refund that meets it
is retried. `MaxPayments` bounds rows: with the one row of `payments_faults` two
requests can overlap on it in every way; its safety properties are proved for any
number of rows, requests and faults, so a payment that is retried or cancelled
beside its successor is covered there, but liveness is not checked with two rows. In `Orders` a call starts only while fewer than
`MaxCommands` payment commands wait and a payer retries only while fewer than
`MaxEvents` events do; without these two guards both queues could grow for ever
behind an event that is requeued for ever, and with them a second command or event
can still meet the first. `MaxChanges` bounds the commits of `OrderCache`: two
allow one change to use keys computed before the other. Amounts are chosen so that
money is enough for one debit but not for two, stock for one order but not for
two. In `OrderItems` an edit may find its stock sold by a buyer, and three rows
are enough to replace one item by two. Its states are told apart without the
amounts of money (`VIEW NoMoney`): no action looks at an amount before it writes
one, and `BooksBalance` speaks of none. An order that was shipped is not followed
further, for it can no longer be edited or given back. The windows of `Analytics` share their ends
with the times of events, its backlog has a cancellation before its creation, and
its two products tie, with a limit of one.

No model waits for quiescence, and requests may stop coming: all runs but those of
`Wallet` say `CHECK_DEADLOCK FALSE`. The `Wallet` never stops, and its runs check
deadlock. `Sessions` models PostgreSQL's detection of deadlocks, so a handler that
waits in a cycle fails instead of hanging.

Symmetry is declared over requests, references, users and items that are
interchangeable, and in runs of safety properties only.

Fairness. Code that runs goes on: weak fairness for what a handler, a consumer,
a proxy task or a queue can always do (`Notifications.Handle`, `Serve(c)`,
`Analytics.Consume`, `Payments.Consume` and `Progress(r)`). Strong fairness only
where the program queues its waiters first come first served: PostgreSQL's row
locks (`Wallet.GetForUpdate`, `Inventory.Go`) and the `asyncio.Lock` of the event
consumer (the two deliveries of `Orders`). No fairness for clients: nobody has to
call, pay, cancel, connect or publish, and none for faults. Redis entries expire
by their TTL (`Wallet.Expire`).

`TypeOK` is a property of no run: it is proved for every module that has one
(section 5), and TLC finds it to hold when `INVARIANT TypeOK` is added to a
configuration.

## 4. Disagreements with the documentation

Modelling met places where the code does not do what a README, a comment or a test
says. Each is kept as a configuration, the smallest that shows it; TLC violates
its one property (`tlc -config MCWallet_lost.cfg MCWallet.tla`). They are not part
of the runs above, all of which pass.

| Configuration | Property | What happens |
|---|---|---|
| `MCWallet_lost.cfg` | `JournalExplainsBalance` | deposits lose updates: `get_current_user` fills the identity map before the row is locked (`balance.py:86`) |
| `MCWallet_refused.cfg` | `RefusalMeansUnapplied` | a repeated debit is refused though the first copy was applied |
| `MCPayments_active.cfg` | `OneActivePaymentPerOrder` | two payments of one order are active: looked for and inserted without a lock or a unique constraint (`payment.py:116`) |
| `MCPayments_charged.cfg` | `FailedWasNotCharged` | a charged payment reads failed; with `PROPERTY StatusFollowsGraph` in its place, a status moves against its graph |
| `MCPayments_announced.cfg` | `SucceededIsAnnounced` | a success is lost between commit and publish (`payment.py:304`) |
| `MCOrders_final.cfg` | `FinalIsFinal` | statuses are written by id after a check of a stale object: a cancelled order becomes paid (`order.py:547`) |
| `MCOrders_returns.cfg` | `CancelledHoldsNothing` | cancelling before the reservation is answered returns stock that was never taken (`order.py:716`) |
| `MCOrders_kept.cfg` | `CancelledIsRefunded` | cancelled during its payment, an order is charged and not refunded (`order.py:719`) |
| `MCOrders_twice.cfg` | `RetryTakesOnce` | a redelivered reserve command takes the items twice (`inventory.py:32`) |
| `MCOrders_blocked.cfg` | `PaymentEventsAreTranslated` | an event that became impossible is requeued for ever and blocks its queue (`order.py:536`) |
| `MCOrderItems_total.cfg` | `TotalIsSum` | a changed quantity does not change the total: the session does not flush before the sum (`order.py:978`) |

## 5. Proofs

All are for any sets of users, requests, orders, products, readers, topics and
any bounds. The constants' assumptions (`WalletAssumption`, `SessionsAssumption`,
`PaymentsAssumption`, `InventoryAssumption`, `OrdersAssumption`,
`OrderItemsAssumption`, `CatalogAssumption`, `NotificationsAssumption`, `AnalyticsAssumption`,
`BodyAssumption`, `OrderCacheAssumption`) are what the theorems rest on; TLC evaluates them, and
those of the modules without proofs, in every run. Most say what kind of value a
constant is. Those that say more: no two browsers hold the same token at the
start (`SessionsAssumption`); the events that wait at the start are finitely many
(`NotificationsAssumption`); an event of a new order carries the amount of its
items, as `create_order` computes it (`BodyAssumption`, in `order.py:220` and `:435`); products and requests are finitely many, and the rows the
order begins with are among those `MaxItems` allows (`OrderItemsAssumption`); keys of an order cache that belong to different kinds
of thing differ, for their strings begin with different prefixes
(`OrderCacheAssumption`); and `None` is no row, event or order. `OrdersAssumption` lets PATCH name any status
(`Patches \subseteq Status`).

* `WalletProofs`: the ledger that `Wallet` refines is typed (`LedgerTyped`); that
  its journal explains its balance is a lemma, for it says nothing of the code
  until the refinement is proved (`NoInternalUpdateLost`). `WalletTyped`; `WalletAppliesOnce` and
  `WalletAnswersFromJournal` for all routes: only `Commit` writes, it appends one
  row whose reference is new, and the journal only grows. `WalletCacheWasCommitted`
  carries the same through the cache: what a reader or a writer puts there was
  read from a committed row. `WalletImplementsLedger` and `NoInternalUpdateLost`
  assume `ManualReference = {}` (no deposit or withdrawal): the inductive invariant
  says that who holds a row lock has the committed balance in its identity map,
  for it loaded nothing before it locked. That is what a deposit breaks, and the
  assumption cannot be dropped (`MCWallet_lost.cfg`). `OnlyManualUpdatesOverwrite`
  is what remains of it when deposits are there: an internal request still knows
  the committed balance.
* `SessionsProofs`: `SessionsTyped`, then `IdentifiersStayUnique`,
  `TokensUsedOnce`, `SweepsEndSessions`, `OldRolesOnlyInFlight` from one inductive
  invariant: what a handler knows of the rows it has read or locked; that a token
  is named after the one request that issued it; that what a request saw committed
  at its start was; and that a sweep that committed saw, or locked and revoked,
  every token that existed when it looked. `AnsweredBrowsersKeepSessions` adds whose
  a token is (`Owns`), and that the request that revokes a cookie's token replaces
  it in the cookie or removes it from there (`CookieReplaced`, `RevokedForCause`).
* `PaymentsProofs`: each result first next to any order-service (`Open...`), then,
  by `PaymentsNextToAnyOrders`, for the commands there are. `PaymentsTyped` adds to
  the types what each step of a handler knows of its payment (that it exists,
  which order it is of).
  `Backed` strengthens `SettledMatchesLedger` until it is inductive: a handler
  that is about to write or announce succeeded, or refunded, has its debit, or
  credit, in the ledger already, and a credit under way belongs to a payment that
  was debited. `PaymentsSettle` and `PaymentEventsBacked` follow. `PaymentsAttached`:
  rows, handlers, late calls and events are of payments that exist, and these of
  orders a payment was asked for. Every step is then one command sent, one row
  inserted, one event published, one movement of money, or nothing that
  order-service could tell (`KindsOfStep`), which gives
  `PaymentsImplementPaymentSide` step by step, and `PaymentsTakeNothingElse`: the
  payer is short of exactly the payments that were debited and not given back, and
  of what a deposit wrote over (`over`): a deposit that read the balance before a
  debit makes the payer richer by it, and before a credit poorer. The
  latter (`NothingElseIsTaken`) was model-checked on the instance of
  `payments_faults`.
  `Market` is `Orders` and `Payments` together. Each of its steps is a step of
  `Payments.OpenSpec` and one of `Orders.OpenSpec` (`MarketIsOpen`), where an order's
  payment is what has happened to its rows and its money (`PaidFor`, `Seen`) and who
  asked for one is counted in `asked` (`Linked`); neither half assumes what the
  other half concludes. So `MarketImplementsOrders`, and from the theorems of
  `OrdersProofs`, cited by name, `MarketPaidWasDebited` (an order past payment was
  debited in the wallet, unless PATCH named it paid) and `MarketDebitsForReserved`
  (only orders whose items were taken from stock are debited, never one that
  failed, unless PATCH named it so). No run has `Market`.
* `OrdersProofs`: `OrdersTyped`, then `PaymentStartsOnce`, `FailedNeverCharged`,
  `PaidWasCharged` (the last two but for the orders PATCH named failed, or paid: a
  status that PATCH is about to write, or has written, is told from the others by
  `patched`), each first next to any payment-service that keeps the word of
  `PaymentSide` (`Open...`), then, by `OrdersNextToAnyPayment`, next to the one
  written in `Orders`. The invariant says what each queued message means for the
  order it names (an order whose reservation was answered was reserved, a
  success was charged), what each handler knows of its order, that only one
  handler works on a created order's answer and it is the one at the head of a
  queue, and how often payment was asked for at each status.
  `InventoryTyped` and `InventoryImplementsStock` are about the transactions
  behind the `Stock` of `Orders` (the instance `Shelves`). Locked rows
  belong to one session (`Exclusive`), what a session has locked and has yet to
  lock are the rows it began with (`Working`), and a row it holds had enough
  (`Covered`); so a commit is one `Reserve` or `Release` of `Stock`
  (`CommitIsAtomic`) and every other step a stutter.
* `CatalogProofs`: `ShownImagesExist`: a request writes its own image at most
  once, so one that is past its commit never does (`Past`); every image a row
  shows, and every image a handler has loaded, was uploaded by a request that is
  past it, and what is about to be dropped is hidden. `OrphansNeedCauses`
  (`OrphanInv`): an image that is not in the row any more is dropped by its
  handler or counted by a fault or an overlap, and one that is not in the row yet
  (`Fresh`, `Unput`) is not in the bucket either.
  `CatalogTyped` bounds the overlaps by the requests that are past their commit; it
  assumes that requests are finitely many.
  `QuantityIsOwed` from the columns a commit writes. `CardStaleOnlyIfLate` from
  what a reader that is about to fill the cache knows (`FillsKnown`),
  where the card is that of the row (`Card`), with the link of its image or without.
* `NotificationsProofs`: `NotificationsTyped`, then two invariants side by side.
  `Inv` (`Queues`, `Rows`, `Handling`) says where an event is: in its queue, with
  the handler, stored; from it `DuplicatesNeedFaults`: each row that repeats
  an event, and each that will because the event is stored and its handler gone,
  is paid for by a fault (`DuplicatesPaid`). `SocketInv` follows one
  connection: rows go through the push, the proxy and the browser in order
  (`InOrder`), what the server pushed is underway or heard (`Heard`), a socket
  leaves the registry only when an end of it broke (`Ends`, `Broken`); from it
  `PushesInOrder` and `WholeSocketsMissNothing`. `CachedListsStaleOnlyIfLate` as
  for the card.
* `AnalyticsProofs`: `OffsetsFollowStorage`: every event below a position is
  stored or is the one being stored (`ReadIsStored`), and a commit is made when
  there is none. `AnalyticsTyped`: no position leaves the log. `OverviewStaleOnlyIfLate` as for the card. `ReportsAlwaysAgree`
  is about every collection, reachable or not: two windows that meet add up to
  the whole (`PartsAddUp`), two that share an end count what occurred there twice
  (`SharedEndCountsTwice`); the sum of the groups of a finite set is the sum of the set (`SumOfGroups`: periods of a window, items of an order, lines of a
  product), renaming what is summed keeps the sum (`SumOfRenamed`), and rows can
  be ranked, each of them once (`RankingExists`, `RankingListsAll`), so the top
  list without a limit leaves no product out. `ArrivalIsIgnored`: no event is
  stored twice (`StoredOnce`), so the collection and the same events in the order
  they occurred differ by a renaming of the documents (`Renames`), and each
  pipeline is shown to answer the same for both; of the top list, that the answers
  the database may give are the same ones (`Ranked` is the set of all orders of the
  products that the revenue permits). It assumes that the events of
  one order that say its status carry different times (`TimesDiffer`): when two
  of them carry the same, MongoDB may take either as the last, and the report by
  status then depends on which. Products that tie need no such assumption. The proofs about sums start from the same lemmas as those of
  `OrderItemsProofs`, and each module states them for itself.
* `OrderItemsProofs`: `OrderItemsTyped` and `BooksAlwaysBalance`. First what sums
  over finite sets do: they are numbers (`SumIsNumber`), the sum of sums is the sum
  of their terms (`SumOfSums`), one term that changes changes the sum by as much
  (`SumWithChange`); each by a smallest subset for which it fails. Then the
  invariant. What the order owns are its rows until it is cancelled or refunded, and
  then none (`Owned`); what the catalog has yet to take for it is what was ordered,
  until the reservation is answered (`Awaited`). What a request has moved is what
  its items that are done differ by, in what it writes from what it loaded
  (`Accounted`), in each phase of each kind of
  request certain items are done and the others to do (`Stands`), and what it will
  write is where it should be (`Writes`). New rows have new identifiers, of one
  request each (`Fresh`). While no two edits of an item overlapped, those under way
  are apart and the rows they loaded are as they loaded them (`Alone`), so that a
  commit changes what is listed by just what the edit has taken, and a replacement
  that is undone returns to nothing taken. `BooksBalance` is part of the invariant:
  every step changes its two sides alike.
  `OrderCacheTyped` and `CachedViewsStaleOnlyIfLate` are about the cached views of
  an order (the instance `Views`; `OrderCacheAssumption` is a hypothesis there): a
  handler that is about to commit has computed the keys it will delete from the
  order as it was when it loaded it (`Knows`), which covers every view its change
  alters; so an entry that is not the view of the committed order was filled from
  an older one by a reader that overlapped the change, or its delete is to come
  or was lost (`CacheInv`).

Type correctness is `LedgerTyped`, `WalletTyped`, `SessionsTyped`, `PaymentsTyped`,
`InventoryTyped`, `OrdersTyped`, `OrderItemsTyped`, `OrderCacheTyped`,
`CatalogTyped`, `NotificationsTyped` and `AnalyticsTyped`.

Only model-checked:

* everything under fairness (`RequestAnswered`, `RefundCompletes`,
  `ReservationIsAnswered`, `RefundCancelsOrder`, `SessionsEnd`, both
  `EventsAreStored`, `ClosedIsForgotten`): liveness is out of the prover's reach.

Every safety property the runs check has a theorem. Those with a hypothesis beyond
the constants' assumptions are named above: `ManualReference = {}` for the wallet
and `TimesDiffer` for the reports, without which they are false, and
the assumptions of `Orders` and of `OrderCache` where these are instances
(`Market`, `Views`). `CatalogTyped` wants finitely many requests.

## 6. What is left out, and the plan

Not modelled in the components that are:

* payment-service: the read cache (the pattern of `CacheAside`; every commit
  deletes keys that never change for a payment, and no handler reads it).
* order-service: `handle_inventory_release_failed` (no service sends
  `inventory.release`); in `OrderCache` the columns that are in every key, such as
  `total_amount`, and writes that change no key.
* notification-service: the read of one notification with its cache (a
  notification never changes), `update_notification` and `delete_notification`,
  which nothing calls.
* catalog-service: the list of all products, which is not cached; columns
  without a rule of their own.
* analytics-service: averages and rates (the numbers they divide are there), and
  the product names of the top list, which come from whichever event arrived
  last.
* auth-service: password hashing, signatures and expiry of tokens.
* api-gateway: forwarding of HTTP requests and the check of the access token keep
  no state between two requests.

Not modelled at all: the frontend, observability, container and migration files
(no domain state), schemas and logging.

More hazards of the code, met while reading it and too small or too far from the
models for a property: a Kafka message without a value, or not UTF-8, raises
outside the handled errors and ends the task (`kafka_consumer.py:32`); a refund
rate above 100 when payments are refunded in another window than they succeeded in
(`analytics.py:147`);
the analytics event of a new order published after the command that may change
its status (`order.py:435`); a PATCH that repeats a loaded value while another
changes it (`product.py:190`); an absolute quantity in a PATCH, which overwrites
the reservations since the seller's page was read (`product.py:179`); links that
are presigned sent back by a PATCH, or that start with a scheme in capitals and are
taken for keys of the bucket (`product.py:112`, `:65`); two edits of one item of an order (`order.py:1000`); an
item reserved and not yet committed when the process dies (`order.py:898`); a total that
keeps the catalog's prices while the items keep their own (`order.py:476`); an
event that is JSON but no object, which is requeued for ever (`consumer.py:68` of
notification-service); two sweeps that lock one user's rows in different orders
(`refresh_token.py:35`; `Sessions` has the deadlock, and one of them fails); the
cookie of a rotation whose answer was lost (auth-service's router, line 93).

Next, in this order:

1. `Market` with the transactions of `Inventory` in place of its `Stock`.
2. The read cache of payment-service as another instance of `CacheAside`.
