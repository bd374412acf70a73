# Yakero e-commerce backend: TLA+ models, checks and proofs

The backend (FastAPI, SQLAlchemy, MySQL, MercadoPago) sells food: a customer
opens a checkout, pays it at MercadoPago, MercadoPago notifies the backend, the
backend creates the order, and a point-of-sale system (POS) cooks and delivers
it. What can go wrong here is not in one function. It is in what several HTTP
requests do to the same rows, in what an outside payment provider sends twice,
late or not at all, and in what a crash leaves behind. These modules model that.

Paths below are relative to the repository; `payment_use_cases.py` is
`app/application/use_cases/payments/payment_use_cases.py`, `sql_repositories.py`
is `app/infrastructure/database/repositories/sql_repositories.py`, and so on;
`PROJECT.json` maps every definition to its lines.

## 1. The system

| Component | State it keeps | Operations | Talks to |
|---|---|---|---|
| Checkout preference (`CreatePaymentPreferenceUseCase`) | row of `checkout_sessions`: cart, prices, status, `created_order_id` | `POST /payments/create-preference` with a cart: price it, insert the session, ask MercadoPago, keep the preference id | pricing, MercadoPago |
| Checkout payment webhook (`ProcessMercadoPagoWebhookUseCase`) | rows of `payments`, `checkout_sessions`, `orders` | `POST /payments/webhook`: fetch the payment, register it, claim the session, create the order, mark all paid | MercadoPago, order creation, the three tables |
| Legacy order payment (same two classes, an `order_id` instead of a cart) | row of `orders`: `payment_status`, `mp_payment_id`, `paid_at` | preference for an existing order; notification whose reference is an order id | MercadoPago, order status |
| Order status and POS (`UpdateOrderStatusUseCase`, `internal.py`) | `orders.status` | list paid orders, `PATCH /internal/orders/{id}/status` | orders |
| Order creation (`CreateOrderUseCase`, `PointsService`) | `orders`, `users.points_balance`, `coupons.uses_count` | price, insert, debit points, count the coupon, credit points | pricing; called by the webhook and by `POST /orders` |
| Pricing (`OrderPricingService`, `CouponValidationService`) | none (reads catalog, coupons, points, addresses) | totals of a cart: products, modifiers, promotions, delivery fee, coupon, points | catalog, coupons, users, addresses |
| Delivery fee (`DeliveryFeeService`) | none | haversine distance, tiers, range | configuration |
| Payment status view (`GET /payments/status`) | none | which message and public status a customer sees | session, payment, order rows |
| Users and authentication | `users` | register, log in, change the profile | - |
| Addresses | `addresses` | add, with or without `is_default`, and delete | users, delivery fee |
| Migrations | the schema, `alembic_version` | four revisions, up and down; `alembic upgrade head` is run by the `api-migrate` service, by hand and by `POST /internal/bootstrap` | every table |
| Development seed and bootstrap (`dev_seed.py`, `internal.py`) | demo user, address, categories, products, coupon | upgrade, look at the demo rows, seed, look again, answer; `scripts/seed_dev.py` seeds without the upgrade | migrations, users, addresses, catalog |
| Catalog | products, categories, promotions | queries | - |
| MercadoPago client | none | two HTTPS calls, error conversion | MercadoPago |
| Configuration and debug routes | settings | - | - |

**How they interact.** Every HTTP request has one SQLAlchemy session and one
database transaction (`session.py:get_db`): it commits after the handler and
rolls back on an exception. The webhook route catches `DomainError` and answers
200, so such an error *commits* what was written before it. The only state
shared between requests is the database. One event loop interleaves requests at
every `await`; several uvicorn processes interleave them anywhere.

**What is hard.**

- MercadoPago notifies at least once, repeats what is not answered, and says
  only "payment X changed"; the status is fetched later and may be older or newer
  than the notification.
- A checkout can be paid more than once, by several payments with their own
  histories (pending, rejected, approved, refunded).
- Two handlers of one session overlap; what one read before an `await` is old
  when it is used.
- The process can die between any two statements, or between the commit and the
  answer.
- A failure in the middle is answered as if it were final.
- Rows are locked until the commit: waiting, and waiting for each other.
- MySQL commits every DDL statement by itself, so a revision can stop in the
  middle and has no rollback; nothing keeps two Alembic runs apart.
- The bootstrap looks at the demo rows before it takes its locks: what it has
  seen is old when it writes.

The full list, each item at its line, is `hazards` in `PROJECT.json`.

**What makes each component correct.**

- Webhook: one order per cart; session, payment and order rows name each other;
  every order is backed by an approved payment of the right amount; nothing that
  was created is lost; a request ends; an approved payment gets its order.
- Legacy payment and POS: the status moves along the transition table; paid means
  an approved payment of that order; a paid order is where the POS looks; paid
  stays paid.
- Order creation: points, coupon and order change together and once; limits of
  points and coupons hold; orders of one user do not block each other for ever.
- Pricing, delivery fee, checkout: totals never negative, a coupon never pays for
  a delivery, fees monotone in distance; what the customer confirmed is what is
  asked for, paid and ordered, although the cart is priced three times; a paid
  cart is refused only because something it was priced from has changed.
- Status view: paid is shown exactly with the order, which stays; a message says of
  its payment what MercadoPago says; who has paid is not told of a rejection.
- Migrations: the version recorded is true of the schema; nothing is left over
  that blocks the next upgrade; the tables of the payments are never dropped; an
  upgrade that goes on reaches the head.
- Accounts, addresses, seed: whoever is told of an account has it; points survive
  seeds and profile changes; one default address; the seed finds the schema it
  was written for.

## 2. The modules

| Module | Models | Role |
|---|---|---|
| `PaymentWebhook` | the checkout webhook, request by request | core |
| `OrderPromise` | what a checkout promises, without requests | abstract specification of `PaymentWebhook` |
| `OrderLifecycle` | an existing order: POS, legacy preference, legacy notification | component |
| `Settlement` | order creation: points, coupon and row locks | component |
| `Ledger` | orders settled at once and exactly | abstract specification of `Settlement` |
| `Pricing` | what the lines of a cart cost, and which lines are refused | functions |
| `DeliveryFee` | fee and range by distance | functions |
| `Checkout` | a cart from the preview to the order, while shop and customers go on | component |
| `CartPromise` | what a checkout and its order promise, without catalogs and prices | abstract specification of `Checkout` |
| `StatusView` | what `GET /payments/status` shows | functions of the state of `PaymentWebhook` |
| `Migrations` | the schema, the revisions and the Alembic runs | component |
| `Bootstrap` | accounts, addresses and the demo data, on top of `Migrations` | component |
| `MC*` | small values of the constants | model checking |
| `*_proofs` | theorems about `PaymentWebhook`, `StatusView`, `OrderLifecycle`, `Settlement`, `Pricing`, `Checkout`, `Migrations` and `Bootstrap` | proofs |

`Settlement` opens the step `CreateOrder` of `PaymentWebhook`, and `PlacePaid` of
`OrderLifecycle` is the commit of `PaymentWebhook` as the other requests see it.
They are not one module because they share only that commit: a product of the
three would multiply states without adding an interaction.

`Checkout` looks at the same flow along the other axis: requests one at a time,
but with the totals that the other modules leave out. Its steps `OpenCheckout`,
`CreateOrder` and `RefuseOrder` are `CreatePreference`, `CreateOrder` and
`CreateRefused` of `PaymentWebhook`; what happens when such requests overlap is
`Settlement`'s question.

### The database, in all modules with overlapping requests

The deployment is MySQL/InnoDB with SQLAlchemy's defaults, so REPEATABLE READ:

- a plain `SELECT` reads the snapshot taken by the first one of its transaction.
  The session's identity map keeps only weak references and the repositories
  convert rows to domain objects, so an object is what the last `SELECT` gave;
- an `UPDATE` works on the row last committed (or written by its own
  transaction) and keeps the row locked until the transaction ends;
- an `INSERT` of a unique key that another transaction has inserted waits for
  that transaction, and has a shared lock of the key if that one is rolled back;
  an `INSERT` with a foreign key takes a shared lock on the
  row it refers to;
- locks are released at commit or rollback; a circle of waiting transactions is
  broken by rolling one of them back.

A step of a model is therefore: all the reads of one snapshot, or one write
statement that may wait, or the commit. Statements on rows the transaction has
already locked are merged with the next one: nobody can see the difference.

### `PaymentWebhook`

State: `sess`, `pay`, `orders` are the committed tables (a status and an order
id, or for `orders` the payment it was created for); `mp` and `due` are
MercadoPago's status and the notifications it still owes an answer for; `req` is
what each handler knows: where it stands, the status it fetched, the session it
read first (`seen`), the session of its snapshot (`snap`), and the rows it has
written and not committed (`wPay`, `wSess`, `wOrder`). A mutation of the code's
reads and writes, such as writing back a stale session, is a change of one
operator. The locks are derived: `SessionHolders` and `PaymentHolders` are the handlers
that have written the row a handler needs, `Queued` the INSERTs of its payment that
wait for an uncommitted one. When that one is rolled back, two of them share the
lock that keeps both from inserting (`Deadlocked`). The rows of users and coupons
that `CreateOrderUseCase` locks in the same transaction are left to `Settlement`,
where creations of one user do deadlock; here a victim of that is an `Abort`.

| Action | Code |
|---|---|
| `CreatePreference` | `CreatePaymentPreferenceUseCase.execute` with a cart |
| `ProviderStep`, `Redeliver`, `Deliver` | MercadoPago; the route's filter |
| `Fetch`, `FetchFails` | `get_payment`; its `PaymentError` is answered 200 |
| `ReadDuplicate`, `ReadNew` | the look-up of the payment row and the session |
| `InsertWaits`, `Insert`, `InsertConflict` | `SQLPaymentRepository.upsert`, its wait for another INSERT of the key, its rollback on a duplicate key |
| `MarkSession` | the branch of a payment that is not approved, or of a wrong amount |
| `ReturnPaymentOrder`, `AttachSessionOrder` | the first two exits of `create_order_from_approved_payment` |
| `Claim`, `ClaimRejected`, `ClaimFindsOrder` | `claim_for_order_creation` and what follows each outcome |
| `CreateOrder`, `CreateRefused` | `CreateOrderUseCase` and the four updates, or the `DomainError` |
| `Commit`, `CommitUnanswered`, `Abort` | `get_db`, a lost answer, an exception or the end of the process |
| `Victim` | InnoDB breaks a deadlock of INSERTs; `get_db` rolls back and the answer is 500 |

### `OrderLifecycle`

State: `rows` (status, `payment_status`, whether there is a preference, the
payment id, whether `paid_at` is set), `mp`, and three kinds of requests in
progress: `pos` (order, status read, status asked for), `checkout` (an order
whose preference MercadoPago is being asked for), `hook` (payment, status
fetched, `paid_at` read). Each request is a read, an optional wait, and a write
of the row last committed; each may fail in between. The writes of a request to
its single row and its commit are one step, because the first `UPDATE` locks the
row until then.

`ConfirmPaymentUseCase` is not called by any route and is left out.

### `Settlement`

State: `points` and `uses` committed, and per request its next statement, whether
it waits, its lock on the user row with the balance it wrote, and its lock on the
coupon with the count it wrote. `Price` reads the snapshot; `Insert` takes the
shared lock of the foreign key; `Debit`, `Redeem` and `Credit` are the `UPDATE`s;
`Commit` publishes all of it. `Victim` is InnoDB breaking a circle, `Abort` any
other failure; both start the request again, as a repeated notification or an
operator does. Totals are not computed: a cart is what it spends, its coupon and
what it earns.

### `Pricing`, `DeliveryFee` and `Checkout`

`Pricing` is `_build_items`: which lines are refused (availability, options of
another product, the minimum and maximum of a modifier group) and what the others
cost. Prices are whole pesos, as the columns are. `DeliveryFee` is the table of
tiers. Both are operators; `Checkout` takes the first as a parameter, so that the
theorems hold for any price rule, and `MCCheckout` puts the two together.

State of `Checkout`: `catalog` (prices, availability, coupon rules), `points`,
`uses`, `saved` (addresses), `shown` (the preview a customer has on the screen),
`sess` (status, the totals the client sent, the totals stored) and `orders` (the
totals of the order). `sources` is a history variable: the rows a session was
priced from. `edits` counts the edits of the catalog.

| Action | Code |
|---|---|
| `Preview` | `POST /orders/preview` |
| `OpenCheckout` | `CreatePaymentPreferenceUseCase.execute`: price, compare with `client_totals`, insert |
| `CreateOrder`, `RefuseOrder` | `create_order_from_approved_payment`: price the stored cart again, compare, and order; or the `DomainError` |
| `StaffOrder` | `POST /orders` |
| `AddAddress`, `DeleteAddress` | `POST` and `DELETE /users/me/addresses` |
| `EditCatalog` | a change of the catalog tables, which the program itself does not make |

`Priced` is `preview`: goods, fee, coupon, points, and the total kept from falling
below zero. `Agrees` is `_validate_client_totals`. `AskedFor` is what the items
sent to MercadoPago add up to. Assumed of the data: a percentage is at most 100,
and a fixed coupon is in whole pesos (its column has cents, the totals' have
none). An address is never edited (no route does it), and the foreign key of
`orders` keeps the address of an order from being deleted, while `address_id` of a
session is a plain number.

### `StatusView`

The status route reads session, payments and order in one snapshot, so what it
shows is a function of the committed tables of `PaymentWebhook`. "The last changed
payment" is a comparison of clocks of several processes, so any registered
payment of the session may be it. A customer asks more than once, so what was
shown is compared with what is shown later (`ShownOrderStays`).

### `Migrations`

State: `schema` (the tables that are there; a table stands for its columns and
indexes, and what a later revision adds to it is an object of its own), `tagType`
and `tags` (the type of `categories.ticket_tag` and how its rows are stored),
`version` (`alembic_version`, by position: 1 is `20260423_0001`, 4 is
`20260425_0004`) and `run` (where each Alembic run stands). `cut` is a history
variable: the revisions that a run has left half done.

A revision is a sequence of steps (`Upgrade`, `Downgrade`), each of which is
committed at once: "create" and "drop" are refused by the database when the
object is there or is not; "ensure" asks the inspector first and may find its
answer old when it acts; "store" changes the type of `ticket_tag` and its rows.

| Action | Code |
|---|---|
| `StartUpgrade`, `StartDowngrade` | `alembic upgrade head`, `alembic downgrade`: the version is read once |
| `Inspect` | `_table_exists`, `_column_exists`, `_index_exists` of `20260425_0004` |
| `Execute`, `Refused` | one DDL statement, and the error of the database |
| `Record`, `RecordRefused` | Alembic's update of the version, which must match one row |
| `Interrupt`, `Release` | the end of a process or connection in the middle; the caller has its answer |
| `StoreValues` | what the seed does to `ticket_tag` |

That no downgrade overlaps another run is an assumption about operators: the
deployment guide starts migrations one at a time, before the services.

### `Bootstrap`

State, on top of that of `Migrations`: `users` (whose password, points), `addrs`
(owner, whether it is "Casa Demo", whether it is the default) and `tx`, the
transaction of each bootstrap and each client with what it has seen. `earned`,
`creator` and `touched` are history variables: points credited, who was told of
having created an account, whether the demo user has changed its demo addresses.

| Action | Code |
|---|---|
| `Migrate` | the steps of `Migrations`; a dropped table takes its rows along |
| `BeginBootstrap` | `POST /internal/bootstrap` after its upgrade: `_seed_snapshot` |
| `BeginScript` | `scripts/seed_dev.py` |
| `LockUsers` | `_normalize_enum_storage` |
| `SeedCommit`, `SeedRefused` | the rest of `seed_dev_data`, with its commit; `IntegrityError`, `MultipleResultsFound`, `StaleDataError` |
| `BeginRegister`, `InsertUser`, `CommitUser` | `RegisterUserUseCase`: look-up, flushed `INSERT`, commit |
| `BeginProfile`, `UpdateProfile` | `PATCH /users/me` |
| `EarnPoints` | `add_points` of an order, which `Settlement` opens |
| `AddAddress` | `POST /users/me/addresses` without `is_default` |
| `BeginAddress`, `ClearDefaults`, `CommitAddress` | the same with it: `INSERT`, the two `UPDATE`s of `set_default`, commit |
| `DeleteAddress` | `DELETE /users/me/addresses/{id}` |
| `Deadlock`, `Abort` | InnoDB rolls a transaction back; a process or connection ends |

The seed begins with `UPDATE`s of `users` that no index serves. InnoDB then
locks every row and gap of the table, so a second seed, a registration and the
`INSERT` of an address (which needs its user's row) wait. `_seed_snapshot` has
come before that, so a bootstrap that waited inserts from an old snapshot, and
only unique keys stop it. With empty tables two seeds lock the same gaps and
wait for each other instead, which is `Abort`. A `DROP TABLE` or `ALTER TABLE`
waits for the transactions that have used the table (MySQL's metadata locks), so
`Migrate` waits for them (`Used`): a table does not vanish, nor `ticket_tag` change
its type, under a seed or a request that has read it. The
catalog is one fact (`tags # "none"`): its slugs, SKUs and coupon code are unique
and inserted together.

## 3. What is checked

| Run | Instance | Shows |
|---|---|---|
| `webhook_safety` | 1 session, 2 payments, one of a wrong amount, with every course, authorization before approval included, 2 handlers, 2 faults of any kind, 1 repetition | sessions and orders agree; every order is backed (`OrderIsBacked`) and kept; a checkout is shown as paid exactly with its order (`PaidShowsOrder`), an order once shown stays (`ShownOrderStays`), a message fits the payment it is about (`MessageFitsItsPayment`); `OrderPromise` is implemented |
| `webhook_live` | 1 session, 2 payments approved at once, 3 handlers, 1 crash, abort or lost answer, 2 repetitions | one order per session, which both payments name; claims do not survive; requests end, also when INSERTs deadlock; approved payments get their order; `OrderPromise` is implemented |
| `webhook_refused` | 1 payment, one refusal at creation | **violated**: paid, and never an order |
| `webhook_pending` | 1 payment, pending and then approved | **violated**: paid, and never an order |
| `webhook_retry` | 2 payments, one rejected, one approved | **violated**: who has paid is told of a rejection (`RejectedIsUnpaid`), and gets no order |
| `order_lifecycle` | 1 order, 2 payments with every course, 1 terminal, 2 preferences, 2 notifications | transitions valid; paid is backed and visible to the POS |
| `order_two_terminals` | 2 terminals | **violated**: a transition the table forbids |
| `order_paid_again` | a preference under way while a payment is approved | **violated**: a paid order becomes unpaid |
| `settlement` | 3 orders of one user, 1 of a guest, one coupon | `Ledger` is implemented; every creation ends |
| `checkout_drift` | 4 carts, 3 catalogs and 2 edits, one coupon with one use, 50 points, 2 addresses at limits of tiers | confirmed totals are asked for, paid and ordered (`QuoteHonoured`, `TotalIsAsked`); limits hold (`LimitsHold`); coupons and fees are fair (`CouponSparesDelivery`, `FeesFollowDistance`); refusals have a cause (`RefusedForACause`); `CartPromise` is implemented |
| `bootstrap` | 2 Alembic runs, 2 interruptions, 1 downgrade; 2 clients, the demo account and another, 2 addresses, 1 point | the version is true (`VersionIsTrue`), the way of the next upgrade is free (`NothingLeftOver`), the audit tables stay (`AuditIsKept`), an upgrade reaches the head (`UpgradeReachesHead`); the seed finds its schema, accounts, points and default addresses are as their owners were told |
| `settlement_limits` | 2 orders spending the same points and the last coupon use | **violated**: balance -1, coupon used twice of one |

The violated runs are disagreements between the code and what the repository
says of it; each is described, with the quoted line, under `findings`.

- *Three ways to pay and get no order*, two of them shown by `ApprovedGetsOrder`.
  (1) The order is
  refused after the claim (a product was withdrawn, the coupon was used up):
  `routers/payments.py:236` answers 200, `get_db` commits the claim, later
  notifications are duplicates. (2) A payment registered as pending is a
  duplicate when it is approved (`payment_use_cases.py:306`). (3) After a
  rejected payment the session is `rechazado`, which the claim does not accept
  (`sql_repositories.py:526`). The run `webhook_retry` shows what the customer sees of
  it (`RejectedIsUnpaid`): the second try is approved, and the page still says that
  the payment was rejected and to try again (`routers/payments.py:321`). It also says
  so of a checkout that has its order when a second payment of it is rejected.
- *The POS* (`TransitionsAreValid`): the transition is checked on an unlocked read
  and written without a condition.
- *A paid order becomes unpaid* (`PaidStaysPaid`): `update_mp_preference` resets
  the payment status after waiting for MercadoPago.
- *Limits* (`WithinLimits`): points and coupon uses are checked at pricing and
  changed unconditionally later.

### Bounds, and why they are enough

- Two payments of a session, and two handlers in `webhook_safety`: every conflict of
  what is read and written is between two requests about one row, and the theorems
  below hold for any number. Waits are another matter: two INSERTs of one payment
  deadlock only when a third is rolled back, so `webhook_live` has three handlers
  (and one fault, to stay small).
- In `webhook_safety` one payment has a wrong amount, so that differences are shown
  and an unbacked order is possible; in `webhook_live` both are right, so that the
  second one is attached to the order of the first.
- `MaxFaults` (2, in `webhook_live` 1) lets a retry of a failed request fail too; `MaxRedeliveries`
  (1, and 2 for the three handlers) lets a notification arrive that nothing was owed for. Notifications owed
  are not bounded.
- `Orders`: one more than the correct system can create in an instance with one
  session, so that a second order would be visible.
- `ProviderSteps`: the courses of a payment, with at least one approval that is
  given back. `pending`, `in_process` and `authorized` are treated alike by the
  code; one of the three is enough in each instance, and in `webhook_safety` an
  authorized payment may be approved and a pending one rejected.
- Settlement: one user and one coupon, because locks of different users and
  coupons do not meet; three orders of the user let one wait while two others
  deadlock. Balance 3 with two orders that spend 2 makes one of them refused or
  the other's points visible; three uses make the third the last one.
- Checkout: two carts of one user want the same 50 points, two carts of two users
  want the last use of the coupon, so each can find it gone. The catalogs differ
  in one price, one availability and the kind of the coupon; two edits let a
  change be taken back. The distances, 2000 m and 10000 m, are the ends of the
  first and of the last tier. The coupon is a tenth of an amount that ends in 5,
  which is rounded, or more than all the goods. Clients
  confirm all totals or none; the theorems cover every subset.
- Bootstrap: two runs conflict over every statement; two interruptions let a
  repair be cut short too; one downgrade, of any length, precedes every later
  upgrade. Two transactions meet at each lock, and two addresses make two defaults
  or two "Casa Demo" visible. `OneWorld` in `MCBootstrap` keeps the two halves
  from being multiplied: accounts and transactions appear only in behaviours
  whose upgrades were not disturbed (no interruption, downgrade, refused run in
  the middle of a revision or `ticket_tag` left as VARCHAR) and not while a run is
  at work. The theorems below have no such restriction. (A proof of `OneHome` first
  failed at a downgrade under a running seed, which the database does not allow and
  `OneWorld` had kept from the run: `Used` was missing.) Points are earned once per
  account.
- Handlers, preference requests and orders are symmetric where no liveness
  property is checked.
- `CHECK_DEADLOCK FALSE`: every system here stops when there is nothing more to
  pay, notify or create.

### Fairness

- `PaymentWebhook`: weak fairness of each handler's normal steps (the event loop
  runs what can go on; nothing is assumed of faults) and of delivering what
  MercadoPago still owes (it repeats until answered), and of `Victim` (InnoDB breaks
  deadlocks at once). Customers, provider decisions and faults are not fair.
- `Settlement`: strong fairness of each request's steps and weak fairness of
  `Victim`. A transaction may find its row free only now and then; InnoDB queues
  lock requests and grants them in order, which is what strong fairness says, and
  a shared request waits behind an exclusive one that came first (`Upgrades`),
  without which two orders of a user could starve a third. Deadlock detection is
  on by default. A request that is rolled back again and again is not promised to
  succeed; it is promised not to hang.
- `Bootstrap`: weak fairness of the steps of each Alembic run, whose thread goes
  on unless it is interrupted. Nothing is assumed of requests, seeds and
  operators. `UpgradeReachesHead` speaks of the time after the last interruption.
- `OrderLifecycle` and `Checkout` have safety properties only.

## 4. What is proved

The `*_proofs` modules prove every safety property of a passing run, for every value of the constants, from the named assumptions of
the modules: null values are not ids, a payment that was approved can only be
given back, a payment that was turned down stays so, carts have natural amounts,
guests earn nothing, a percentage is at most 100, a subtotal depends on the cart's
own rows of the catalog only, runs are not clients, bounds are natural numbers.

**PaymentWebhook.** `TypeCorrect`, `AtMostOneOrder`, `TablesAgree`,
`PaymentsAndOrdersAgree`, `EveryOrderIsBacked`, `OrdersStay`,
`ClaimEndsWithItsRequest`, and `Refinement` (implements `OrderPromise`). The properties are about committed tables, but a
step that breaks them does so with rows a handler buffered earlier. The inductive
invariant therefore adds, per handler (`RequestOK`): what it has written fits
what it has read, an order it buffered comes with the session and payment rows
that name it and with the session's lock, a status it fetched as approved is
still one that was approved, a session it saw with an order still has that order;
and per pair of handlers (`Apart`): they do not hold the same session, payment
row or new order. `OneOrderPerSession` then follows from the agreement of
sessions and orders. `ClaimEndsWithItsRequest` assumes that `refuse` is not among
the faults, as in its run: otherwise `webhook_refused` is the counterexample.

**StatusView.** `PaidIsShownWithItsOrder`, `TheMessageFitsItsPayment`,
`OneTryIsToldTheTruth` and `WhatIsShownStays`. To the invariant
of `PaymentWebhook`, which knows what an order says of money, `Truthful` adds what
statuses say: a registered status, one a session row was marked with, and one a
handler carries or is about to commit, was once MercadoPago's, of a payment of
that session. What was approved was and stays in `EverApproved`, and what was
turned down stays in `TurnedDown` (`TurnedDownAssumption`); so what the view reads
is still so when it answers. That does not make the message right about the checkout:
`RejectedIsUnpaid` fails as soon as a checkout has two payments (`webhook_retry`), and
`OneTryIsToldTheTruth` proves that it holds where no checkout has a second one.
An order that is shown is the session's, even where the
latest payment names it, so it stays because the session's order does.

**OrderLifecycle.** `TypeCorrect`, `PaidOrdersAreSeen`, `PaidOrdersAreBacked`,
`SerialIsValid`, `OneTerminalIsValid`, `UndisturbedStaysPaid`. The invariant adds
that a POS request in progress asks for a legal transition from the status it saw,
and that a notification that was told of an approval is right about it. For the transitions, `SeenInv` says what may
have happened to a row since a POS request read it: nothing, or a payment made a
`pendiente` row `pagado`, from which the same targets are legal. It needs that
no two POS requests for the same order overlap (`Serial`, in every state), which one
terminal gives and two do not: `order_two_terminals` is the counterexample.
`PaidStaysPaid`, which `order_paid_again` violates, holds under three conditions
together: an order has one payment, an approved payment is not given back, and no
preference request or notification for an order overlaps a notification for it
(`OneAtATime`). Whatever is late, repeated or done by the POS is then harmless,
because a notification that is fetched for a paid order reports the approval
(`RequestsInv`), and no payment comes without a preference of its order
(`PaymentsInv`). The deployment ensures none of the three.

**Settlement.** `TypeCorrect`, `Refinement` (implements `Ledger`) and
`SerialWithinLimits`. The
invariant: which locks a request has by its next statement (`LocksOK`); what it
wrote, relative to the *committed* balance and count (`WritesOK`); an exclusive
lock on a user excludes every other lock on that user (`UserLocks`), and a coupon
is counted by one request at a time (`CouponLocks`). A commit changes the
committed values, and the last two conjuncts are why nobody else's `WritesOK`
depends on them. `SerialWithinLimits` is what remains of `WithinLimits`, which
`settlement_limits` violates: if no two creations in progress share a user or a
coupon (`CreationsApart`, in every state), the limits that hold at the beginning hold
for ever, because what the pricing of an order found (`PricesHold`) is still true
when it commits. Carts of other users and coupons may overlap and be rolled back at
will.

**Checkout.** Two lemmas of arithmetic carry the rest: `FeeGrows` (the choice of
the first tier, written out as a case distinction) and `CouponWithinSubtotal` (a
percentage up to 100, rounded half to even, stays within the amount). The inductive
invariant `Inv` adds to the types, per session (`SessionSound`), that the stored
totals are what the client confirmed and what MercadoPago is asked for, and that
an order comes after its session and agrees with the same confirmation: that is
why order and session agree with each other where the client confirmed something,
although they are priced from different catalogs. `UsesWithin` is the coupon half
of the limits. `RefusalsHaveACause` needs a second invariant, `OriginInv`: a
session in checkout was acceptable with *some* catalog whose rows for this cart
are its `sources`. If the rows are the same now, then so is the price
(`SameSourcesSamePrice`), and only coupon uses, points or the address are left to
refuse it. That a subtotal depends on the cart's own rows only
(`SourceAssumption`) is an assumption about the parameter `Subtotal`; TLC
evaluates it for `ItemsSubtotal` and `RowsOf` of `Pricing` in the run, and
`RowsDecideThePrice` proves it of them.

`Refinement` says that `Checkout` implements `CartPromise`, which has four variables
and three steps: a checkout is opened with totals some of which are confirmed, it is
refused, or its order is made with the confirmed totals, spends the points of the
cart, earns one for every hundred of *its* total and uses the coupon once. Everything
else (previews, edits of the catalog, addresses) leaves those variables alone. That an
order is the only one of its session needs `Inv` (a session without one is open or
new); its points and its coupon are there because the second pricing asks again.

**Pricing.** `RowsDecideThePrice`: two catalogs that agree on the rows of a cart, for
every two catalogs and every cart, accept each line in both or in neither and at the
same unit price, so the two sums are of the same sequence.

**Migrations.** `TheVersionIsTrue`, `TheWayIsFree`, `TheAuditIsKept`. The two
properties of the schema are inductive together with what each run has achieved:
a run in the middle of revision k has left behind all objects of its steps so far
(`UpRight`), or, going down, none of those it has dropped (`DownRight`), and a
downgrade is alone (`Alone`). Overlapping upgrades do not harm each other, because
no upgrade drops anything and the version advances past k only by a run that has
gone through all of k.

For `Bootstrap` the same module proves two more invariants of `Migrations`: `FirstRevision`
and `TagsInv` (the tables of the first revision are made at version 0, without rows,
and all of them are there beyond it), and the types of every variable.

**Bootstrap.** `TheWholeMigrates` shows that `Bootstrap` with its accounts and
requests implements the specification of `Migrations`; the three theorems above
follow for it (`TheVersionStaysTrue`, `TheWayStaysFree`, `TheAuditStays`). The
invariant for the rest has five parts. `TxInv`: which transactions the locks keep
apart, namely two registrations of an e-mail after their `INSERT`, a seed that
writes and any request that has inserted an account or an address, two inserts of
a default address of one user, the second of which waits.
`AccountInv`: an account that somebody was told of is there and is theirs, a
registration about to commit finds nobody there, points are what was earned.
`AddressInv`: a transaction about to commit a default has cleared every other
default of its user. `SchemaInv`: a run that says ok, or seeds, leaves the
database at the head, because no downgrade starts beside it. From these:
`TheSeedFindsItsSchema`, `OneCreatorEach`, `TheAccountIsTheirs`, `NoPointIsLost`,
`OneDefaultEach`. The fifth is `HomeInv`, for `OneHomeOnly`: the database has a "Casa
Demo" only with a seeded catalog, and a seed in progress has seen both of them or
neither (`SoundView`), however old its snapshot is, as long as the demo user has not
touched its addresses. A seed that saw neither inserts both, and the unique slugs
refuse it where another seed has committed; one that saw both inserts no address. A
downgrade in between would leave the one and drop the other: it cannot, because it
waits for the seed (`Used`), and a later upgrade makes both tables anew, empty
(`FirstRevision`). `BootstrapTypes` is `TypeOK` with all its bounds.

**Only model-checked.** Liveness (`RequestsEnd`, `ApprovedGetsOrder`,
`CreationsEnd`, `UpgradeReachesHead`): the prover has no support for fairness and
`ENABLED`. What `Pricing` computes: its `Sum` is a fold, and induction over a
sequence is out of the prover's reach; that a subtotal is a natural number
(`CatalogAssumption` of `Checkout`) is therefore only evaluated by TLC. The
violated properties do not hold as they stand; for four of them (`TransitionsAreValid`,
`PaidStaysPaid`, `WithinLimits`, `RejectedIsUnpaid`) the proofs say when they do.

## 5. What is not modelled

- Wording, logging, payload formatting, URLs, HTTP details: no property is about
  them. MercadoPago's signature check and who may call which route: these models
  are about what happens once a request is accepted.
- Locks of users and coupons in the webhook's transaction (`Settlement` has them): that
  webhooks of one user end although they deadlock there is `CreationsEnd` of
  `Settlement`, not `RequestsEnd`.
- What becomes of a second payment of a cart that has its order: the code attaches
  it to that order and does nothing else (`payment_use_cases.py:387`), and no rule of
  the repository says what should be done with the money.
- A fetch that fails is answered 200 and not repeated (`routers/payments.py:236`): with
  `fetch` among the faults of `webhook_live`, `ApprovedGetsOrder` fails at once.
- Login, tokens and roles: they read, and change no state.
- `haversine_km`: a distance is given. `expires_at` of coupons and of checkout
  sessions.
- The date range of a promotion, which the catalog query uses and the pricing does
  not; the user a coupon was issued to, which nothing compares.
- Catalog queries: no state changes. Configuration and debug routes: no behaviour
  of their own. The MercadoPago client is I/O and formatting; its two outcomes are
  in `PaymentWebhook`.
- A database made from `schema.sql` and stamped with `alembic stamp head`
  (`README.md:117-121` of the repository). `schema.sql` has neither
  `checkout_sessions` nor `payments` nor `orders.payment_provider`, so the version
  would be untrue from the start; the models begin with an empty database.
- The seed before the migrations (`scripts/seed_dev.py` on an empty database fails
  at once) and Alembic's offline mode, which writes SQL text.
- When the demo user adds a second "Casa Demo", or deletes its own while two
  seeds overlap, `scalar_one_or_none` raises in every later seed, although
  `README.md:139` calls the demo data idempotent. The model has these behaviours
  (`SeedRefused`); `OneHome` holds up to there (`touched`), and no run claims more.
  Likewise `OneDefault` excludes the demo user, for whom the seed sets a default
  without clearing others.
- That a transaction of `Bootstrap` ends: the models let a seed wait for its locks
  as long as others take them, which InnoDB's queue does not.
- The legacy notification of a payment whose order does not exist, which changes
  nothing; `ready_at` and `delivered_at`, which nothing reads.
- Behaviours that follow from one line and that no property is about: the naive
  `expires_at` of a coupon is compared with an aware time
  (`coupon_validation.py:24`); the legacy notification does not compare amounts
  (`payment_use_cases.py:508`) and writes `paid_at` back as it read it (`:506`);
  a payment approved after the POS cancelled the order leaves a paid, cancelled
  order (`:515`); `expires_at` of a session is never compared (`:99`); a delivery
  beyond the last tier costs nothing where `is_available` is not asked
  (`delivery_service.py:46`); points of `POST /orders` are credited before
  anything is paid (`create_order.py:93`).
- Isolation levels other than InnoDB's default, and the SQLite of the tests,
  which runs one writer at a time and so shows none of these interleavings.

## 6. Plan

Done: `PaymentWebhook`, `OrderPromise`, `StatusView`, `OrderLifecycle`,
`Settlement`, `Ledger`, `Pricing`, `DeliveryFee`, `Checkout`, `CartPromise`,
`Migrations`, `Bootstrap`, and the proofs of section 4. Next, in this order:

1. How far `WithinLimits` can be missed by overlapping orders: by the orders of the
   same user or coupon in progress, and no more.
2. The race of two orders for a coupon joined with the repricing of `Checkout`:
   which paid carts are refused when requests overlap.
