# A verification project for the Toti Cakery backend

The repository is the FastAPI backend of a bakery: customers order from a web
shop or a chatbot and pay through the Midtrans gateway, sellers run production,
purchasing and refunds, and PostgreSQL holds all state. Several server
processes may run at once. Each has a life-cycle worker and an e-mail worker in
it, so every rule below has to survive concurrent requests, repeated and late
callbacks, lost answers and restarts.

This directory models the parts where those hazards meet money, stock, mail,
accounts and the schema, checks them with TLC on small instances, and proves the
most important results with TLAPS for every value of the constants. Paths are
relative to the repository root; file names without a directory are in
`app/services/`.

Contents: [1 inventory](#1-the-system-and-its-parts) ·
[2 modules](#2-the-modules) · [3 OrderPayment](#3-how-orderpayment-reads-the-code) ·
[4 EmailOutbox](#4-how-emailoutbox-reads-the-code) ·
[5 Checkout](#5-how-checkout-reads-the-code) ·
[6 Purchasing](#6-how-purchasing-reads-the-code) ·
[7 BuyerAuth and Accounts](#7-how-buyerauth-and-accounts-read-the-code) ·
[8 Deployment](#8-how-deployment-reads-the-code) · [9 runs](#9-the-runs) ·
[10 fairness](#10-fairness) · [11 proofs](#11-the-proofs) ·
[12 code against documents](#12-where-the-code-and-its-documents-disagree) ·
[13 limits](#13-what-is-not-modelled-and-why)

## 1. The system and its parts

State lives in PostgreSQL unless said otherwise. "Locks" are `SELECT ... FOR
UPDATE` row locks held until the transaction ends.

| Part | State | Operations | What makes it correct | Module |
|---|---|---|---|---|
| Order and payment life cycle: `payment_service.py`, `order_lifecycle_service.py`, the status half of `order_service.py`, `app/core/state_machine.py` | `Order.status`, dates and alert mark; `Invoice.status`; payment rows; refund ledger; the gateway's own state | charge (dp/final), answer of the charge, webhook, refresh, buyer's cancellation, cash payment, seller's status change, refund request / confirmation / webhook, expiry of settlement and of checkouts, overdue alert | never charged twice or beyond the bill; settled money not written off and no live charge on a dead order, save where the gateway answered a charge with an error; the invoice agrees with the rows; stock back once, sale counted once | `OrderPayment` |
| Refund scripts: `app/reconcile_midtrans_refunds.py`, `app/retry_pending_midtrans_refunds.py` | the same rows, `RefundTransaction.gateway_ref` | `--apply` of each | the ledger agrees with the gateway, nothing refunded twice | `OrderPayment` |
| E-mail outbox: `email_outbox_service.py`, `email_worker.py`, `email_outbox_cli.py` | outbox rows with status, attempts, lease; audit rows | enqueue in the caller's transaction, claim, send, record outcome, operator retry | at-least-once delivery, bounded attempts, a late worker harms nothing, every event is decided | `EmailOutbox` |
| Checkout: `create_new_order`, `create_custom_order`, `create_buyer_order`, `_rollback_order_stock` in `order_service.py` | orders, idempotency keys, stock rows, stock ledger | three ways to place an order, one reversal, under customer, order and stock locks | one open bill per customer, no overselling, a repeated checkout is the same order, a cancelled one gives back what it took | `Checkout` |
| Stock and purchasing: `stock_service.py`, `purchasing_service.py`, `recipe_service.py`, `app/repositories/stock_repo.py` | quantities, average cost, stock ledger, purchases, recipes, product cost | adjustment, purchase create / edit / receive / cancel, recipe and price edits | quantity and cost follow from the ledger, a purchase arrives once | `Purchasing` |
| Buyer authentication: `buyer_auth_service.py`, OTP, buyer and customer repositories | OTP rows with codes, nonces and tokens; buyers; the buyer's link to a customer record | request, verify, confirm; register, log in, reset; change of number, checkout, charge | a code works once and is tried a bounded number of times, a reset kills the other codes, orders follow the buyer's number | `BuyerAuth` |
| Users and roles: `auth_service.py`, `user_service.py`, `app/core/security.py`, `app/api/dependencies.py`; the cache of `app/core/cache.py` | users; counters of failed logins and revoked tokens in the memory of each process | bootstrap, create, edit, deactivate, delete, log in, log out | one first owner, the lock-out counts overlapping guesses, a revoked token stays out | `Accounts` |
| Schema: `app/db_bootstrap.py`, `app/db_preflight.py`, `app/db_reconcile.py`, `app/core/migrations.py`, `alembic/`, the seeding of `app/core/database.py` | tables, indexes, the recorded revision, the first roles and Owner | bootstrap, adopt, audit, upgrade, first start | the recorded revision is true of the database; roles come with an Owner | `Deployment` |
| Expenses: `expense_service.py` | expenses, audit rows | create, update, void | void is final, an audit row per change: one row lock from read to commit | no |
| Reviews, wishlist | rows | create, read, update, delete | one review per ordered product: a unique constraint | no |
| Notifications and chatbot push: `notification_service.py`, `chatbot_notify.py` | notification rows | insert with the caller's transaction, push after the commit | nothing reads the outcome of the push | no |
| Catalogue, FAQ, search, store settings | rows; cached product lists | create, read, update, delete | no protocol between requests | no |
| Reports | none | queries, PDF | read-only | no |
| Legacy charge script `app/reconcile_legacy_midtrans.py` | payment rows of older versions | one-off repair | its start states cannot be reached by today's code | no |
| Routes, schemas, start-up | none | validation, wiring, starting the workers | | through the services |

**Interaction.** The services share rows, not messages. Order operations lock
order, then payment, then invoice; checkouts lock buyer, customer and then stock
rows by id; reversals lock the order and touch stock rows in the ledger's order;
outbox rows are written in the transaction of the event they tell of and are
read by the workers only. The gateway is reached by HTTP with a time-out and
answers later, or again, through signed webhooks. The order lock is *given up*
around the calls of charge, refresh and the buyer's cancellation, and *held*
around the refund calls.

**How the modules meet.** `OrderPayment` follows one order through its life and
`Checkout` many orders up to their payment and their reversal; they meet in
`OrderContract`, whose reversal is one step there and `_rollback_order_stock`
with its locks here (`ReturnedWhole` says that this step is what the contract
takes it for). `Checkout` and `Purchasing` share the stock rows: each has the
other's movements as one step (`AdjustStock`, `Consume`), which is what `OneAtATime`
says of Purchasing's. The customer record
that `Checkout` locks is the one that `BuyerAuth` links.

**Hard behaviour.** A charge whose answer is lost; a webhook that overtakes the
answer, or comes twice, or late; a status read before the lock and used under
it; a cancellation that has to ask the gateway about every open reservation, in
up to three rounds; life-cycle workers with stale candidate lists; refund answers
lost between the gateway and the commit; an e-mail worker that outlives its
lease; checkouts that race on two channels, or are repeated before they commit;
locks taken in different orders; costs averaged from rows that others change;
codes verified, spent and replaced at once; guesses that overlap the lock-out;
operators who bootstrap, stamp and upgrade at once; restarts anywhere.
`PROJECT.json` lists each hazard at its line with the properties aimed at it.

## 2. The modules

| Module | What it is | Uses |
|---|---|---|
| `OrderStates` | the transition tables of `app/core/state_machine.py` and sets of statuses | |
| `OrderContract` | abstract: what one order promises the stock room and the sales figures | `OrderStates` |
| `OrderPayment` | one order with invoice, payments, refunds, gateway, cancellation, workers, scripts | `OrderStates`; `OrderContract` by `INSTANCE` |
| `AtLeastOnce` | abstract: what the outbox promises of each event | |
| `EmailOutbox` | outbox rows, workers with leases, SMTP, the operator | `AtLeastOnce` by `INSTANCE` |
| `Checkout` | transactions that place orders and reverse them, lock by lock | |
| `StockRoom` | abstract: what purchases, adjustments and orders promise of stock and ledger, a step each | |
| `Purchasing` | purchases, stock rows, average cost, recipes and product cost | `StockRoom` by `INSTANCE` |
| `BuyerAuth` | one-time codes and what they authorise; buyers and customer records | |
| `Accounts` | users, tokens, and the cache of each process | |
| `Deployment` | the schema of a database and the commands that bring it there | |
| `MCOrderPayment`, `MCCheckout`, `MCPurchasing`, `MCBuyerAuth`, `MCAccounts`, `MCDeployment` | instances for TLC, fairness where a run adds some, and documented statements the code does not keep | the module of that name |
| `SumTheorems` | induction over numbers and finite sets, recursion along a list, and the laws of the sums that the models take over rows | `Functions`, `TLAPS` |
| `OrderPaymentProofs`, `EmailOutboxProofs`, `CheckoutProofs`, `PurchasingProofs`, `BuyerAuthProofs`, `AccountsProofs`, `DeploymentProofs` | theorems | the module of that name; `SumTheorems` where sums, replays or inductions occur |

A definition named `X_FaultySomething` stands before `X` and is a plausible bug
in it: a dropped guard, a stale total, a missing reset. No action uses it. Each
property in the runs has one such variant that makes TLC refute it, so no
property holds merely because of the shape of the model.

## 3. How OrderPayment reads the code

**Atomicity.** A transaction holding the order row lock is one action, with every
call it makes that changes state. An HTTP call to the gateway made outside the
lock ends one action, and what is done with its answer is another. Refused
requests and skipped callbacks change nothing and have no action.

| State | Code |
|---|---|
| `status`, `invoice`, `createdVia`, `fulfillment`, `settlementDue`, `alerts` | `Order`, `Invoice` columns; `alerts` counts what `fulfillment_overdue_notified_at` is to limit to one |
| `payment[p]` | payment rows in id order, `online` when `pg_order_id` is set |
| `refund[k]` | `RefundTransaction` rows by `gateway_ref`; `mode` is its suffix (`:auto`, `:in_progress`, `:manual`), a key of Midtrans's own, or a row the seller made |
| `reversals`, `soldCount` | `REVERSAL` stock movements of the order; additions to `Product.sold_count` |
| `charge[p]` | the server's side of `POST /charge`: waiting, over, refused (answered with an error), or abandoned by a restart |
| `gateway[p]`, `gwRefund[k]` | what Midtrans holds (external) |
| `cancel` | the request inside `cancel_order_by_customer`: where it is, round, reservations left, last answer |
| `scan[w]` | the candidate a life-cycle worker is at, with the time it was selected at and the reservations it still has to refresh |

| Actions | Code |
|---|---|
| `CreateCharge`, `ChargeAccepted`, `ChargeRejected`, `ChargeUncertain` | `create_midtrans_charge`: reservation committed, POST outside the lock, its three outcomes |
| `GatewayTakesCharge`, `ChargeLost`, `GatewayResolves`, `GatewayOwnRefund`, `GatewaySettlesRefund` | the gateway |
| `Webhook`, `Refresh` | `handle_midtrans_notification`, `refresh_if_pending`, both into `_apply_transaction_status` (`ApplyStatus`) |
| `CancelCheck`, `CancelStatus`, `CancelPost`, `CancelApply` | `cancel_order_by_customer` with `cancel_pending_midtrans_payment` |
| `ScanSettlements`, `ScanUnpaid`, `ScanOverdue`, `WorkerRefresh`, `ExpireSettlement`, `ExpireUnpaid`, `AlertOverdue` | `order_lifecycle_service.py` and `expire_overdue_settlements` |
| `ManualPayment`, `UpdateStatus`, `UpdateFulfillmentDate` | cash payment, `update_order_status`, `update_order_fulfillment_date` |
| `RequestRefund`, `ConfirmRefund` | `process_refund`; `update_order_status("refunded")` |
| `RefundWebhook`, `ReconcileRefund`, `RetryRefund` | refund entries of a webhook; the two scripts |
| `Restart`, `Tick` | memory of all processes gone; time |

**The answers to a charge** (`payment_service.py:259-289`). A time-out, an HTTP
status of 500 or more, and a body without a usable code keep the reservation
(`ChargeUncertain`). A body whose `status_code` begins with 4 *or 5*, under an HTTP
status below 500, sets the payment to Failed, without a lock and without reading it
again (`ChargeRejected`). After a 4xx the gateway holds nothing; after a 5xx it may
hold the charge, and the buyer may still pay it. The model has both, and
`charge[p] = "refused"` remembers that this is how the row came to be Failed. What
that costs is the finding of `v_error_answer` (section 12): the reservation no longer
holds back other charges, the cancellation or the expiry, and a late settlement is
skipped. `DeadOrderTakesNoMoney` and `SettledIsNotFailed` therefore except refused
charges, and only these.

One assumption about the gateway is made here: *a charge that it answers with an
error is not paid before that answer is handled*, and such an answer means that the
request has been dealt with. Otherwise line 285, which writes from the object read
before the POST, would overwrite a settled payment. The statements about received
money (`WithinTotal`, `InvoiceAgrees`, `ProductionIsFunded`, `PaymentsForward`,
`SettledIsNotFailed`) and their theorems rest on it.

Abstractions, each chosen so that the properties do not see the difference:

- *One order.* Orders share no payment, refund or invoice rows. What they do
  share (stock, the customer lock) belongs to the checkout.
- *Money* is in small units; `Total` is the bill, the down payment half of it.
- *Time* is a counter of abstract days. `payment_expires_at` is the constant
  `ExpiresAt` and exists for customers' orders only; the settlement deadline is
  the day before fulfilment.
- *Reports are stale or fresh.* What a webhook or a status query says is what the
  gateway holds now, or `pending`, which it held before. They may come any
  number of times, in any order, or never. A 404 for an unknown transaction
  changes nothing. `challenge` is a capture under fraud review.
- *A webhook with several refund entries* is several steps with one entry each;
  this only adds interleavings.
- *The order of `_refresh_refund_payment_state` calls* in a seller's confirmation
  follows rows selected without `ORDER BY`, so `ConfirmRefund` allows every
  order.
- *Refund calls* are made under the lock: the answers come with the action. A
  crash before the commit loses the rows and keeps what the gateway took; it
  looks like a refund under a key the ledger does not know, which
  `GatewayOwnRefund` also gives.
- *`update_order_fulfillment_date`* takes no lock; it reads and writes one column
  no other handler writes, so it is one step.
- *The chatbot's refund request* validates more and then calls `process_refund`.
- *Lines 431-480 of `payment_service.py`* handle a `refunded` result which the
  status map never yields, so there is nothing to model.
- *The life-cycle worker* processes its three candidate lists one candidate at a
  time; with one order a list is that order or empty.

## 4. How EmailOutbox reads the code

Each database transaction of the worker is one action: claim
(`ClaimEmail`, or `GiveUpEmail` when the attempts are used up), and outcome
(`FinishSuccess`, `FinishFailure`). Between them the SMTP server takes the
message (`SmtpAccepts`) or the call raises, with or without a copy sent
(`SmtpRaises`). `WorkerLost` is a crash, a cancelled task or an unreachable
database at any point of that. `Retry` is the operator's `retry-failed`.

- *Lease and time.* `timer` says whether the row's `next_attempt_at` or
  `lease_expires_at` has passed; `TimerRunsOut` lets it pass at any moment, so
  every lease length and every SMTP delay is covered.
- *Token.* A fresh uuid per claim is represented by the worker that made it,
  which forgets the old token when it claims again.
- *Claim order.* The lowest claimable id, except that rows another free worker is
  just claiming are skipped (`skip_locked`).
- *Observers.* `claims` counts claims since the event was queued or requeued,
  `out` says whether a copy ever went out, and `live` marks a worker whose lease
  has not run out. No guard reads them.
- *Not in the model:* rendering, recipients, headers, the `status` and `failed`
  commands (read-only). `run_email_batch` is the same loop with a limit; it ends
  at an exhausted row and the next batch goes past it.

## 5. How Checkout reads the code

A transaction of PostgreSQL (READ COMMITTED) is a request `t` that takes its row
locks one at a time; `pc[t]` is where it stands, `held[t]` what it has locked.
What it read without a lock may be stale in the next step; what it writes is
seen when it commits, in one action, and never if it is rolled back.

| Actions | Code |
|---|---|
| `Begin`, `Resolve`, `LockCustomer` | route to service; the buyer's row lock, the look-up of the customer, `lock_customer_for_order_creation` or the insert of a new customer |
| `CheckRequest` | the idempotency marker, then `check_active_unpaid_order` |
| `ReadCatalogue`, `LockStock`, `PlaceOrder` | product and recipe without a lock; stock rows by id; sufficiency, deduction, movements, order, commit |
| `StartReversal`, `ReadVersion`, `CompareAndSwap`, `Reverse` | `_rollback_order_stock`: the order's lock, then for each ORDER movement an UPDATE with the row's version, up to three attempts |
| `DeadlockVictim`, `Crash` | the database fails one member of a cycle of waits; a server dies |
| `Pay`, `EditCatalogue`, `AdjustStock` | what others do meanwhile, one transaction each |

Quantities are in units of 0.005, since a stock row (`NUMERIC(10,2)`) rounds what
recipes and movements (four decimals) do not: `Stored` rounds. The buyer's
customer record is fixed (`CustomerOf`; `BuyerAuth` models how it is found).
Flags, price, minimum order and an empty recipe are one condition, `onSale`.
Refunds that open an invoice again, and the rows for notifications and e-mail
that are written with the order, are left out.

## 6. How Purchasing reads the code

A transaction holds what it wrote (`tx[t].wrote`, the rows in `tx[t].held`) until
`Commit`, and `Seen(t)` is its view. Purchases that are created, edited or
cancelled lock one row and are one action. A receipt goes item by item
(`StartReceiving`, `ReceiveItem`; new items cannot come in the same call), an adjustment and a recipe edit go on to the
recalculation of the product's cost (`Recalculate` and `Sync`, the code's two
ways of doing it), which wait for the product's row.

One supplier and one product. Quantities are whole; a cost is in units of the
last place of `NUMERIC(10,4)`, so that the two roundings of the code (half up in
`update_average_cost`, half even in `adjust_stock`) are what they are. Images,
price history and the descriptive columns that `update_stock` writes are left
out. `CostReplays` compares a row with the replay of its movements as the preflight
does: quantities must be equal (which is also stated by itself, `QuantityReplays`), costs may
differ by one unit of the last place.

`StockRoom` is the same stock master and ledger with no transactions, locks or
steps within a request: a purchase is received whole, an adjustment or an order is
one step. `OneAtATime` says that `Purchasing` implements it, with the set of received
purchases read off their statuses. The four columns the reader of a lost update would
look at (quantity, cost, movements, status) are all in it; product cost is not, since
the code does not promise it (section 12, `CostIsCurrent`).

## 7. How BuyerAuth and Accounts read the code

`BuyerAuth`: a request reads, locks and checks in one action and writes in
another, its commit; between them others see nothing of it. A code is a row of
`otp_codes`: its purpose, whose it is, whether it was verified and used, how
often it was tried. Whoever knows the code or the token may use it, so a token
that is reused or stolen needs no action of its own. `Expire` lets the time of a
code pass at any moment. `verify_otp` commits the last wrong attempt before it
marks the code used, which is `VerifyOtp` and then `Exhaust`;
`confirm_wa_verification` takes no lock, which is `ReadNonce` and then
`ConfirmWa`. `LinkedTo`, `Numbered` and `Record` are the two look-ups by which a
change of number, a checkout and a charge find a buyer's customer record. A
charge locks neither the buyer nor the record it links; `unlocked` names the
records so linked, and `RecordMatches` speaks of the others.

Worth knowing: `confirm_wa_verification` announces a limit of three attempts
(`buyer_auth_service.py:383-394`) and does not enforce it, so the bound of
`TypeOK` is for the codes that reset passwords; and two requests for a reset code
at once leave two active codes (each retires only those it sees), which
`OutdatedAreDead` still finds dead after a reset.

`Accounts`: a process runs a request until it awaits the database, so an action
is what happens between two awaits. `attempts` and `revoked` are the entries of
each process's cache; a restart forgets them, and with them what the history
variables `failures` and `logouts` count. `RevokedFor` computes the remaining
life in whole seconds as `revoke_token` does; the last fraction of a second is
not covered, and `RevokedStaysOut` says so. `LockoutHolds` allows, beyond the
limit, the guesses that were under way when it was reached: the lock-out is looked
at once, before the first await. A token keeps the role it was issued with; the
database can only lower its rank.

Worth knowing: two owners may remove each other at once; a deleted user's token
still passes routes that ask for a role only; phone numbers are not unique in the
database.

## 8. How Deployment reads the code

`objects` is the set of schema objects there are (`"core"` for the tables of the
first schema, and one for each table, column group, index or enum that a command
looks at), `bad` the troubles in rows and shapes, `version` the recorded revision
as its position in `Chain`. Each revision says what it adds, needs, ensures,
refuses and settles, read off its `upgrade()`.

| Actions | Code |
|---|---|
| `StartBootstrap`, `RefuseBootstrap`, `CreateSchema`, `StampHead` | `app/db_bootstrap.py`: advisory lock, checks, `create_all` and the auto-migrations in one transaction; the stamp in another |
| `Preflight`, `StampBaseline` | `app/db_preflight.py --stamp`; the checks read, the stamp comes later |
| `BeginUpgrade`, `UpgradeToBlock`, `AddLabel`, `UpgradeToHead`, `FailUpgrade` | `alembic upgrade head`: one transaction, which 20261030_02 commits halfway for its autocommit block |
| `StartApi`, `EnsureRoles`, `LoseRoles`, `EnsureOwner`, `CommitSeed`, `RefuseSeed` | start of the API on an empty roles table |
| `Crash` | a process dies anywhere |

`AuditClean` is `app/db_reconcile.py`, which only reads. `Databases` is the set of
databases the commands may find; the instance has an empty one, one with left
over enum types, legacy schemas that stopped at a revision, with groups of later
objects added or earlier ones missing and one trouble, and versioned ones that
lack what later revisions repair.

Not modelled: downgrades; `stamp` by hand; drift that happens while a command
runs. What a revision vouches for leaves out the indexes of 20260919_01 and the
homepage row, which no adoption verifies, and what a later revision repairs.

Worth knowing: `README.md:116-123` says that the 20261008_01 preflight refuses
objects of later revisions; those of 20261017_03, 20261026_01, 20261026_02 and
20261030_01 are not looked for, and an upgrade of a database that has them stops
on the first (nothing is lost: its transaction is rolled back). Two operators
whose checks overlap can stamp an earlier revision over a later one; the record
stays true. `README.md:105` calls 20261106_02 the head; it is 20261107_01.

## 9. The runs

Passing runs (`PROJECT.json` gives the same list with the mutants):

| Run | Asks | Instance | States |
|---|---|---|---|
| `charge` | money, invoice and life cycle without refunds: nobody pays beyond the bill, on a dead order or twice; production is funded; the order refines `OrderContract!Spec` | 2 payments, 1 worker, 3 days | 565,668 |
| `expiry` | two life-cycle workers: one alert per overdue order; an unpaid checkout ends | 1 payment, 2 workers, 2 days, fair | 43,798 |
| `refund_ledger` | refunds of a fully paid order: by the seller, the gateway's answers, webhooks, both scripts, the gateway's own refunds | 2 settled payments (2+2), 3 refund keys | 88,450 |
| `refund_open` | refunds of a part-paid order, while charges and cancellations go on | 2 payments, 2 refund keys | 68,073 |
| `outbox` | slow, dying and competing e-mail workers | 2 events, 2 workers, 2 attempts, 1 retry, fair | 81,520 |
| `checkout` | racing and repeated checkouts on three channels, reversals, a changing catalogue | 3 transactions, 1 customer, 1 key, 2 ingredients, fair | about 108,000 |
| `purchasing` | overlapping receipts, adjustments, recipe and price edits, refining `StockRoom!Spec` | 2 purchases, 2 stock rows, 2 transactions, 5 requests | 1,301,433 |
| `buyer_auth` | codes spent and replaced at once; records linked at once | 2 codes, 2 buyers, 2 records, 2 transactions, 4 requests | 345,664 |
| `accounts` | bootstrap, user edits, logins, log-outs, time, restarts | 2 users, 2 tokens, 2 transactions, 4 requests | 406,714 |
| `deployment` | bootstrap, adoption, upgrade and first start by three processes that may die | 2,100 starting databases, 3 processes | 197,549 |

What the properties say:

- `AtMostOnePending`, `WithinTotal`: one open reservation at a time, and received
  money plus that reservation is at most the bill, so no reservation that is still
  open can overpay it.
- `InvoiceAgrees`: the invoice status that five handlers write is always the one
  the rows imply.
- `DeadOrderTakesNoMoney`: a cancelled order has no charge that is alive at the
  gateway or still on its way to it, unless the gateway answered that charge with
  an error.
- `SettledIsNotFailed`, `SuccessIsSettled`, `PaymentsForward`: settled money is
  written off only where the gateway's own error answer to the charge did it,
  nothing unsettled counts as received, and no row goes back.
- `ProductionIsFunded`, `OnlyPartlyPaidExpire`, `AlertOnce`: production needs half
  of the bill, the settlement deadline closes part-paid orders only, and alerts
  are not repeated by a second worker.
- `CancelledHasRefund`, `RefundsMatchPayments`, `GatewayRefundNeedsBank`: money
  kept on a cancelled order has a refund on record, no payment returns more than
  it brought, and a gateway refund is complete only when the bank confirmed it.
- `KeepsContract`, `KeepsRefundableContract`: refinement of `OrderContract`; the
  stock goes back exactly once when an order closes unserved, and a sale counts
  once, though seven handlers close orders and three statuses count as a sale.
- `OneLiveSender`, `AttemptsCountClaims`, `KeepsPromise`: no two workers send one
  event under running leases, every claim counts, at-least-once delivery.
- `OneOpenBill`, `KeyOnce`, `AnswersAgree`: one open bill per customer on whatever
  channel; a key places one order in its scope, and whoever repeats it is told of
  that order, which is for what was asked.
- `ReturnedWhole`, `StockIsLedger`: a cancelled order has given back what it took
  of each ingredient, once; the ledger in commit order comes to what the row
  holds and never overdraws it.
- `ReceivedOnce`, `CostReplays`: a purchase is in the ledger once with the items
  it has, or not at all; quantity and average cost follow from the movements.
- `OneAtATime`: refinement of `StockRoom`; overlapping requests do to stock and ledger
  what they would do alone, so none works on a row it read too early, none takes
  stock below zero, and no receipt is seen in part or undone in part.
- `SpentOnce`, `OutdatedAreDead`, `RecordMatches`: a code lets one operation
  through; a reset leaves no other code alive; a buyer's record carries the
  buyer's number. `BuyerAuth!TypeOK` has the limit of wrong attempts in it.
- `BootstrapOnce`, `LockoutHolds`, `RevokedStaysOut`: one first owner; the lock-out
  counts overlapping guesses; a process refuses a token it revoked.
- `RecordIsTrue`, `SeededHasOwner`, `AuditedIsNotAdoptable`: the recorded revision
  is true whoever crashed; roles never come without an Owner; a database that the
  audit recognises as drifted passes neither preflight.
- `UnpaidOrdersEnd`, `EveryEmailDecided`, `EveryRequestEnds`: liveness, section 10.

**Bounds and why they are enough.** Two payments are the most a bill takes (down
payment and rest). Totals of 2 and 4 tell "nothing", "part" and "all" apart for
the bill and for one payment. Three days give a date before, at and after each
deadline. Two workers race; a third takes no lock that two do not. Three refund
keys leave one for the gateway's own refund beside one per payment. Two outbox
attempts include a recovered claim and an exhausted row. Three checkout
transactions are two that race and one whose reversal or order they meet; two
ingredients are what a deadlock needs; recipes of odd and even units round and do
not. Two purchases, two stock rows and two transactions overlap in every pair of
handlers; the five requests give a row created, received, adjusted, consumed and
received again. Two codes are one that is used and one it should outdate; four
requests reach a code requested, verified and spent while another is. Two guesses
with a limit of two, and a second of two ticks, reach every boundary of the
lock-out; the clock stops before a token lapses, so of a token's life the run has
the beginning only, and the theorem `RevokedIsRefused` the rest. Three processes are one that crashes, one that
meets what it left and one that races. The runs with refunds start in paid
orders (each reachable by charges and settlements) and stop the clock, since the
runs without refunds cover the deadlines. Symmetry is used where no liveness is
checked; `charge` has a `VIEW` (`ChargeView`) that takes for one state those which
differ only in how a transaction ended at the gateway (denied, cancelled, expired),
or in what it holds of a charge whose row is Failed after an error answer: no handler
and no property of that run tells these apart. `OrderedSpec` of `checkout` begins its alike transactions in a fixed
order instead, which keeps its fairness intact.

Deadlock is checked except where the system rests: `outbox` (no mail left),
`checkout`, `purchasing` and `buyer_auth` (their requests are used up).

## 10. Fairness

`ExpirySpec`: `run_order_lifecycle_worker` polls for ever and a restarted process
starts it again, so a pass that is possible again and again is made (strong
fairness on the scan, on the refresh and on the expiry; strong, because
restarts and callbacks disable them for a while). A status query that can be
answered again and again is answered. On the gateway's side, a live transaction
ends (`custom_expiry`), and a charge request is answered, times out or vanishes.
Nothing makes a webhook arrive, a buyer act or a seller decide.
`UnpaidOrdersEnd` then holds for orders whose open reservation the gateway knows;
for one whose charge never got there it does not, see section 12.

`EmailOutbox!Fairness`: each worker keeps polling, its SMTP calls end (the
time-out in `_send`), and timers run out. Workers may die as often as they like
and operators need not retry anything.

`Checkout!Fairness`: a request that can take its next step takes it, and the
database's deadlock detector runs (weak fairness of each transaction's steps).
Nothing makes a request come, a payment arrive or a server die.

## 11. The proofs

All theorems hold for every value of the constants allowed by the assumptions,
which are named in the modules that declare the constants and evaluated by the
runs: `ConstantsAssumption`, `OutboxAssumption`, `CheckoutAssumption` and
`RequestAssumption`, `PurchasingAssumption` and `OrderableAssumption`,
`BuyerAuthAssumption`, `AccountsAssumption` (finite sets, positive bounds, disjoint
names, and what the schemas enforce of a request; no number of rows, workers,
transactions or keys is fixed) and `DatabasesAssumption` (each database that the
commands may find is at a revision that is true of it, or at none; left-over enum
types mean that their tables are gone). One group of theorems has a hypothesis
about the steps, `CarefulRefunds`; it is discussed under `OrderPaymentProofs`.

| Module | Theorems and the properties they prove |
|---|---|
| `OrderPaymentProofs` | `TypeCorrect` (`TypeOK`), `OnePending` (`AtMostOnePending`), `SettledMoneyKept` (`SettledIsNotFailed`), `AlertedOnce` (`AlertOnce`), `RefinesContract` (`KeepsContract`), `RefinesRefundableContract` (`KeepsRefundableContract`), `RefundsMatch` (`RefundsMatchPayments`), `CancelledIsRefunded` (`CancelledHasRefund`), `BankConfirms` (`GatewayRefundNeedsBank`) |
| the same, under `CarefulRefunds` | `WithinBill` (`WithinTotal`), `InvoiceStaysTrue` (`InvoiceAgrees`), `ProductionPaid` (`ProductionIsFunded`), `ExpiredIsPartlyPaid` (`OnlyPartlyPaidExpire`), `ReceivedWasSettled` (`SuccessIsSettled`), `DeadTakesNoMoney` (`DeadOrderTakesNoMoney`), `ForwardOnly` (`PaymentsForward`); `WithoutRefunds`: all seven without the hypothesis when there are no refunds |
| `EmailOutboxProofs` | `OutboxTypeCorrect` (`TypeOK`), `OneSender` (`OneLiveSender`), `EveryClaimCounts` (`AttemptsCountClaims`), `DeliversAtLeastOnce` (`KeepsPromise`) |
| `CheckoutProofs` | `OneBill` (`OneOpenBill`), `OneOrderPerKey` (`KeyOnce`), `RepeatsAgree` (`AnswersAgree`), `CheckoutTypes` (`TypeOK`), `StockFollowsLedger` (`StockIsLedger`), `GivenBackOnce` (`ReturnedWhole`) |
| `PurchasingProofs` | `PurchasingTypes` (`TypeOK`), `PurchasesReceivedOnce` (`ReceivedOnce`), `QuantitiesFollowMoves` (`QuantityReplays`, half of `CostReplays`), `CostsFollowMoves` (`CostReplays`), `OneRequestAtATime` (`OneAtATime`) |
| `BuyerAuthProofs` | `CodesAreLimited` (`TypeOK`), `CodesSpentOnce` (`SpentOnce`), `ResetsRetireCodes` (`OutdatedAreDead`), `RecordsFollowNumbers` (`RecordMatches`) |
| `AccountsProofs` | `AccountTypes` (types, unique names) with its corollary `TypesHold` (`TypeOK`), `OneBootstrap` (`BootstrapOnce`), `RevokedIsRefused` (`RevokedStaysOut`), `LockedOut` (`LockoutHolds`) |
| `DeploymentProofs` | `RecordStaysTrue` (`RecordIsTrue`), `RolesComeWithOwner` (`SeededHasOwner`), `AuditedIsLeftAlone` (`AuditedIsNotAdoptable`) |

### Induction and sums

The code's totals are SQL sums over rows, and its ledgers are replayed movement
by movement. The models write the first with `SumFunctionOnSet` of the community
module `Functions`, the second with recursive functions. That such a function
exists, and what it computes, needs an induction. The library states induction
with an operator for a parameter, which the provers here cannot instantiate.
`SumTheorems` states it of sets instead: a set of numbers that contains 0 and,
with each n, n + 1, is all of `Nat` (`NatSetInduction`; `BoundedInduction` along
1..N and `FiniteSetInduction` over the subsets of a finite set follow). The
property to be shown becomes the set of numbers that have it. From this
`RecursionSolvable` gives a function for a recursion along a list, and the laws
of sums follow: of an update, a split, a bound, a grouping.

### OrderPaymentProofs

*State machines and contract.* `TypeOK` alone is not inductive: a fourth round of
the cancellation is excluded by `RoundsLeft`, that a request about to check the
order has made fewer than three. `GatewayInv` says that there is one open row,
that at most one reservation is left to cancel, that a Failed payment is dead at
the gateway or was answered with an error there, and that one which the cancellation takes as cancelled is cancelled
there. The last two tie the rows to the gateway's state across the unlocked
calls, which is what the handlers written without a lock rely on; the dangerous
steps are the late `ChargeRejected` and `CancelApply` after a lost answer.
`AlertedOnce` rests on the mark and the count changing together under the lock.
The two refinements show every step to be a step of `OrderContract` or a stutter,
given `ContractInv`: reversals are 0 or 1, are 1 once closed, and the sale is
counted exactly in the sale statuses. With refunds, a confirmation that does not
close the order gives the stock back early (`ReleaseEarly`).

*Money.* Three invariants, each on top of the one before. `RowsInv`: what a row of
each table may look like. `LedgerInv`: the refund ledger against payments, order
and bank, whatever anybody does; the three theorems about refunds read their
property off it. `MoneyInv`: invoice, order and bill against three sums (received,
returned, reserved). Each step is first reduced to what it does to these sums.

*The hypothesis.* `MoneyInv` is preserved by every step but two kinds, in which
`_refresh_refund_payment_state` writes `Success` over a payment nobody paid here, so
that money counts as received which was not. The seller's confirmation of refunds
calls it for all rows of the invoice, open and failed ones included (section 12,
`v_success_settlement`). The webhook of a refund that the gateway made by itself
calls it for the payment refunded, which after an error answer may be Failed here
and settled there. So `WithinBill` and the six after it are theorems of
`CarefulSpec`, which is `Spec` with `CarefulRefunds` in every step: a `ConfirmRefund`
happens only when all of the order's rows count as received, and nobody refunds at
the gateway a payment that is Failed here. No other step is restricted, and the
refunds of a fully paid order satisfy it. Neither half can be dropped: with a bill of
two and two payments TLC refutes `PaymentsForward` when either is, and `WithinTotal` with a
bill of three and without the second. With both it finds no error (454,430 states).
`RefundsStand` carries the second half through the proof. `WithoutRefunds` shows that
with no refund keys, which is the run `charge`, the hypothesis is not needed.

### EmailOutboxProofs

One invariant, `OutboxInv`, carries all four theorems. Beside types and counts it
says that a running lease is the one the row names (`LeasesMatch`), that a worker
whose token still matches remembers the row's attempts, and that a worker holding
an answer holds one about an event that went out (`WorkersKnow`).
`DeliversAtLeastOnce` maps every step to one of `AtLeastOnce` or to a stutter.

### CheckoutProofs

`OneOpenBill` is not inductive, because what makes a second bill impossible happens
several steps before it is placed. `CheckoutInv` adds that row locks are exclusive
(`Exclusive`), that a request past its check holds its customer's row, and a
buyer's request the buyer's (`WorksOn`), and that what the check found out is still
so (`StillClear`). `OneBill`, `OneOrderPerKey` and `RepeatsAgree` follow; the last
needs `AnsweredOwn`, that a request was answered with an order of its own key,
scope and content.

The stock half has `StockInv`: types, `StockIsLedger`, and three parts that relate a
reversal under way to what it undoes. `BooksAgree` says for each order and
ingredient that there is at most one movement each way and that they cancel
exactly when the order was cancelled; `Returning`, that a reversal in progress
holds the order's row and still has to return what it read; `Swapping`, that a
version is compared with that of a row. `StockIsLedger` itself is a recursion along
the ledger, so a lemma says what one more movement does to its balances.

### PurchasingProofs

`StepCases` sorts the steps: each changes the tables alone, or begins, continues
or ends one transaction. The invariant has, beside types:

- `LocksApart`: a row lock has one holder;
- `OnShelves`: a row that a purchase or a transaction still needs exists, and a
  row that does not exist has no movements;
- `WritesAreMoves`: for each row, a transaction has written nothing and noted down
  nothing, or it holds the row and is one movement away from what is committed;
- `Receipts`: a receipt holds its open purchase and has received exactly the items
  before the one it is at, each of which asks for another row;
- `AsAsked`: what a transaction wrote and noted down is what its request asks for of
  the rows *as they are*: nothing, one adjustment, or some items of its purchase;
- `PurchasesLedgered`: the ledger has one movement for each item of a received
  purchase and none for the others;
- `Quantities`: a row's quantity is the replay of its movements;
- `Costs`: its cost is within a unit of the replay's, unless it was opened empty and
  has no movements yet.

`ReceivedOnce`, `QuantityReplays` and `CostReplays` hold only at commits, far from the
steps that read: `WritesAreMoves` and `LocksApart` are what carries the reading
across. What one movement may do to a row is `Moved`.

`OneRequestAtATime` is the refinement. Every step but a commit and the three one-step
changes of a stock row stutters. A commit is an adjustment, a whole receipt, or
nothing: `AsAsked` and `Receipts` say that what it publishes is what the request would
write if it began now, of every row of its list and of no other, since the lists
name no row twice. `AsAsked` is stronger than `WritesAreMoves`, which says only that
there is *some* movement; it survives the others' commits because they hold other rows.

`CostReplays` looks as if it should fail in the long run: the row averages what a
purchase cost, the ledger keeps the unit cost rounded, and the replay averages that.
The errors do not add up. With a old and q new units, two costs at most one apart
make at most a of difference in the total, the rounded unit cost at most q/2, and
the sum is less than the new quantity a + q, by which both totals are divided; both
roundings of the code give a nearest quotient (`HalfUpNearest`, `HalfEvenNearest`), and
nearest quotients of totals less than a divisor apart are at most one apart
(`NearestClose`). A row opened at quantity 0 has a cost that no movement explains; it
weighs nothing. So the preflight's tolerance of one unit, which its comment
(`db_preflight.py:116`) says is for the rounding of unit costs, fits every ledger that
receipts, adjustments and orders write in commit order (section 12, `AuditAcceptsLedger`,
is about the order in which the preflight reads them).

### BuyerAuthProofs

`CodeInv`: no row is held by two requests, and what a request is about to write
still fits the code (`CodeRequestOK`); a code is used once it let something
through, and dead once outdated (`CodeOK`). `RecordInv` is the same for records:
a request that moves or links one holds the buyer's row, so the number it read is
still the buyer's. Numbers are unique, and `RecordMatches` is part of the
invariant. The two halves share only the row locks.

### AccountsProofs

`OneBootstrap` rests on `BootInv`: under the advisory lock one bootstrap at most is
under way, and whatever user is there meanwhile was made by other means.
`RevokedIsRefused` needs `RevokedInv`: the cache entry of a revoked token ends less
than a second before the token, though the code rounds the remaining life down.
`LockedOut` is about a count that is read
before the first await and raised after it: the invariant bounds the failures
*together with* the guesses under way, by the limit and the other requests, whose
checks may have come before the last failure (`LockoutInv`).

### DeploymentProofs

`RecordIsTrue` depends on what is about to be recorded, so `DeploymentInv` has
`AboutToRecord`: a process that has created the schema, passed a preflight or
committed the first half of an upgrade is about to record a revision that fits,
whatever others do meanwhile, because objects are only added and troubles only
settled (`StillFits`). Lemmas establish what the chain of 26 revisions makes and
settles (`MadeIsBuilt`, `FirstRevisions`), that what the bootstrap builds is what
the head vouches for (`BuiltIsHead`), that a database which passes a preflight fits
that baseline (`AdoptionFits`) and that the commit of an upgrade fits what it
records (`CommitFits`). `RolesComeWithOwner` uses `AboutToSeed`: the transaction
about to commit has the Owner in it. `AuditedIsLeftAlone` needs no invariant: it is
a fact about two sets of checks, of every database.

### Only model-checked

- The liveness properties `UnpaidOrdersEnd`, `EveryEmailDecided` and
  `EveryRequestEnds`: leads-to under fairness is outside the proof system's reach
  here.
- Nothing is proved of the seven properties of money for behaviours outside
  `CarefulRefunds`; there they fail.

## 12. Where the code and its documents disagree

Two have a run in which TLC finds the behaviour.

| Run | Behaviour | Statement it breaks |
|---|---|---|
| `v_success_settlement` | confirming a refund writes `Success` over the invoice's Pending and Failed payments, so money nobody paid counts as received | `README.md:222`, the table in `app/core/state_machine.py` |
| `v_error_answer` | an error code 5xx in the body of an answer sets Failed a payment whose charge the gateway may hold; the order can then be charged again, cancelled or expired, and a late settlement is skipped | `API_ENDPOINT.md:173`, comment at `payment_service.py:180-181` |

The others are defined in the MC modules; added to the `INVARIANTS` or
`PROPERTIES` of the configuration named, TLC refutes them.

| Statement | Configuration | Behaviour | Where it is said |
|---|---|---|---|
| `StockGoesBackOnClosing` | `refund_open` | confirming a refund gives the stock back before it is known whether the order closes | comment at `order_service.py:1037`, `README.md:224` |
| `GatewayRefundAwaitsCallback` | `refund_ledger` | a refund call that timed out is marked manual even if the gateway took it, and the seller's confirmation completes it | comment at `order_service.py:1042` |
| `ExpiryHonoursFulfillment` | `charge` | moving the fulfilment date leaves the settlement deadline, and the worker closes by the old one | `API_ENDPOINT.md:173` |
| `EveryCheckoutExpires` | `expiry` | a reservation whose charge never reached the gateway keeps the checkout from ever expiring | `README.md:226` |
| `CancellingRestoresStock` | `checkout`, with odd recipes | taking half a hundredth leaves the rounded row alone, giving it back adds a hundredth | `README.md`, order life cycle |
| `AuditAcceptsLedger` | `checkout`, with a delivery | the preflight replays by `created_at`, which is when a transaction began: an order that waited for a delivery's lock comes before it and overdraws | `README.md`, preflight |
| `HomepageConfigured` | `deployment` | the bootstrap stamps the head without the row that 20261030_01 inserts, so the homepage settings answer 503, telling the operator to run migrations that count as run | `store_customization_service.py:45-49`, `README.md:105` |
| `CostIsCurrent` | `purchasing` | two requests that change two ingredients at once each count the other's old cost | `app/repositories/product_repo.py:153-154` |
| `OneRowPerIngredient` | `purchasing`, with two recipe rows | two requests add the same ingredient at once | check in `recipe_service.py`, `add_ingredient` |

`v_success_settlement` is the reason `SuccessIsSettled` is an invariant of `charge`
and not of the refund runs; `StockGoesBackOnClosing` is why `OrderContract` has two
specifications.

## 13. What is not modelled, and why

Section 1 marks the parts. Catalogue, FAQ, search, reports and PDF layout have no
protocol between requests (a product list that is cached while it changes is
stale for the time the cache keeps it). Expenses take one row lock from read to
commit; a duplicate review meets a unique constraint. Notifications are inserts
in a transaction modelled elsewhere, and nothing reads the outcome of the chatbot
push. The rate limiter is a library's. Signature checks, validation of inputs and,
outside `Accounts`, who may call what are taken as given: only accepted requests
are actions.

Lock order is modelled for checkouts and reversals (`EveryRequestEnds`). The refund
scripts lock the payment before the order while requests do the reverse;
`OrderPayment` takes a handler's locks as one, so it does not show that deadlock,
which the database ends by failing one side.

The bounds of each instance are in its configuration. What the models bound to
keep TLC finite (`MaxClock`, `MaxRequests`, `MaxRetries`, `MaxEvents`) appears in the
guards, and no theorem depends on its value.
