# Lotzi, specified in TLA+

Lotzi (`backend/`, NestJS over PostgreSQL and Redis; `frontend/`, Next.js) is
a marketplace: merchants keep a catalogue and stock, customers check out with
PhonePe or cash on delivery (COD), and several server processes drive payments,
stock and uploads at the same time. What is hard in it is not any single
handler but what happens between two of them. This project models that: which
rows a handler has read when it writes, what a second handler has written
meanwhile, and what the payment gateway, Redis, a second tab or a crash did in
between.

## 1. Inventory of the system

| Component | State it keeps | Operations | What is hard | Correct when |
|---|---|---|---|---|
| Inventory engine (`modules/inventory`) | `inventory_items` (available, reserved, sold, version), `inventory_reservations`, `inventory_ledger`, `inventory_operations` | initialise, reserve, COD authorise, confirm, release, expire, adjust, archive | checkouts, confirmations, expiries and archivings of the same row in any order; repeated keys | counters say what the reservations say; no unit lost, invented or sold twice; the ledger is an unbroken trail |
| Checkout (`modules/checkout`) | `orders`, `payments`, `payment_attempts`, `phonepe_transactions`, `checkout_sessions` | price, create session (PhonePe, COD), record the gateway's answer, fail or leave unknown | the gateway's answer comes late or is lost; the order is cancelled meanwhile; two runs under one key | a customer who can pay has an order that can be paid; lines, discount and total agree to the paisa |
| Payments (`modules/payments`) | the same rows, `payment_events`, `reconciliation_runs`, `refunds` | verify, confirm, fail, late success, retry, refund | every decision is made on rows read before the transaction | goods only for money, money only for goods, or a refund on record |
| Orders and merchant dashboard | `orders`, `order_state_transitions` | cancel, move to packing, move to refund review | the same | what is paid is not cancelled; what is cancelled releases its stock |
| Webhooks, reconciliation, payment worker | `webhook_events`, `phonepe_webhook_events`, `reconciliation_runs`, a Redis lock | ingest, claim, verify, retry, give up | several processes and the receiving request on one event; crashes | every event is settled, by one at a time |
| Idempotency (financial; uploads) | Redis entries, `idempotency_keys` | reserve, replay, complete, fail | Redis and the table disagree; leases end; the owner comes late | a key executes once, and replays its own response |
| Upload engine and product images | `upload_assets`, files at the provider, `product_images` | upload, attach, replace, remove, sweep | one of several steps fails; edits and the sweep act on old reads | an image in use, or named to a client, has its file |
| Auth and sessions | `sessions`, `refresh_token_history`, three session caches | sign in, refresh, revoke | two tabs refresh at once; a revocation meets a refresh or a guard on its way; three caches, of which it reaches one or two | a token has one successor; a live session is not logged out by a race; a revoked one is refused in the end |
| Phone sign-up | checkout flows, `phone_otp_verifications`, the proof in the flow | start, send, verify, sign up | two sends with one key, tries crossing a new code, two browsers with one number | a number is proven by a code that was sent to it, once |
| Customer account | `users`, `identity_providers`, `password_resets`, `account_deletion_requests` | sign in, link Google, reset, change, revoke, delete | a sign-in crosses the end of its credential; a deletion crosses anything | an ended credential leaves no session; what is deleted stays deleted |
| Onboarding and approvals | store lifecycle, reviews, drafts; the queue and timers of the form | edit, save a draft, complete a step, submit, approve, reject | calls decide on a state read before; the form goes on before a step is stored | no step is skipped; lifecycle, review and store agree; what is submitted is what was confirmed |
| Catalogue cache and events | outbox `domain_events`, a Redis stream, page versions, two page caches | record, publish, consume, announce, load, serve | a load crosses an announcement; crashes between two writes; Redis away | announced is served; recorded is settled |
| Point of sale | `pos_sessions`, `pos_sales`, stock columns of variants | open, sell, close | writes the columns that the inventory engine mirrors; closing crosses a sale | a closed session counts its sales |
| Redis client, rate limit | circuit, local fallback, windows | commands | timeouts with effect; a circuit that refuses | where used |
| Web application | cookies and envelope of a browser, tab timers, the photo queue of the product form, the form of the setup | refresh, broadcast, sign out, upload, retry, replace | tabs race; answers come after a photo was replaced | a tab that shows the session renews it; an asset is made of the file shown |
| Discovery, mail, audit, settings, gateway clients | read models, I/O | | | not modelled but for the page cache, see section 8 |

How they interact: checkout calls inventory (`reserveOrderStock`,
`authorizeCodOrderStock`) in its own transaction; payments call inventory
(`confirmOrderStock`, `releaseOrderStock`) in theirs; customers, webhooks and
reconciliation all end in the same verification; the worker also expires
reservations; cancellation and archiving release stock under the feet of all of
these; the counter writes the columns into which inventory copies its rows.
Checkout, retry, refund and upload run under an idempotency key. Product writes
record events, whose consumers announce changes to the page caches. A browser's
refreshes, uploads and sign-ins are the calls the session models answer.

`PROJECT.json` lists the hazards this code is exposed to, each at its line with
the properties that watch it.

## 2. Modules

| Module | Models | Composes |
|---|---|---|
| `StockPool` | abstract promise of the inventory engine: units are free or claimed; an order claims all its lines or none, sells all or none, and a release gives back all it holds, while single lines lapse (expiry) or are written off (archiving); a claim is decided once; the counter a checkout tests is what nobody claims | |
| `Inventory` | the inventory engine | refines `StockPool` |
| `PointOfSale` | the counter | the engine's mirror writes at their effect |
| `Quotes` | what a checkout costs | |
| `PaymentStates` | statuses and transition tables | |
| `OrderPayments` | an order's life from checkout to packing, cancellation or refund | `Inventory` (instance `Stock`), `PaymentStates` |
| `Refunds` | refunds of a paid payment | the idempotency service at its promise |
| `IdempotencyRows` | one key in `idempotency_keys` | |
| `Idempotency` | the financial service: Redis decides, the row follows | extends `IdempotencyRows` |
| `UploadIdempotency` | the upload service: a lease in Redis with an owner | extends `IdempotencyRows` |
| `UploadEngine` | uploads, the images of a product, the sweep | extends `UploadIdempotency` |
| `PaymentWorkers` | webhooks, reconciliation runs, the worker | the verification at its outcome |
| `Sessions` | a session's refresh tokens, its revocation and the caches of the guard | |
| `TabSessions` | the tabs of one browser and the session they share | the server of `Sessions` at what it answers |
| `PhoneSignup` | the proof of a phone number at the checkout | |
| `Account` | what opens a user's sessions and what ends them | |
| `Onboarding` | set-up, submission and review of a store | |
| `CatalogueEvents` | the outbox, the stream, its consumers | |
| `CataloguePages` | the pages and their caches | the announcements of `CatalogueEvents` at any time |
| `SetupPage` | the form of the setup, its drafts and their versions | the lifecycle of `Onboarding` as one page sees it |
| `PhotoQueue` | the upload queue of the product form | |
| `FiniteSums` | lemmas: sums over a finite set, ranks in one | used by the proofs of `Refunds`, `Quotes` and `PhotoQueue` |
| `RefundsProofs`, `SessionsProofs`, `OrderPaymentsProofs` | proofs about the modules they name | |
| `WorkersProofs` | proofs about `PaymentWorkers` | |
| `InventoryProofs`, `KeysProofs`, `StorefrontProofs` | proofs about `MCInventory`, `MCKeys`, `MCStorefront` and the modules these are made of | `KeysProofs` extends `RefundsProofs` |
| `MCInventory` | parts `engine`, `counter`, `quotes` | `Inventory`, `PointOfSale`, `Quotes` |
| `MCKeys` | parts `refunds`, `money`, `uploads`, `codes`, `number`, `account`, `tabs` | `Refunds`, `Idempotency`, `UploadEngine`, `PhoneSignup`, `Account`, `TabSessions` |
| `MCStorefront` | parts `setup`, `form`, `pages`, `events`, `photos` | `Onboarding`, `SetupPage`, `CataloguePages`, `CatalogueEvents`, `PhotoQueue` |
| `MCOrderPayments`, `MCRefunds`, `MCSessions` | values of the constants | one module each |

`MCInventory`, `MCKeys` and `MCStorefront` are sums: the variable `part` says
which of the systems a behaviour belongs to, and the others stand still. They
share a run, not a state; a property of a sum is the property of one part.

Operators named `X_Something` directly before an operator `X` (or the operator
they change) are *mutants*: `X` with a plausible mistake. They are used by no
specification; replacing `X` by them makes TLC report the property they are
listed with, which shows that the property can fail.

### 2.1 Inventory

A transaction of the engine reads only rows it has locked (`FOR UPDATE`), so it
takes effect at its commit and an operation is one action; a transaction that
fails is a step not taken. `rows` and `items` are `inventory_items`: a variant
without a row stands with the counters `ensureInventoryItems` would copy from the
variant's columns. `reservations[o][v]`, `operations[key]` and `ledger[v]` are the
tables of those names. `DeadlinePasses` is the clock passing `expires_at`;
`LoadInventory` is the merchant reading a row, `ApplyManualAdjustment` the change
made from it with `expectedVersion`. `supplied` is a history variable: what the
merchant has put on the shelf.

Left out: locations other than the default one, the mirror columns of
`product_variants` (they are in `PointOfSale`) and the summaries, domain events,
paging. `reconcile` changes nothing but an audit row.

### 2.2 PointOfSale and Quotes

In `PointOfSale` a clerk's call reads the session and later writes, so that a
close may count the sales before a sale commits, and two opens may both find
no open session. `engine` is the inventory engine's row, `column` what
`product_variants` shows: a sale takes from the column, an engine write copies
its row over it.

`Quotes` is a function of a cart: lines merged by variant, tax per line (at a rate
that the code sets to 0, `money.ts:5`), a coupon's percentage, the discount spread by
largest remainder, conversion to paise. TLC evaluates it for every cart within the
bounds and compares it with a definition of the exact amounts.

### 2.3 OrderPayments

Handlers read `payments` and `orders` without locks, several times, before and
inside their transaction, and then update by primary key. So every read is a
step and the writes of a transaction are one step, its commit, whose guards are
evaluated on what the call has read (`calls[o][c]`), not on what is stored.
`transitionPayment`/`transitionOrder` check the transition from the status the
caller read and write over whatever is there (`PaymentMoves`, `OrderMoves`). Stock
belongs to the commit, because the inventory engine locks. `Abandon` ends a call
at any point: an error, a timeout, a rollback, a crash. `GatewayMoves` and
`PageMoves` are PhonePe and the customer. `ReadSecondRow` makes the order row of
an `include` a separate read, as Prisma issues two SELECTs. `CreateAgain` is a
second checkout under the same key, which a Redis outage lets through: it fails
on the unique key of the payment and marks that payment as failed (`RunAgain`
says for which orders this may happen).

Checkout rejects Cashfree (`checkout.service.ts:259`), so its copy of the
verification, the same code with other columns, has no actions of its own.

### 2.4 Refunds

One paid payment; requests read it, reserve a key, insert a `refunds` row, ask
the gateway, book and complete, each a step. The gateway may pay back and lose
the answer. `AskGateway` is external. The idempotency service is taken at its
promise (reserving is atomic), so what is wrong here is wrong with a perfect
idempotency service too.

### 2.5 Idempotency and uploads

One key. `IdempotencyRows` has the statements on the table (insert, read,
take over, complete, fail), each a step; `Idempotency` and `UploadIdempotency` add
the Redis entry. A Redis command that is answered with an error may have had its
effect: the client gives up after 250 ms. Writes that the financial service does
not await (`createDbAsync`, `completeDbAsync`, `failDbAsync`) are in `writes` and
end in any order or never. Retention (7 days, 24 hours, 10 minutes) does not end
within a behaviour; the upload lease of 60 seconds may.

`UploadEngine` puts the upload under such a key: the original is stored, the row
committed, the key completed, and each may fail and start the cleanup of what
went before. Edits of a product attach and orphan assets from the lists they
have read; the sweep destroys the file of a row it has read minutes earlier.

### 2.6 PaymentWorkers

Each event has the job its receiving request leaves running, and each server
process a ticking worker. Reading an event, claiming it (`updateMany` with a
condition), verifying and writing the outcome are steps; so are those of a run.
`due` and `stale` are the clock: `nextRunAt` has come, the claim is two minutes old.
The Redis lock is never released, it ends (`LockEnds`), perhaps under a tick that
is still at work. A reconciliation run of a PhonePe payment
asks for a Cashfree order it does not have, so its verification always throws.

### 2.7 Sessions, tabs, phone numbers and accounts

*Sessions.* One session, whose token family is its own. `session` and `history` are the rows;
the transaction of `rotateRefreshToken` is its read (`RotateRead`) and its write
(`Commit`), because the read takes no lock and the write only names the id; the
unique hash in the history decides between two that have read the same token.
`local`, `fallback` and `redis` are the three places where a guard may find the
session alive: the map of `SessionCacheService`, the map of `RedisService` that
stands in when Redis fails, and Redis. `invalidateSessions` deletes from the last
two, of its own process; nothing calls `SessionCacheService.invalidate`. Every call
is served by the process `Home[c]`, and every `await` between a read and what is
done with it is a step boundary. `Fail` ends a call anywhere: an error, the rate
limit, a lost answer. The browser (`jar`) sends the cookie it has when the call
starts. Left out: `authz_version`, the 30 days of a session.

*TabSessions.* The client side: `auth-refresh.ts` with one refresh in flight per tab,
the Web Lock, the envelope in `localStorage` with a mirror in each tab, broadcasts and
timers; the server is reduced to what it answers to a token of a given age, and to the
answers that are no verdict on the token: an outage, a refusal of another kind
(`denied`: 429, 403), a body the client cannot read (`corrupt`). The last two clear
the session in the browser although it lives. `TabsDoNotRace` is claimed for browsers
with Web Locks, and says what the server answers, so it claims nothing of those; the
lock in `localStorage` that stands in for Web Locks keeps nobody out for certain. A
timer that was waiting for a refresh which a call had aborted is `lost`, not `off`.

*PhoneSignup.* Two flows of one number; texting the code is a step between two
statements; every place where the code asks whether something has run out is a
choice.

*Account.* One user. A call reads, hashes or asks Google, and writes later, and
sessions opened by a call that had verified its credential before it ended are
marked `late`: the property says that every other session of an ended credential
is revoked.

### 2.8 Storefront

*Onboarding.* Calls of two tabs and two admins read the state, the review and the
store and write later, in one transaction without locks. `astray` is the history of
one hazard: a step that was begun before a submission or a decision has written its
lifecycle over theirs, and the three rows have not been written together since.
*CatalogueEvents* has a relay and a consumer per process, with the circuit of
`RedisService`; entries of the stream are acknowledged whether they could be applied
or not. A query that fails while an entry is applied ends the loop over the batch
(`ApplyFails`): that entry is acknowledged, the rest was delivered and is applied by
nobody. A failing write of the outcome ends the relay's loop (`OutcomeFails`), whose
rows are read again. The stream itself is not lost. *CataloguePages* reduces the
database to the number of committed changes; a load reads, computes and stores under
the version it has seen. *PhotoQueue* is one mounted component and the one that was
mounted before; a handler runs to its next `await`, so that is what an action is:
files are looked at (`LookAt`) before they are added by the component in which they
were chosen (`Add`), mounted or not. The array `queueRef` is appended to and taken
from at its front: with attempts numbered in the order in which they are queued, it is
a set whose front is its least number. *SetupPage* is one page from its loading to its
submission. `completions` is the chain of promises that `completeCurrentStep` appends
to, `pending` the timer of the next draft save, `save` the one under way, `launch`
what `handleLaunch` waits for; `Due` says that a promise has been settled, and then
nothing else happens on the page. A request whose page has aborted it (`Left`) may
never have arrived, or goes on unheard. `drafts` and `committed` are the draft rows
and the tables that a completed step writes. `confirmed` is the history: what the step
showed when "Continue" was last pressed. The page has the store to itself; several
tabs are in `Onboarding`. Left out: the copies in `localStorage`, the upload of a
logo, and what a form or `validateLaunch` refuses, which is a request not made.

## 3. What the runs check

| Run | Question | Answer |
|---|---|---|
| `inventory` | *engine:* do counters, reservations, supply and ledger agree, does a version name its counters, are reservations settled once and in the end, does the engine implement `StockPool`? *counter:* does a closed session count its sales, but for one that crosses the adding up, and do the columns lag behind the engine by exactly those? *quotes:* do lines, discount and total agree to the paisa? | yes |
| `orders` | With two calls at once on an online order: do paid orders own their units, do closed ones hold none, are there no goods without money, is a payment in review only with no line sold to its order, is a refund owed on record? | yes |
| `order_contention` | An online and a COD order want the last unit, two calls at once on the online one: is money that was taken answered, if somebody goes on asking about the payment? | yes, but for a cancellation that crosses a call that takes the payment on |
| `order_retry` | Is a payment on the page of a second attempt processed? | no |
| `order_cancel_paid` | Is a paid order safe from cancellation? | no |
| `keys` | *`refunds`:* does a key pay back once, is nothing booked that was not paid back, is a replay of a refund that was made? *`money`, `uploads`:* are replays of executed requests, does an entry never mix two requests, is it ended only by its owner, do images in use keep their file? *`codes`, `number`:* does a request make one code, and is a number proven once? *`account`:* does an ended credential leave no session, does a deleted account stay deleted? *`tabs`:* is no tab refused for what another did, and does one that shows the session renew it? | yes, with the exceptions their definitions name: two crossings for images, what was begun before an end for credentials and a deletion, a lost answer and an aborted refresh for tabs |
| `refunds_booked` | Are all successful refunds in `refunded_paise`? | no |
| `workers` | Is an event verified by one at a time, given up only after enough tries, and final once settled? Is every Cashfree event settled in spite of crashes, every run without them? | yes |
| `workers_phonepe` | Is a PhonePe event taken up again when its first verification fails? | no |
| `sessions` | Do the tokens form one chain, does a refresh log out only a revoked session, is a revocation final, and is it known everywhere in the end? | yes |
| `storefront` | *`setup`:* is no step skipped, and do store, lifecycle and review agree but after a step that was overtaken? *`pages`, `events`:* is announced what is served, is recorded what is settled, and do the pages catch up? *`form`:* is what is submitted what was confirmed? *`photos`:* is an asset made of the file its photo shows, and does everything that waits move on? | yes, with the exceptions their definitions name |
| `onboarding_submission` | Is a submission idempotent, as the documentation says? | no |

### Properties in words

*Inventory.* `StockIsAccounted` relates the three counters of a row to the
reservations of all orders and to the supply: never oversold, and the underflow
branches of `confirmOrderStock` and `releaseReservations` are dead code.
`RecordsAreTrue` says that the ledger is what `reconcile` compares and that
`expectedVersion` is a sound check. `SettledOnce` and `DueReservationsSettle` are
about time: no late second decision, and a decision in the end. `PoolSpec` is the
refinement, with the available counter mapped into the pool. `CounterIsAccounted`
(which excepts the sale that crosses the adding up, `late`) and `QuoteIsExact` belong
to the counter and to prices.

*OrderPayments.* `GoodsFollowMoney` (a paid order owns its units, a closed one holds
none, no goods without money) and `OpenCasesAreTrue` (a payment in review has no
confirmed line, a refund owed is on record) relate the payment, the order, the
reservations and the gateway's own state, across calls that act on stale reads.
`AskedIsAnswered` is the liveness property of a payment: asking is enough. That
somebody asks is its hypothesis (`KeepsAsking`), not a promise of the code.

*Keys.* `KeyPaysOnce`; `RefundsArePaidBack` (no more is booked than was paid back;
that no less is booked is `RefundsAreBooked`, which fails); `ReplaysAreTrue` (a replay
is of an executed request; that it is of the same one is not covered, and
`ReplayIsOfSameRequest` is refuted for a row with another request's hash);
`EntryIsItsOwners`; `OfferedIsStored` (an image that a product shows, a replay names
or a client was given has its file, but for an asset that expired while an edit
attached it, `late`, and one whose key was completed by an update that reported an
error, `doubted`); `NumberIsProvenOnce`; `EndedCredentialsEnd` (but for the session of
a sign-in that had compared the old password, `late`); `DeletedStaysDeleted` (only a
link or a reset begun before the deletion revives the account); `TabsKeepSession`: no
token of a living session is taken for a stolen one unless an answer was lost
(`TabsDoNotRace`), and a tab that shows the session renews it unless its refresh was
aborted (`ShownIsRenewed`).

*Workers and sessions.* `EventsAreTriedInTurn`; `OutcomeIsFinal` (an update of the
outcome that PostgreSQL commits and reports as failed is not among the faults);
`WorkSettles` (events in spite of crashes, runs without them); `OneSuccessor`;
`ClearsOnlyRevoked` (a session that reuse detection has ended counts as revoked);
`RevocationIsFinal`, `RevocationTakesHold`.

*Storefront.* `SetupIsInStep`: no step is skipped (`RankIsEarned`), and store,
lifecycle and review agree unless a step was overtaken (`RowsAgree`, `astray`).
`RecordedIsKept` and `RecordedIsSettled`: the relay drops no recorded change until it
is delivered or given up; what a consumer drops after that is counted (`lost`).
`AnnouncedIsServed` (but for a version that is used again, `reused`) and
`PagesCatchUp`; `ConfirmedIsSubmitted` (but for a step reported as not saved, `told`);
`AssetIsItsFile` (but for a replacement that its component left behind, `crossed`) and
`WaitingIsOnItsWay`. The exceptions are the divergences of section 4.

### Bounds and why they are enough

* `inventory`: two orders, two variants, three units wanted where two are on the shelf
  beside a hold of the old engine, one variant without a row, one adjustment by -1 or
  1. Every pair of operations on a row is reached, with one order having two lines (so
  that all-or-nothing matters) and one having one. The proofs of section 5 remove
  these bounds for all safety properties, the refinement, the counter and the quotes
  among them. The counter has two sessions, two clerks and two receipts; quotes up to
  three items over three variants, whose prices (0, 1, 5, 19, 37 paise) make ties,
  remainders and zero lines; GST is 0, as in the code.
* `orders`: one order, two attempts, two calls at once. A call only meets rows of its
  own order, other than through stock. `order_contention` has the meeting in stock:
  two orders, one unit, two calls at once on the online order, so that a cancellation
  crosses the creation of the page. In the cfg the COD order is only placed
  (`CodCalls` is empty); with calls on it too the property held once, in 1,055,143
  states. `MaxAttempts` bounds the retries; the behaviour of a third attempt is that
  of the second (a second transaction row).
* `keys`: three refund requests, two keys, two amounts that fit the payment once but
  not twice, so that replays, retries and overlapping balances all occur; three
  operations with one key, two of them the same: a holder, its retry and an intruder;
  two uploads with one key, two editors and a sweep; two requests of one browser for
  codes, with one try for each code (two tries were checked once), and two browsers
  that sign up with one request and two tries; two calls on an account with two
  sessions, one reset and four credentials; two tabs with one message on its way, in a
  browser with Web Locks (also held once with and without in one run). (`Account` also
  held with three sessions, one reset and three credentials, and with two sessions and
  two resets.)
* `workers*`: `DlqAt` is 2 where the code has 8; what matters is that there are tries
  before the last. `MaxFaults` allows one crash or one tick that outlasts its lock,
  `MaxAttempts` stops the counters. `VerifyMayBeSlow` is FALSE in the runs: a
  verification (a few HTTP calls with timeouts of seconds) ends within the two minutes
  of its claim. Without that assumption an event may be verified twice and FAILED may
  replace PROCESSED (TLC refutes `OutcomeIsFinal` with it), which costs one more
  verification.
* `sessions`: two processes, two calls at once, three tokens. Two calls make every
  pair of handlers meet; a third token lets a refresh be overtaken by two others'
  exchanges.
* `storefront`: two tabs and two admins with seven calls; two processes (one of them
  with caches in memory), two changes, two announcements, one fault; one event with
  two tries and three mishaps (also held once with two events, so that a batch has a
  rest to drop, and one mishap, in 1,132,757 states); a form of two steps, one of
  which is completed whatever its draft's version, with two edits or completions,
  three requests and one fault, loaded after any of its steps (also held once with
  three edits, four requests and one fault, 8.4 million states); two photos, one of
  them from the server, three files, four attempts, one slot where the code has two: a
  queue that is longer than the slots is what matters.

The proofs of section 5 remove these bounds for all safety and action properties. What
a proof needs of a bound is in the assumption named there; `VerifyMayBeSlow = FALSE`,
and Web Locks for the tabs, are conditions of the theorems that are only true with
them.

`CHECK_DEADLOCK FALSE` stands where a system may come to rest (all orders settled,
all requests answered); the worker and session runs check for deadlock.

### Fairness

* `Inventory!Spec`: weak fairness of expiring a due reservation. The worker ticks
  every 30 seconds and takes what is due.
* `OrderPayments!LiveSpec`: calls end (weak fairness of `Abandon`: every request has a
  timeout). Nothing else is assumed of the customer, the gateway or any handler. That
  a payment is asked about again and again, and not every try is cut off at the same
  step, is the hypothesis of the property (`KeepsAsking`): nothing in the code
  guarantees it. The status page asks at a visit, a webhook once, a PhonePe event that
  failed is not taken up again and a reconciliation of a PhonePe payment always throws
  (2.6, finding 4). What the property shows is that asking is enough.
* `PaymentWorkers!LiveSpec`: weak fairness of jobs, ticks and time (`setInterval`,
  awaited promises), no fairness of a successful verification of an event (it may
  fail for ever, and the event is given up), strong fairness that a run that is
  asked for again and again does not stay unsettled for ever. Crashes are
  bounded and may come anywhere.
* `Sessions!LiveSpec`: a call goes on or fails, and entries of the three caches
  expire (60 seconds, and nothing prolongs them but a new read). Nothing is assumed
  of Redis: a DEL may fail for ever.
* `CataloguePages!Fairness`: loads end and entries run out. `CatalogueEvents!Fairness`:
  the relay and the consumers run at their intervals, and an open circuit closes.

## 4. Divergences

Listed as findings, each with a run that shows it:

1. `order_retry`: `confirmPaid` writes the gateway's id into every
   `phonepe_transactions` row of the payment; the column is unique, so with two
   rows no confirmation ever commits.
2. `order_cancel_paid`: a cancellation decided before a confirmation commits
   cancels the paid order.
3. `refunds_booked`: a refund is booked over the balance read at the start of its
   request, and one that was booked meanwhile is lost.
4. `workers_phonepe`: nothing looks for PhonePe events that failed.
5. `onboarding_submission`: a second submission that read before the first was
   decided takes an approved store back to pending.

Stated in the modules, refuted by TLC, and not listed as runs. To see one, put the
property into the cfg named and run it:

| Property | Where | What happens |
|---|---|---|
| `RowsHaveLedger` | `MCInventory.cfg` | `initializeCatalogInventory` selects from `inventory_items` in the statement whose CTE inserts the row: the snapshot does not hold it, and a new variant gets neither its ledger row nor its event |
| `AskedIsAnswered` without `Stranded` | `MCOrderContention.cfg` | a cancellation during the creation of the page leaves a cancelled order with a page that can be paid and a payment that can never be processed (PENDING_GATEWAY); so does one that crosses the report that the customer has left the page (USER_DROPPED) |
| `ReleasedIsTerminal` | `MCOrderPayments.cfg` | a transition from a stale status replaces FAILED or EXPIRED |
| `CancelledReleasesStock` | `MCOrderContention.cfg` with `CodCalls = {c1}` | a cancelled COD order keeps its confirmed units: `releaseOrderStock` takes ACTIVE ones only |
| `FailureHoldsLaunch` of `SetupPage` | constants of the form in `MCStorefront.cfg`, with `MaxEdits` and `MaxSent` 4, `MaxSlips` 0 | a draft save that the completion of its step aborted is carried out by the server, the completion is refused for its version and the merchant told "We could not save that step"; the completion of the next step sets `failedCompletion` to null (`useOnboarding.ts:472`), and the store is submitted with the step's old contents, although `:509` says "Finish saving the previous onboarding step before submitting." (what `told` in `ConfirmedIsSubmitted` excepts) |
| `InProgressIsAtWork` of `Refunds` | `MCRefundsBooked.cfg` | the retry of a failed refund under its key ends on the unique row of the first try, outside the `try`, and the key stays IN_PROGRESS |
| `ExecutesOnce` of `Idempotency` | constants of `MCKeys.cfg`, also with `RedisMayFail = FALSE` | a request that found no entry deletes the entry set since; both execute |
| `ExecutesOnce` of `UploadIdempotency` | constants of `MCKeys.cfg` | the retry of an upload that outlasted its lease uploads again |
| `ReplayIsOfSameRequest` | constants of `MCKeys.cfg` | `completeDbAsync` keeps the hash of the row it finds: after an outage the row may hold one request's hash and another's response |

Seen while modelling, in the behaviours of the modules, without a run of their own:

*Sign-in and sessions.* A logout that carries a token exchanged meanwhile by another
tab finds no session and revokes none, yet answers `LOGGED_OUT`; the refresh's answer
then brings cookies and envelope back, and is broadcast. A browser that never got the
answer of a refresh is refused with a race for ten seconds and then logged out by its
next one, as a reuse. `assignPlatformRole` starts to invalidate the caches before the
commit that revokes, so a guard in between caches the session again, for a minute at
most. An aborted shared refresh rejects the timer's `.then` without a catch, and that
tab's timer is never set again (`session-refresh-provider.tsx:79`). A refresh answered
429 or 403 (`auth-refresh.ts:322`), or 200 with a body that cannot be read (`:308`),
is taken as invalid and clears a session that lives; `TabsDoNotRace` claims nothing
against it. A tab's mirror survives another tab's logout, and `readSessionEnvelope`
falls back to it.

*Accounts.* `confirmPasswordReset` looks at `consumedAt` before its transaction
only: two confirmations of one token both succeed. A sign-in that had compared the
old password survives the reset. `changePassword` lists the sessions it ends
before its transaction, and writes a password on a row that was reset or deleted
meanwhile. `requestPasswordReset` begun before a deletion creates a reset after it,
and `linkGoogle`, which takes no notice of the status, sets it to ACTIVE: either
revives a deleted account. `recordFailedLogin` counts from a row it read before.
`confirmEmailChange` and the default flag of addresses are written without a
guard. These last are not modelled.

*Phone numbers.* Recording that a code was sent takes a flow back to `OTP_SENT`
after it was verified, and the sign-up is answered `PHONE_NOT_VERIFIED`; recording
a failed delivery overwrites VERIFIED. Two sends under different keys both pass the
cooldown. The hash of a start's key does not contain the number.

*Uploads.* When completing the key throws after the row was committed as READY,
the original is destroyed while a replay may name it. The sweep's inner time-out
marks a row cleaned whose file was not destroyed. Two edits of one product leave
an ATTACHED asset that no image uses and no sweep takes.

*Photos.* Two choices of files at once both count the free places before they look
at the files, and exceed the eight. A replacement that is still being looked at
when its component goes is applied to the draft all the same (what `crossed` in
`PhotoQueue` excepts). Unmounting aborts the requests but not the queue, which the
old component goes on working off; and a failed photo of the old component cannot
be retried in the new one, which does not hold its file. An attempt that was
aborted while the session was renewed is sent all the same, and its failure stops
the timer of the attempt that followed it.

*Workers.* A reconciliation run whose process stops stays in progress: nothing takes
it up again, and `WorkSettles` excepts it.

*Setup.* A late `completeStep` writes the lifecycle it has read and moves it back,
while store and review stay where a submission or a decision has put them (what
`astray` in `RowsAgree` excepts). A draft's `expectedVersion` is compared in a read
before the upsert, so two saves of one version both succeed (docs/api.md:35 promises a
conflict).

*Catalogue.* `products.service.ts:496` says that catalogue events are durably
enqueued; `recordCatalogChange` runs after the commit, and its errors are swallowed
(`:903`). The first announcement of a scope writes "1" with an expiry after its INCR
and may take a 2 back to 1. `invalidateStockSensitiveCaches` does not announce the
scopes of shop slugs. A consumer whose group is missing reopens the circuit at each
read. A database error while an event is applied acknowledges its entry and ends the
loop (`catalog-events.service.ts:201`): the rest of the batch has been delivered, is
not acknowledged, and nobody claims it. Store cards of the map are written back as
they were read.

*Counter.* A sale takes units from `product_variants`, which the next write of the
inventory engine overwrites
(`docs/product_variant_architecture_audit_2026-06-05.md:632` says the stock is
mirrored the other way only); closing a session counts the sales it has read;
receipt numbers are the last six digits of a clock and collide; no migration
creates the tables of the counter.

## 5. What is proved

The modules `*Proofs` are checked by TLAPS for every value of the constants that
satisfies the named assumptions of the modules. These say no more than what the
code fixes: finitely many orders with natural quantities and seeds
(`OrdersFinite`, `QuantityType`, `SeedType`, `BackfilledType`, `AdjustmentType`), a
shelf and a float that are not negative (`CounterType`), prices, quantities and a
rate of tax that are not negative, for variants with an order (`QuoteInputs`), finitely many refund
requests (`RequestsFinite`), for integer amounts of a payment of at least one paisa
(`RefundInputs`), at least one attempt, token,
credential, step, slot, file or try (`AttemptBound`, `SessionAssumption`,
`CredentialsAreBounded`, `OnboardingBounds`, `PhotoBounds`, `PhoneBounds`,
`WorkerBounds`), bounds that are natural numbers (`StorefrontBounds`), and names that
do not stand for something else (`KeyNames`, `WorkerNames`). A theorem of a sum
(`MCInventory`, `MCKeys`, `MCStorefront`) is about whichever of its parts a behaviour
is in.

All safety and action properties of the passing runs are proved, and the refinement.
What a property needs to be inductive is what the calls under way may
rely on: they act on what they have read earlier, so each invariant says, for each
point a call has come to, what still holds of what it read.

* **Inventory** (`StockInv`): the type invariant, the counters' relation to the
  reservations, the accounting of units, the ledger trail and the version's
  relation to the counters. No part is inductive alone: that a confirmation does
  not take a counter below zero needs the relation to the reservations, which
  needs the types, and so on. One lemma says what a write (`updateInventoryItem`
  with `createLedger`) preserves; each action is then a write with certain
  reservations moved. `TypeCorrect`, `StockCorrect`, `RecordsCorrect` and the action
  property `SettledStays` follow.
* **The engine implements `StockPool`** (`EngineIsPool`). The pool's claims are the
  reservations, its supply is `supplied`, and its counter of free units is the
  engine's `availableStock`, so that the theorem says of every step that the counter a
  checkout tests is what nobody claims. The pool claims and sells the lines of an
  order together, the engine's tables have a reservation for each line, so the
  invariant adds `LinesReserved`: an order has reservations for all its lines or for
  none. A release returns all the lines still held; an expiry is a `Lapse` of one
  line, archiving a `WriteOff` of one variant. Each action of the engine is then one
  step of the pool or none.
* **Counter** (`CounterInv`): the sum of a session that has been added up (`Tallied`) is
  no more than its float and sales, and falls short of them by no more than what is
  counted as late; a call about to close carries such a sum (`ClerkFits`). It stays
  one because every later sale is also counted as late. `CounterCorrect` follows.
* **Quotes** (`QuotesInv`): a quote is made in one step, so the work is in the
  arithmetic. `allocateByLargestRemainder` rounds each share down; what is left over,
  times the subtotal, is the sum of the remainders (`LeftOver`), so it is a natural
  number and no more than the lines that have a remainder (`LeftOverFits`). The lines
  of the first ranks are as many as that (`FirstRanks`: the ranks of a finite set
  are the numbers below its size), and so none without a remainder is rounded up
  (`RoundedUp`), which is why a share never exceeds its line and the shares make up
  the discount (`SharesAreExact`). `QuotesCorrect` follows for every cart.
* **Orders** (`OrdersInv`): the types, those of the stock, and for each order two
  facts. `StockFits`: the answers of the stock engine stay true (what was confirmed
  is sold, a released order holds nothing, nothing is sold without the
  confirmation). `OrderFits`: the rows of the order agree with each other, with the
  stock and with what PhonePe was paid for, and each call on it (`CallsFit`) may rely
  on what it read: a page is asked for once per attempt; a call that is about to
  write PAID has the stock's answer, which cannot be taken back; one that marks a
  late payment has found no hold; a merchant's move has seen a sold order.
  `OrderTypes`, `GoodsAreAccounted` and `OpenCasesHold` follow.
* **Workers** (`WorkersInv`): what a job read of the tries is no higher than the
  counters, and lower once it has claimed (`JobsFit`); one job claims an event at a
  time, unless verifications outlast their claims (`ClaimsApart`); what a failure is
  counted from is enough to give up by. `TriedInTurn` and `OutcomesAreFinal` are
  proved for `VerifyMayBeSlow = FALSE`, which the second needs: TLC refutes it
  otherwise. `NothingIsGivenUpEarly` holds in either case.
* **Refunds** (`RefundInv`): `TypeOK` with two facts about requests: one that is past
  its checks asks for no more than the balance *it has read* (`WithinBalanceRead`),
  which bounds what is booked although the balance may be stale; and the `refunds`
  row of a key names the one request that may have been paid for it
  (`RowNamesItsRequest`). `RefundTypeCorrect` and `RefundKeyPaysOnce` follow.
  `PaidInv` adds what is paid back: the balance a request has read has been paid back
  *without that request* (`Balance`), so that with its own amount it still has been,
  whatever was booked in between; the request that holds a key is the only one at
  work under it (`Holds`); a completed key holds an amount that was paid back.
  The sum over the requests is a recursive definition of the community modules;
  the lemmas of `FiniteSums` show that the function it defines exists and how it
  changes (`SumsExist`, `SumChanges`) by a smallest set on which they fail, which
  takes no induction. `RefundsPayBack` and, in the run, `KeysPayBack` follow.
* **Financial keys** (`MoneyInv`): whatever a record answers with is the response of
  an operation that was executed, and an entry is compared by that operation's own
  hash, which the row need not be. The writes of the row that nobody awaits are
  part of it, in any order. With the same of uploads this gives `KeysReplay`.
* **Uploads** (`UploadInv`): a record, and so a client, is told only of an upload that
  was answered or whose completion reported an error (`Answers`); the asset that an
  edit has read in the product has its file and is not being swept (`Kept`), and so
  has the one it is about to write, unless that one has expired since, and then the
  edit comes late (`EditFits`; `Spared` are the assets the property excepts).
  `KeysStore` follows.
  `KeysOwn` is the action property: only the owner of an entry ends it, because the
  scripts compare the owner in Redis.
* **Tabs** (`TabsInv`): with Web Locks one tab at most is between the lock and the end
  of its refresh, and holds the newest token, which the cookie has or an answer on its
  way brings; an idle tab waits for nothing, and one that shows the session has its
  timer set, or lost with an aborted refresh. `KeysKeepTabs` follows, with the
  exceptions of the property.
* **Phone numbers** (`PhoneInv`): the proof of a flow is a code of that flow which was
  texted; a sign-up from the check of the proof to its account holds the flow; flow
  and key name one code; the number has one account at most. `KeysProve` follows.
* **Accounts** (`AccountInv`). `EndedCredentialsEnd` speaks of sessions; what makes it
  inductive are facts about the calls that will write them. `FreshCredentials`: a
  sign-in on its way to a session has a credential that is still the user's, or is
  late. `ListedOrLate`: a change of password has listed every session but its own
  and those that came after, which is why revoking the listed ones is enough.
  `NamelessIsLate`: once the mail address is gone, what needs it was begun before.
  `ResetIsThere`: a confirmation holds a row that exists, so that the deletion finds
  it. `AccountTypeCorrect`, `AccountEndedCredentialsEnd` and the action property
  `AccountDeletedStaysDeleted` follow. `KeysTypes` joins the types of refunds, keys,
  uploads, phone numbers, accounts and tabs.
* **Sessions** (`SessionInv`) adds to the types and the chain what a call knows by the
  point it has come to (`Fits`): a call at its commit carries a token that was
  issued, so that, when the history does not hold it, it is the session's own
  (this is what makes the exchange extend the chain); one that takes its token for
  unknown has a different token or a revoked session; a refresh that clears
  cookies has revoked. `SessionTypeCorrect`, `SessionOneSuccessor`,
  `SessionClearsOnlyRevoked` and the action property `SessionRevocationIsFinal`
  follow.
* **Setup** (`SetupInv`): the rank a call has read was earned then, and stays earned,
  since no completed step is opened again; a decision on a review finds one that was
  submitted; a launch or decision writes all three rows, so that they agree until an
  overtaken step is written (`astray`), and before a submission no review is there.
  `StorefrontSetup` follows.
* **Pages** (`PagesInv`): every entry and every load under way is sound, that is, its
  version is not ahead of the one in force, and when it is that version the content
  is at least as new as what was announced, unless the counter has come back to a
  version in use. `StorefrontAnnounced` follows.
* **Events** (`EventsInv`): a row that is marked as published, or that a relay has
  added and not yet marked, has been delivered: it is in the stream, with a consumer,
  applied, or one of its entries came to nothing after the delivery (`Delivered`; that
  Redis keeps the stream is assumed); one call of `recordEvent` at most is on its way
  for a change, and only before its row is there. `StorefrontRecorded` follows.
* **Form** (`FormInv`): for a step of which the merchant was not told that it could not
  be saved, only the request of the first completion in the queue may write, with
  that completion's contents; the completions of a step bring contents no older
  than what is stored and than what those before them bring; and what was
  confirmed is stored or in the queue. A launch that has passed the queue has found
  it empty. `StorefrontConfirmed` follows.
* **Photos** (`PhotoInv`): an attempt belongs to one photo, and where a photo still
  waits for it, in the draft or in the component left behind, that photo shows its
  file; what the draft waits for from that component, the component waits for too;
  attempts queued and attempts under way are apart; a queue that is not empty has
  one under way. That the queue has a front at all is the well-foundedness of the
  naturals (`LeastNat`). `StorefrontAssets` and `StorefrontWaiting` follow, and with
  the four parts above `StorefrontTypes`.

Only model-checked, and why:

* Liveness: `DueReservationsSettle`, `AskedIsAnswered`, `WorkSettles`,
  `RevocationTakesHold`, `PagesCatchUp`, `RecordedIsSettled`. TLAPS 1.4.5 has no
  `ENABLED`, so nothing follows from fairness.
* The runs that expect a violation: a counterexample is its own proof.

## 6. Running

    tlc -config MCInventory.cfg MCInventory
    tlapm InventoryProofs.tla

and `tlapm` in the same way with `FiniteSums.tla` and each module `*Proofs.tla`; `KeysProofs`,
`OrderPaymentsProofs` and `StorefrontProofs` take several minutes each.

| cfg | module |
|---|---|
| `MCOrder*.cfg` | `MCOrderPayments` |
| `MCRefundsBooked.cfg` | `MCRefunds` |
| `MCWorkers*.cfg` | `PaymentWorkers` |
| `MCOnboarding.cfg` | `Onboarding` |
| `MCInventory.cfg`, `MCKeys.cfg`, `MCSessions.cfg`, `MCStorefront.cfg` | the module of the same name |

## 7. Plan

Done: the modules of section 2 and the proofs of section 5. Next, in this order:

1. The lock orders of archiving against release and confirmation (deadlock), with
   the retries of a transaction.
2. Sign-in: the e-mail sign-up, the counters that lock an account, the change of
   the mail address; composed with `Account`.
3. Addresses and their default flag.

## 8. Not modelled, and why

* *Discovery and shop pages* beyond the page cache: queries and a ranking over
  read models, with no state that several actors change. The store cards of the
  map follow the same path as the pages.
* *Mail, audit, observability*: I/O, no decision depends on it.
* *Payment settings*: rows of one store, written by single statements; encryption
  and signature checks are outside what this project states.
* *Gateway and service clients*: HTTP. They appear as the answers they may give, or
  not give, in `OrderPayments`, `Refunds`, `PaymentWorkers` and `UploadEngine`.
* *The Cashfree order flow* cannot be entered from checkout.
* *Web pages and forms*: they appear as repeated calls. What browsers share
  (session, tabs) and what a component keeps across awaits (photo queue, form of
  the setup) is modelled.
* *E-mail sign-up, lockout counters, change of the mail address, addresses,
  documents and bank details* of a store: next in the plan.
* *Upload semaphore, renditions, rate limits, the local fallback of Redis commands*:
  they refuse or degrade, and a refusal is the failure of a call, which the
  models have.
* *Reads*: carts, lists, dashboards, reports, and `reconcile`, which only compares.

The modules map about a ninth of the repository's lines. The rest is mostly
views and forms of the web application, DTOs and validation, queries and their
mapping to responses, where nothing happens between two actors.
