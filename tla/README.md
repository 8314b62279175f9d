# A verification project for the SOLDIUM dashboard

The dashboard is a FastAPI application that administers a Telegram shop for
social-media services. It shares one SQLite database with the bot, which places
orders, opens deposits and withdrawals, and follows orders at the providers.
This directory holds TLA+ modules that model the parts of the dashboard which
move money, run in the background or decide what is sold, the TLC configurations that check them on
small instances, and proofs checked by TLAPS.

    tlc -workers 2 -config MCPayments.cfg MCPayments.tla
    tlapm PaymentsProofs.tla            (and Sums and the other *Proofs modules)

## 1. Inventory

| component | state | operations | what is hard | what makes it correct |
|---|---|---|---|---|
| Wallets: `users.py` | `users.balance`, `total_spent`, `referral_*` | adjust a balance, change a level | every other financial transaction writes the same columns | no column negative; each movement has one cause |
| Deposits, withdrawals: `deposits.py`, `withdrawals.py` and routers | `deposits`, `withdrawals`, `deposit_transactions` | approve, reject | the row is checked before the transaction that decides it; the bot decides the same rows; the message follows the commit | decided once, paid once, told truthfully |
| Order status: `orders.py` | `orders` (status, refund, commission) | `update_order_status` with refund, referral payout and its reversal | stale reading; SQL guard weaker than the check; payout in a second transaction whose failure is swallowed | refunds whole and once; commissions once |
| Manual orders: `manual_orders.py` | the same rows, `provider_order_id` | complete, reject, notify | check, decide, submit, store, tell: five awaits | one decision; a rejection is the end |
| Scheduled orders: `scheduled_orders.py` | `scheduled_orders`, `scheduled_order_runs` | create, pause, resume, stop, delete, run now, the worker | concurrent runs of one job; failures at each of five awaits; administrators in between | one active order per link; failures take a job out; due jobs run |
| Active-link guard: `utils/active_link_guard.py` | none (a query and an index) | look up, insert | check and insert by concurrent runs | one active order per link |
| Broadcasts: `broadcast*.py`, `timed_announcements.py`, `message_deletions.py` | jobs in memory, `timed_announcements`, `scheduled_message_deletions`, `pending_notifications` | start, send, flush, complete, fail; announce, stop, expire; fetch, delete, forget | parallel sends over one buffer; a job dies with the process, its rows do not | one exclusive job; no sent message without its row; rows are worked off |
| Alerts: `admin_alerts.py`, `admin_notifications.py` | `admin_alerts`, `admin_notifications` | scan, tell, dismiss, mark read | scans overlap and write what they read earlier; a scanner that fails finds nothing | told of each alert no oftener than scans overlap; the table follows the conditions |
| Catalog tree: `catalog_core/service.py`, `repository.py` | `soldium_catalog_entries` | create, move, reorder, archive, restore | long sequences of requests from old pages; siblings with equal places | a forest; a complete menu; an order only its editor changes |
| Catalog publication: `publication.py`, `readiness.py`, `storefront_projection.py` | services, prices, sources, `soldium_catalog_publications` | edit, preview, publish, republish, unpublish | what is confirmed was previewed in an earlier request | what is published is what was shown |
| Catalog providers: `provider_*.py` | snapshots, `soldium_provider_service_mappings` | discover, map, end, preview, apply | stale pages; a network call inside a transaction | one mapping per item and service; what is applied was confirmed; the lock is given back |
| Legacy services: `smm_services.py`, `legacy_migration*.py`, `legacy_write_through.py` | `smm_services`, `soldium_catalog_legacy_bridge` | import, write through, edit, synchronize | a plan read before the transaction; two writers, one of which does not know the other | a difference never comes from the catalog |
| Analytics, statistics, activity | none | queries | none | read only |
| Routing, authentication, configuration, UI | sessions | requests | repeated clicks | enter the models as concurrent requests |

The components meet in the database. The modules of the program write the same
tables, without locks beyond SQLite's: a `db_transaction()` is
`BEGIN IMMEDIATE ... COMMIT`, so transactions are serial, and everything a handler
reads before its transaction may be stale inside it. A plain `get_db()` opens the
database in autocommit: each statement on it is a transaction of its own, `executemany`
one per row, and the `commit()` at the end does nothing. All the interleavings in
the models come from that, and from the awaits between transactions, network
calls and messages.

## 2. Modules and code

`Wallets` (users.py) declares the money columns and the operators every
transaction uses: `Credited` for `SET c = ROUND(c + ?, 6)`, `Floored` for the SQL
floor. `AdjustUserBalance` and `ChangeUserReferralLevel` are its handlers; `Covers`
is the `WHERE (balance + ?) >= 0` of the first.

`Payments` (deposits.py, withdrawals.py and their routers) extends Wallets.
`row` holds the deposit and withdrawal rows, `credits` the `deposit_transactions` of
each deposit, `notices` what the dashboard has told about each item, `task` what each
request carries across its awaits. A request is `Begin` (the reads and checks),
`Commit` or `AlreadyProcessed` (the transaction, guarded by `status = 'pending'`)
and `Notify`; `Fail` ends it anywhere (locked database, failed read after the
commit, cancellation) and `Restart` ends all of them. The bot creates rows, holding
a withdrawal's amount, and decides them with the same transactions, which the
docstrings of the dashboard say they mirror.

`Settlement` is what that component promises without requests, reads, races
and restarts: an item is opened, then settled or refused, and in the very step in
which its state changes its account receives the change of its effect.
`Payments!ImplementsSettlement` is the refinement: `stateMap` reads the item's state
off its row, `effectMap` what it has added to the account (a pending withdrawal is a
negative effect), `accountMap` the two columns of every user.

`Orders` (orders.py) extends Wallets. `edit` is a status-change request:
`ReadOrder` (the reading, and what it refuses), `CommitStatus` or `RefuseStatus`
(the transaction; `Commits` collects the checks and UPDATE guards of its branches,
those on the stale key and those on the row), then `TryPayout` or, on the
swallowed database error, `SkipPayout`. The word `cancelled` stands for the aliases that
`normalize_order_status_key` maps to `canceled` and the SQL lists do not. Orders are
placed and followed by the bot.

`ManualOrders` (manual_orders.py and its router) extends Orders and reuses its
actions for the status change. `manual` carries the endpoint: checked, updating
(the steps of `edit`), reading the order back, submitting, persisting, notifying.
`submissions` counts on the distributor's side how often an order was accepted, the
number it gives is the count, and `processed` and `notices` are histories.

`ScheduledOrders` (scheduled_orders.py) stands alone. `run` is what each runner
(the worker, or a run-now request) carries: hold, submit, persist, record, mark.
Time is one bit per job, whether `next_run_at` has passed: `TimePasses` sets it and
the marks clear it. A run is named by its number, which also names its order. `ctl`
carries a pause or a resume between its reading and its UPDATE.

`Broadcast` (broadcast*.py, timed_announcements.py, message_deletions.py). A message is
the pair of its job and recipient. `jobs` and `exclusive` are `_jobs` and
`_running_exclusive`; `pc` is where `_send_one` stands for each recipient, `buffer` the
list the sends share and `writing` the batch a flush has taken from it while it holds
the lock; `rows` and `noted` are the two tables the batches go to. `work` is the
deletion worker's fetched batch. Histories: `acked`, the messages Telegram
acknowledged, and `tried`, those it was asked to delete. `Restart` forgets
everything but the tables and announcements. The writes are in autocommit: `FlushRow` and
`LastRow` store one row each, and a failure keeps the rows before it; an announcement is stopped in
two steps, `BeginStop` (the check) and `EndStop` (the UPDATE by id), with anything between. That
`ends_at` has passed is noticed by whichever operation expires announcements next
(`Expired`, any subset of the active ones).

`AdminAlerts` (admin_alerts.py, admin_notifications.py). A scan is a loop or a
request: `StartScan`, one `RunScanner` for each of the eight scanners, then the upsert
statement by statement, since it runs in autocommit: for each alert found `PutAlert` (the
INSERT), `ReadAlert` (the SELECT of `telegram_notified`) and, if it is 0, `FlagAlert`
(the UPDATE that sets it), at the end `ResolveRest`; then `Tell` and `RecordNotice` for each
message. `UpsertFails` may end it after any statement and undoes none. The scan's
record says which statement is next: `put`, `row`, `flag`, `tell`, `sent`. `told` counts
messages made; `unread` the unread inbox rows. The tables the scanners read are abstracted to
whether an entity meets a scanner's condition, and change between any two
scanners. Orders, withdrawals, accounts and services change freely.

`CatalogTree` (service.py, repository.py). An entry stands for its row and its node
or service; `Precedes` is `ORDER BY sort_order, id`, with numbers for the random
ids. A request is one step, since `catalog_transaction` is one `BEGIN IMMEDIATE`.
`Kept`, `MenuSections` and `MenuItems` are the customers' menu (storefront_gateway.py): a
walk up from what is on sale and a walk down through what that kept. Which of two services
in a section comes first is a matter of `sort_order` for both readers; ties are broken by
entry id for the administrators and by name for customers, so OthersKeepTheirOrder speaks of the order
`Precedes` for the former and of the numbers for the latter.

`CatalogPublication`. `page` is what an administrator's page shows and will
send back: the expected fingerprint, or the expected source and the mapping. `event`
and `published` are the latest publication row and the latest one of type publish;
`Storefront` is the projection, which reads the current content of what is
published. `lock` is SQLite's write lock while a discovery awaits the provider: a
request that runs into it blocks the event loop until the busy timeout.

`LegacyBridge`. `row` is `smm_services`, `svc` the services with a bridge under the id
of the bridge's row, `plan` the migration between its reading and its
transaction. `SyncFromProvider` is one synchronization with any set of offers.

The catalog modules do not extend each other: their requests meet in one table of
services only through single transactions, and each module lets the others'
edits happen at any time (in CatalogPublication a section is moved or renamed
freely, in LegacyBridge a source changes by whichever of the two ways there are).

The `MC` modules give the constants values for TLC. Comments that begin with
"Mutant:" mark variants of the operator that follows them, each a plausible bug
of the code there; a property is only kept if TLC finds it violated when the
operator is replaced by such a variant.

## 3. Runs

| run | instance | states | what it shows |
|---|---|---|---|
| payments | 2 users, a deposit, a withdrawal of each kind, 2 requests, amounts 1 and 2, adjustments of +1 and -1 | 280 thousand | the money, the ledger, the messages, finality, and the refinement of Settlement |
| orders | 2 orders of one customer on one link, a referrer, 2 requests, statuses in progress, completed, partial and cancelled | 2.3 million | refunds and commissions are whole, paid once and reversed whole; refunded rows are final |
| manual_orders | 2 manual orders, one submittable, 2 requests | 1.3 million | each decision commits at most once; a rejection is the last; customers only hear of stored numbers |
| scheduled_orders | 2 jobs on one link, the worker, a run-now request, one pause or resume in flight, 2 runs, 2 disturbances | 2.0 million | link guard, failure limit, every hold accounted for, run counts, and that due jobs are handled |
| broadcast | 2 users, an announcement, 2 jobs (mass, timed or private), batches of 2 and 1, one fault | 1.3 million | one exclusive job; every acknowledged message is accounted for; the exclusive kind is released and rows are worked off |
| admin_alerts | one order, withdrawal, account and service, the loop and a requested scan, 2 events (changes, failures, restarts) | 1.1 million | messages are only made of marked alerts, no more of one than scans overlap; the table comes to show the conditions there are |
| catalog_tree | up to 4 of 3 sections and 2 services, ids alternating | 67 thousand | no entry is hidden, nor a service on sale from the menu; a request moves one entry only |
| catalog_publication | 2 services, 2 sections, 2 titles, 2 items, one open page, 4 edits | 1.6 million | what is published or applied is what the page showed; mappings are one-to-one; a discovery ends |
| legacy_bridge | 2 placed rows, 2 offers with their stubs, 2 accounts, 2 prices and none, 2 changes | 326 thousand | only the old page and synchronizations make a row differ from its service |
| scheduled_stopped | scheduled_orders without pause and resume | | a stopped job comes back to life when the run under way fails |
| manual_once | as manual_orders | | an order is completed and then rejected |
| manual_rejected | as manual_orders | | a rejected order is submitted to the distributor |

Bounds, and why they are enough. Races in this code are between two parties
over one row, so two requests beside the bot produce every order of their reads
and transactions, and a third would only repeat the part of one of them. Two
orders (or items, or jobs) show whether a step touches the wrong one; they
share a customer, an account or a link so that they can disturb each other. Amounts are
chosen so that every guard goes both ways: the opening balance does not cover
every withdrawal, a partial refund is half the price, commissions at levels 1 and
4 differ. `MaxAdjust` bounds what is adjusted by hand, `MaxSubmissions` the
submissions of an order, `MaxRuns` the runs ever started, `MaxDisturbances` the
administrator commands, locked databases and restarts together. ScheduledOrders'
`MaxFailures` and `BatchLimit` are the code's constants (3 and 20) at smaller values: 2 failures
are reachable within two runs, and a batch of 1 makes the second due job wait.
In Broadcast, `FlushEvery` (40) is 2 and `Batch` (the worker's) is 1: with two
recipients a batch fills exactly, is left over half full, or is taken by one send while
another appends. `MaxEvents` of AdminAlerts
bounds changes, failures and restarts together: two raise a condition and lower it again,
raise two, or raise one and let the scan that marked it fail. In CatalogTree three sections are
enough for a loop that a check of one level misses; `MaxEntries` (4) admits three sections with a
service, or two services that tie, one of them archived in between, and a section or two to be moved past
them, with ids that break ties both ways. `MaxEdits` of CatalogPublication counts edits and successful
discoveries: four suffice to map, price, source and publish a service and change
it while a page is open; one page is enough since what other administrators do
reaches it as edits and publications without a page. `MaxWrites` of LegacyBridge
counts changes of rows and services after any initial rows: two make a row drift
and then change its service, with imports, which are not counted, before and
between.

Requests are symmetric, and so are the two orders of run orders; run
scheduled_orders, which checks liveness, uses no symmetry. The rows, accounts, limits and
prices of legacy_bridge are symmetric; the other catalog runs use no symmetry, and
broadcast, admin_alerts and catalog_publication check liveness.

Deadlock is not checked because these systems may stop: every row may be decided,
every order refunded, every bounded run used up. It is checked in admin_alerts, catalog_tree
and catalog_publication, where something can always happen.

Fairness. ScheduledOrders assumes it only of the worker, `WF_vars(WorkerStep)`. The worker's loop has no exit but cancellation, its sleep is
bounded, provider calls have a timeout of 120 seconds in all and a database access
gives up when locked, so each of its awaits ends. Nothing is assumed of
administrators, of time, of the bot or of a retry. `DueJobIsHandled` says that a
job that is active and due is eventually run, advanced or taken out of service.
Disturbances are finitely many, and `ORDER BY next_run_at` is abstracted to any batch
of the right size: administrators who for ever make other jobs due could starve a
job under the abstraction, which the bounds on disturbances and runs exclude.

Broadcast assumes it of each job's task, of each send and of the deletion worker:
they await only Telegram, whose requests time out and whose 429 answers are
retried five times, and the database, which gives up when locked. AdminAlerts assumes it
of the loop, which catches every failure, and of no requested scan. CatalogPublication
assumes that SQLite's busy timeout passes (`WF_vars(BusyTimeout)`) and that the
provider's answer or its timeout is handled: strongly, `SF_vars(ItemsFound \/
DiscoveryFails)`, because requests that run into the lock keep disabling it; between
two of them the event loop always runs, and a finished await is next in its queue.
Faults are bounded, so the liveness properties say what happens once failures cease.

### What the violations show

- scheduled_stopped. `_mark_run_failure` writes the status of the job without
  looking at the one it has. Run now, hold fails, stop, failure marked: the job is
  active again. The code calls stopping permanent in two messages.
- manual_once. Complete and reject check for `pending admin` before the
  transaction; the transaction only refuses refunded rows. Both answer success.
  Note that NoDoubleProcessing and RejectionIsLast hold: the order cannot be
  completed twice, rejected twice, or completed after the rejection, and the
  refund is whole.
- manual_rejected. No race is needed: rejecting an order that has a frozen
  provider identity and no number refunds it and then submits it, because the
  message wants a number. For an order without a frozen identity the rejection
  commits and is answered with 503, and the customer hears nothing.

Other disagreements met while modelling, which are no findings because nothing in
the repository promises the opposite of a single behaviour:

- A timed announcement is stored as active before its job is created; when another
  broadcast is running the administrator is told 409 and the announcement stays
  active (broadcast_tasks.py:122).
- An alert is marked as told before its message is sent: when a later statement, the
  process or Telegram fails, nobody is told of it any more (admin_alerts.py:246).
- `telegram_notified` is read and set by two statements that commit one by one
  (admin_alerts.py:223-249). Two overlapping scans, the one at start and the loop for instance, may
  both read 0 and both tell, although `_upsert_candidates` is said to "return newly created
  candidates that need Telegram". In the run both messages are reached; ToldOncePerScan says it goes
  no further.
- Stopping an announcement updates it by id after the check, so that one that expires in
  between is stored as stopped (timed_announcements.py:259).
- The customers' menu breaks ties of `sort_order` by name (storefront_gateway.py:413), the
  renumbering that a move or a reordering does by entry id. Two services that share a number may
  therefore change places for customers when a third entry is moved beside them.
- `publication.py` counts a published draft as eligible for customers; the projection
  requires an active service. A published service that is archived and
  restored is served again without being published again.
- `discovered_at` of a snapshot has whole seconds and ties are broken by random ids,
  so that of two discoveries within a second either may be the latest.
- `legacy_write_through.py:199` calls the catalog's source authoritative; a
  synchronization overwrites the account of a bridged row all the same. Saving the
  same price or source again does not repair the row, since an unchanged value is
  answered without writing.

One more property is stated and not run: `Orders!RefundedKeyIsFinal`. An
order stored as `cancelled` is refunded in every respect but passes the SQL guards of
requests that read it earlier, which then set another status. OrderBooks and
RefundedIsWhole show that no money is refunded twice even so.

## 4. Proofs

Every safety invariant and every action property of the passing runs but one
(`OthersKeepTheirOrder`) is proved for every value of the constants, and so is the
refinement; PROJECT.json lists the theorems. The proofs are in one module per component,
except that `OrdersProofs` also holds those of ManualOrders, which extends Orders, and
`MessagingProofs` those of Broadcast and AdminAlerts. `Sums` holds the lemmas about
sums they share.

| module | proves | inductive invariants |
|---|---|---|
| PaymentsProofs | PaymentsTypeOK, OneLedgerRowPerApproval, HonestNotices, DecisionsFinal, PaymentsBooks, ImplementsSettlement | `IInv`, and the books beside it |
| OrdersProofs | OrdersTypeOK, OrderBooks, ReferralBooks, RefundedIsWhole, RefundIsFinal, CommissionStays, MoneyFollowsOrders; ManualSpec => OrdersSpec, ManualTypeOK, RejectionIsLast, NoticesAreStored, NoDoubleProcessing | `OrdersInv`, `ManualInv`, `OnceInv` |
| ScheduledOrdersProofs | TypeOK, ActiveBelowLimit, OneActiveOrderPerLink, RunsAccountFor, RunsCounted | `LimitInv`, `RunsInv` |
| MessagingProofs | BroadcastTypeOK, OneExclusiveJob, CompletedIsAccounted; AlertsTypeOK, ToldOncePerScan | `KindInv`, `DeliveryInv`; `AlertsInv` |
| CatalogTreeProofs | Forest, MenuIsComplete | `Forest` |
| CatalogPublicationProofs | CatalogTypeOK, PublishedAsPreviewed, SourceAsConfirmed | `PubInv` |
| LegacyBridgeProofs | BridgeTypeOK, DriftComesFromLegacy | `BridgeInv` |

The invariants were checked by TLC on the instances of the runs before they were
proved.

### Sums

The books are statements about sums over arbitrary finite sets. The library's induction
theorems cannot be instantiated by the provers, and its folds are defined by
recursion over a chosen enumeration. `Sums` therefore defines `Sum(f, S)` by a table: a
function from the subsets of S to numbers whose every value is that of the set without one
chosen element, plus that element's. `MapThenSumSet` of the community modules is the same
table once its definitions are expanded. That every finite set has a table, and only one, is proved
by a smallest counterexample instead of by induction (`Smallest`: of a nonempty set of subsets of
a finite set, here those that violate a statement, one has no other member below it). The
lemmas the components use are `SumUnfolds`, `SumMoves` (one summand changes, the sum changes by as much) and
`SumCovers` (a sum of naturals is no less than each of them). Orders, items and jobs
are therefore assumed to be finite sets, which rows of a table are.

### Payments

`PaymentsProofs` proves, for any sets of users, deposits, withdrawals, requests and
amounts, every property of the run payments:

- `TypeCorrect`, `LedgerCorrect`, `HonestyCorrect`, `BooksCorrect`: the four invariants;
- `FinalityCorrect`: decided rows never change;
- `RefinementCorrect`: `PaymentsSpec => ImplementsSettlement`.

The assumptions are those of the modules: deposits and withdrawals are
disjoint, every item has an owner, referral withdrawals are withdrawals, amounts
are positive naturals, the opening balances are naturals.

The inductive invariant is

    IInv == PaymentsTypeOK /\ OneLedgerRowPerApproval /\ HonestNotices /\ CommittedAlone

The first two conjuncts are inductive by themselves: a credit is never negative,
a debit is guarded by a comparison in the same step, and both the ledger and the
row are written by the step that approves. HonestNotices is not: the message is
sent two steps after the row was read, and that it agrees with the row and is the
first one needs `CommittedAlone`. It says of a request that has committed and not
yet told the user that the row holds its verdict, nobody has been told, and
no other request has committed on that row. It is preserved because a row leaves
`pending` once: a second request, or the bot, finds the guard of its UPDATE false.
`DecisionKeepsNotices` is that argument; `ApplyDecides` and `ApplyType` say what a
decision does to the rows and the columns; `CreditedNat` and `DebitedNat` are the
arithmetic.

The refinement is proved step by step. `EffectByKind` and its primed form read effects
off rows, `RowGoverns` says that an untouched row keeps its state and effect,
`AccountMoves` that a credit of the column an item uses is one of its abstract
account, and `MoveImplemented` puts them together. Decisions, openings and
adjustments are then abstract steps and everything else is a stutter.

PaymentsBooks follows from what the refinement's lemmas say of one step: it changes the effect
of one item and, by as much, one column of the item's owner.

### Orders and manual orders

`OrdersInv` is the types, the rows (`RowsOK`), the requests and both books. The
books have to be in it. The code subtracts under an SQL floor, `MAX(0, c - x)`, from
`total_spent` and from the referrer's two columns. A step only moves such a column by what it changes
in the order if the floor does not cut, and it does not cut because the column is a sum
in which the order's own part is a summand (`SumCovers`). So neither RefundedIsWhole nor the
books can be proved without the other. RefundIsFinal rests on the guard of
each UPDATE, not on what the request had read.

`ManualImplementsOrders` proves that ManualSpec implies OrdersSpec: its requests
do to wallets and rows what status changes and the bot do, so OrdersInv holds in ManualOrders
without a second proof. `ManualInv` adds that a request in its update carries the status of its
operation (`RequestOK`), and RejectionIsLast and NoticesAreStored, which are inductive with it.

`NeverProcessedTwice` has a hypothesis: the plain status changes that interleave with the endpoints
lead to completed or to a refunded status. Without it NoDoubleProcessing is
false of this code, and rightly: an administrator may set a completed order active again with
`update_order_status`, and complete it again. The run makes the same choice of statuses. That a
rejection commits at most once needs no hypothesis, since RejectionIsLast does not have it.

### Scheduled orders

`LimitInv` adds to the types that jobs not yet created count nothing, and ActiveBelowLimit itself: a
failing run writes the status together with the counter, in one transaction that reads the counter
again, and resuming resets it, so an active status never meets a full counter. `OneActivePerLink` rests on one fact about every step: orders of other runs
stay as they are or become inactive, and the one step that makes an order
active has looked at the link in the same transaction.

`RunsInv` says where an order is: no order of a run that has not begun (`OrdersKnown`), what each
runner carries agrees with the order and the log (`RunsOK`, `RunOK`), only a begun run
is broken (`BrokenKnown`), a log holds begun runs and is of an existing job (`LogKnown`), and every order is in a log, with
a runner, or of a broken run (`OrdersAccounted`). RunsCounted is inductive with it and is an equality: `runs_count` is the number
of logged successes whose runner has gone on from recording and was not
broken between `_record_run` and `_mark_run_success`.

### Broadcasts and alerts

`KindInv` says who holds the exclusive kind (`KindKept`): the set is nonempty exactly while a mass
or timed job runs, one at most, and then names its kind. `DeliveryInv` counts: the `sent` and `failed` of a
job in the table are the numbers of its tasks that are done (`JobCounted`), and every message that
Telegram answered for is still with its task, in the buffer, in the batch being
written, in a table, or tried, unless a task of the job has raised, or a database error took a message
that was only to be noted (`MessagesKept`).
Completion requires all tasks done and both lists empty, and only the tables are left.
Flushes are serialized by the lock, which is what makes the counters add up.

`AlertsInv` follows an alert's messages (`Once`). A scan holds a message of an alert from the SELECT
that found it not notified until the message is made (`Holders`). As long as the alert is not marked,
nothing has been told and no scan is past its UPDATE, so what can be held is bounded by the number of scans; once
it is marked no SELECT finds it new, no scan takes up another message, and each message made is one held
less. The sum of messages made and held therefore never exceeds the number of scans, and since no step
clears the mark this is for ever, however often the condition returns. `AloneToldOnce` is the case of
no scan but the loop's: one message at most. Assumed: the entities and the scans are finitely many.

### Catalog

`CatalogTreeProofs` proves `TreeIsForest`: `Forest` for any sets of ids of sections and
services. `Forest`, which includes the types of the tables, is inductive. The only
step that could close a loop is the move of a section, which the code guards by
collecting the section's descendants. `NoLoop` says that no group S of
sections hangs from itself alone; after the move it follows from `NoLoop` before it,
applied to what is left of S without the moved section's descendants: the new
parent is still in it, since it is not a descendant, and so is the old parent of
everything in it. Assumed: the ids are numbers other than the root's, and those of
sections and services are disjoint (`TreeAssumption`). `MenuShowsEveryService` follows for
`MenuIsComplete`: of the sections above a service on sale that the walk down misses,
`NoLoop` gives one whose parent it reaches or which is at the top, and since all of them
are kept and live it reaches that one too.

`CatalogPublicationProofs` proves `TypesCorrect`, `PublishesWhatWasShown` and
`AppliesWhatWasShown`, for any sets of services, sections, prices, items and administrators
and any bound on edits. The inductive invariant is

    PubInv == RowsOK /\ MappingsOK /\ HistoryOK /\ PagesOK

MappingsOK holds the one-to-one mappings, the history that a service was
published exactly when its latest publication says so. PagesOK is what the action
properties need: the mapping an open page names still joins the service and the item the
page showed, because mappings are ended and never rewritten. With it, the
comparison the transaction makes with the current source is enough, although it
does not compare the service or the item. That publishing is faithful needs no
more than the fingerprint, which stands for the content.

`LegacyBridgeProofs` proves `BridgeTypesCorrect` and `CatalogNeverDrifts`, for any rows,
offers, accounts, prices and limits. `BridgeInv` adds PlanOK to the types: the plan of
a migration holds rows that were active, placed and priced when it was read, so
that what is imported agrees with a row that has not changed since. The
other steps that change a service each write some fields on both sides, which then agree,
and leave the rest alone on both sides; `UpdateDrift`, `PriceDrift` and `SourceDrift` say
so field by field. Assumed (`BridgeAssumption`): every offer has a stub id of
its own that is no row's, and `None` is none of the values it stands beside.

### Only model-checked

- Liveness under fairness (`DueJobIsHandled`, `ExclusiveIsReleased`, `DeletionsAreTried`,
  `AlertsFollowConditions`, `DiscoveryEnds`), which is out of the prover's reach.
- `OthersKeepTheirOrder` of CatalogTree: the lists of siblings are made by `SetToSortSeq` and
  `IndexFirstSubSeq`, whose values for every finite set need an induction over the set.
- The violations: they are counterexamples.

## 5. Not modelled

- Floating point. Amounts are naturals and `ROUND(..., 6)` is exact on them.
- Data without control: texts, link normalization, pagination, the activity logs,
  status notes of manual orders, prices and quantities of scheduled runs (the hold
  succeeds or fails), the seed and demo service check.
- Requests whose checks refuse them change nothing and are stuttering steps.
- A referral withdrawal together with the reversal of the commission it took:
  Payments and Orders are checked apart, so the floor of the reversal never cuts.
- The administrators' scripts `catalog_core/phase9*.py`, `order_contract_*` other than the
  republication, and the audits and reconciliation reports: they repair rows named in
  their source once, under hard-coded counts and fingerprints, or only report.
- The storefront's gateway but for its menu, the adapter, shadow comparison and hybrid pilot: they choose
  between the legacy and the catalog's reading of services by configuration, compare
  them, and change nothing of the catalog.
- Providers and accounts of the catalog stay: what happens to a source whose
  account is deleted is left out, as are review notes and statistics of snapshots.
- Services without a bridge write nothing through. The rounding of prices between
  the two tables is exact at the catalog's precision (a price is what it rounds to).
- The scanners' `LIMIT 100` in AdminAlerts: fewer rows meet a condition. With more,
  alerts beyond the hundredth would be resolved while their condition persists.
- A submission that times out after the distributor accepted the order is submitted
  again by the next attempt; ManualOrders bounds submissions and states no property
  of their number, because the distributor offers no key to recognize a repetition.
- Delivery by Telegram is best effort and never retried; a message is what the
  dashboard sent.
- The components with status not_modelled in PROJECT.json.

## 6. Plan

What is left, the most important first:

1. `Books`: Payments and Orders over one users table, with adjustments and
   referral withdrawals, to decide what the floor of the commission reversal
   costs.
2. Abstract specifications: Broadcast as a delivery of each message at most once
   with a deletion that follows; AdminAlerts as a few messages per cause, each after its mark.
3. `Storefront`: the gateway with its fallback and the hybrid pilot's cached bridge,
   over CatalogPublication and LegacyBridge.
4. Accounts and providers that are edited while sources, mappings and rows use them.

Theorems to follow: `OthersKeepTheirOrder`, by the smallest counterexamples of `Sums` applied
to sorted lists; the refinement of the abstract specifications of step 2; which
floors of Books never cut.
