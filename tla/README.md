# Edoshop backend: a verification development

TLA+ specifications of the parts of the Edoshop backend (`src/`, a TypeScript
service on Hono, Drizzle and PostgreSQL) whose correctness depends on the order
of steps: money in wallets, payment of orders, packages and stock moving through
two warehouses, goods on loan, groupage of customers' requests, bundles on their
way. Each component has a module translated from its source, a TLC
configuration that checks a small instance, and theorems whose proofs TLAPS
checks for every value of the constants: every safety invariant and every
action property the runs check is stated by one.

    tlc -config WalletSerial.cfg MCCustomerWallets     # one run
    tlapm CustomerWalletsProofs.tla                    # the proofs of a module

`PROJECT.json` lists the runs, the lines each definition translates, the
mutants that show each property can fail, the hazards and the theorems.

## 1. The system

One Node process serves HTTP requests. A handler validates, calls a service, and
the service calls repositories. Everything shared is in PostgreSQL, reached
through one pool of `postgres.js` connections (`src/src/db/index.ts`). Handlers
interleave at every `await`. Three habits of the code make most of the
hard behaviour:

- **check, then write.** Preconditions are read before `db.transaction(...)`,
  and the transaction tests nothing again and takes no locks.
- **two connections.** Repository methods that do not take `tx` use the global
  `db`, also when called inside a transaction: they read what is committed and
  commit by themselves.
- **several statements, no transaction.** A restart or an error between two
  statements leaves the first one's effect.

Two timers run in the same process (`src/src/jobs`): the packaging-video
amendment window every quarter of an hour and the ticket reminders once a day.
Stripe calls a webhook (at least once, in no promised order); CamPay (mobile
money) is polled.

| Component | State | Operations that change it | What is hard | What makes it correct |
|---|---|---|---|---|
| customer-wallets | balances, ledger, deposits, withdrawals, settings | deposit, webhook/sync credit, payment, adjustment, withdrawal, review | stale balances, double credit, partial commit, pool exhaustion | balances agree with the ledger and never overspend; each deposit and withdrawal counts once |
| orders (checkout), coupons, stripe, campay, delivery-plans | orders, payment transactions, redemptions | checkout, wallet part, provider payment, status updates, later delivery | order committed before it is paid, late or reordered events, lost references | paid is recorded and stays so; never charged more than the total; coupon redeemed once per user |
| packages, packaging-videos, label photos | packages, items packed, evidence, videos | pack, label, photo, complete, cancel, receive, dispatch, film, answer | any order of calls, death between statements, job racing answers | counts agree; completion means evidence; an answer is final; silence is told |
| warehouse-transfers, entries, series-unpack | entries, transfers, bins, storage movements | send, reverse, receive, undo, bin, unpack, edit, delete | long sequences of legal calls; lists joined to past rows; storage rows overwritten, deleted or added | an entry is always on some list, and in one bin |
| ongoing-groups | groups, requests, approval details | request, approve, reject, undo, update, delete, cancel | slot taken twice, absolute count, undo after the slot is retaken | one taker per slot; count equals the sum of requests |
| warehouse-tickets + reminder job | tickets, stock on loan | create, approve, pause, reject, resume, prepare, confirm, return | a long workflow with a job beside it; returns in parts, resent | what was lent comes back, counted once; no change after its approval; reminded in time |
| group-packages | groups of packages | create, add, remove, dispatch | see below | a tree of groups |
| tracking-bundles | bundles, their history, the orders listed in them | create, step, undo, patch, open a page, assign, track | no transaction anywhere; two kinds of ids in one lookup; pages that heal | an unpacked bundle sends its orders on; notes are kept |
| tv-app, users | devices, pairing and refresh tokens, OTPs | pair, refresh, revoke, reset | rotation forked by two refreshes | a token is used once |
| the rest (catalogue, content, people, uploads, dashboards, chat, notifications) | records | create, read, update, delete | little | validation only |

Interactions: checkout calls the wallet (`applyWalletPayment`), coupons, Stripe or
CamPay; Stripe's webhook updates orders or credits a deposit; packing reads
order items and writes order fulfilment, and makes a transferable entry for the
transfers; the amendment job reads packages and videos; notifications are sent
from all of them and no decision depends on their outcome.

`group-packages` is not modelled because nothing happens in it: `createGroupPackage`
reads the group it has just inserted on another connection than its
transaction's (`group-packages.service.ts:144`), gets `undefined`, throws, and
is rolled back. No group can exist until that is repaired.

## 2. Modules

| Module | Models | Extends / uses |
|---|---|---|
| `CustomerWallets` | the wallet, one step per awaited statement, with pool and row lock | |
| `WalletLedger` | what the wallet promises: atomic moves of money | instantiated by `CustomerWallets` |
| `CustomerWalletsProofs` | theorems about `CustomerWallets` | TLAPS |
| `DirectOrders` | checkout, payment, webhook, polling, later delivery; the wallet is one atomic debit, as in `WalletLedger` | |
| `DirectOrdersProofs` | theorems about `DirectOrders` | TLAPS |
| `WarehouseTransfers` | packages sent between the warehouses and binned in the second; series and items binned, unpacked, edited and deleted in the first | |
| `WarehouseTransfersProofs` | theorems about `WarehouseTransfers` | TLAPS |
| `PackageFulfillment` | packing, evidence, completion, reception, video and the amendment job | |
| `PackageFulfillmentProofs` | theorems about `PackageFulfillment` | TLAPS |
| `WarehouseTickets` | a requester's tickets from creation to the last return, and the reminder runs | |
| `WarehouseTicketsProofs` | theorems about `WarehouseTickets` | TLAPS |
| `OngoingGroups` | groupage: slots, counts, decisions, the ready notice | |
| `OngoingGroupsProofs` | theorems about `OngoingGroups` | TLAPS, `SumTheorems` |
| `TrackingBundles` | bundles and their steps, statement by statement, and the orders' own leg | |
| `TrackingBundlesProofs` | theorems about `TrackingBundles` | TLAPS |
| `SumTheorems` | lemmas about sums over finite sets | TLAPS; used by the proofs of wallets, orders, fulfilment and groupage |
| `MC...` | symmetry sets and settings for TLC | one per module |

### CustomerWallets

Tables are the variables `wallet` (`None` where there is no row), `ledger`,
`deposits`, `withdrawals`, `settings`. The provider is `intents` and `paid`
(external). Every request slot has a program counter `pc`, its arguments `job`
and the balances it read, `snap`.

A handler (`RequestWithdrawal`, `ApplyManualAdjustment`, `ApplyWalletPayment`,
`StripeWebhook`, `SyncDepositPayment`, `ApproveWithdrawal`, `RejectWithdrawal`,
`InitiateDeposit`) makes the checks up to `db.transaction`. Then come
`Begin` (the transaction pins a connection), `EnsureWallet` / `CreateWallet` (a
second connection; unlocked read, an INSERT that commits at once),
`UpdateWallet` (takes the row lock, writes *absolute* values computed from
`snap`), `WriteStatus` (second connection, committed at once), `Commit` (row and
ledger entry become visible together) and `AutoApprove`. `Fail` ends a request
at any statement: its transaction is undone, what other connections committed
is not. `FreeConnection` is the pool, `RowFree` the row lock. Money is in
hundredths, in which `toMoney` is exact.

`WalletLedger` is what a caller believes: `Credit`, `Debit`, `OpenDeposit`,
`SettleDeposit`, `Reserve`, `PayOut`, `Release`, each one atomic step. In the
mapping a status that a transaction in progress has already written through its
second connection does not count until that transaction commits.

### DirectOrders

`Checkout` is the validation, `InsertOrder` the transaction of
`createDirectOrderCheckout` (order, payment row, coupon redemption with its
unique index; `InsertRefused` is that index saying no), `PayFromWallet`,
`Settle`, `OpenIntent`, `StoreReference` the statements after it, in the code's
order. `CustomerPays`/`CustomerFails` are the provider; `HandleWebhook`,
`SyncTransactionStatus`/`WriteSync` what the backend hears from it. The webhook
writes the event's status over whatever the row has, as the code does.
`RequestDelivery`/`AddDelivery` is `requestPostCheckoutDelivery`: totals computed
from an order read earlier.

The two routes differ. `POST /orders/checkout/direct` takes any payment method
there is and knows only whether it is mobile money (`Methods`): the payment row of a
card's or PayPal's id is COMPLETED at once. `stripe.service` calls the same
checkout with `stripe` set, gets a PENDING row and opens the intent (`Card`). `ByProvider(o)`
are the orders whose money the code asks a provider for; they are what
`CompletedIsPaid` speaks of.

### WarehouseTransfers

A handler is two steps: the checks (what the listing queries `Reversible`,
`Pending`, `Undoable` return) and one write transaction. `entries` are rows of
three types, `None` while an id is unused; only packages are ever created
transferable. `transfers` is the table in the order of its ids. `Listed(e)` is the
left join of an entry with all its past transfers, which makes
`sendTransferableEntries` insert a row per joined row.

`storage` is each entry's storage rows. Three components write them in three
ways: `updateTransferBin` adds movements (`Leaves`, `Enters`), `assignEntryToBin`
overwrites the newest entering row and `unassignEntryFromBin` deletes it, and
`unpackSeriesAtW1` adds a leaving row for whichever entering row it finds
(`LeavesAisle`). `UpdateEntry` is the PATCH of an entry, which takes a warehouse
wherever the entry is.

### WarehouseTickets

Every operation reads the ticket and checks it (`ReadCreate`, `ReadUpdate`, ...
start a request with what it `read`), then writes in one transaction. `next` is that
position: "write" for most; a return goes on through "decide" and "commit",
because it locks and updates its items first, reads all of the ticket's items to
choose the status, and only then writes the row. `GiveUp` ends a request
without effect between two steps. `revision` tells apart the item rows that an
update replaces, `recorded` counts the events of each idempotency key.

A reminder run lists what is overdue (`ListOverdue`), notifies
(`NotifyReturnReminder`) and marks (`MarkReturnReminderSent`); `RunDies` ends it in
between. The list page starts a run too.

History variables say what a property needs to know: `told` the days of
reminders, `approved` the revision the approving request had read, `overlapped` the tickets two
requests worked on at once, `spoiled` whether reminder runs met or died.

### OngoingGroups

One product and one colour: each variant is a slot of the product's group.
A call reads (`CheckSlot`, `ReadPatch`, `ReadRemove`, `ReadDecide`, `ReadUndo`) and
writes what follows from what it read: `ordered` is an absolute number. A creation
has one read more (`FindOngoingGroup`) and, after its commit, the
notice (`NotifyAdminsGroupReady`), which reads its row again. `StaffReady` and
`CustomersReady` are what the two pages show, each adding up rows of its own.
`criteria` is the product's completionCriteria, which the staff edit at any time
(`UpdateProduct`); every creation writes the value it read as the group's threshold
(`SetOrdered`). The PATCH of a request gives a status and nothing that is counted.

The code protects little here, so each property is stated up to what breaks it:
`spoiled` collects the causes that happened (two creations, two counting or two
deciding calls at once, a rejected request open again, a threshold that a creation
lowers to what was ordered already, a death before the notice) and a property names those it cannot bear. It
holds in every other behaviour, overlapping ones included.

### TrackingBundles

Nothing here runs in a transaction: every statement is a step. `Found(id)` looks
an id up as a supplier's bundle first and as a row second, the two being the same
numbers. `ReadStep`, `Move` and the history row are a step forward or back; undo
deletes history and goes to the highest step left. The page of a bundle
(`Page`) heals what it finds: it makes or links the row (`Ensure`), lists the orders
of the inventory (`Backfill`, `Sync`), sends them on to their leg (`ReadOrder`,
`Promote`) and closes the bundle (`Close`). The list (`Sync`) and its reading back (`List`)
are two statements, and an order may be taken out between them (`RemoveOrder`).
`PlaceOrder` is a customer's order for goods of the inventory (`LinkedTo`), which may
come at any time; after the list (`Listed`) it comes too late. `PatchBundle` writes
code, status and any step there is. A call ends by opening the page of the
row it looks up again. `ReadTracked` and `WriteTracked` are the staff's updates of
an order's leg and notes beside it.
`spoiled` works as in `OngoingGroups`.

### PackageFulfillment

One request is served at a time and `req` says what it does next;
`RequestDies` may end it between its statements. The job (`ListDue`, `Tell`,
`MarkTold`, `JobDies`) and the clock run beside it. `contents` is
`package_items`; `CreatePackageWithItems` compares each line with the remainder on
its own and counts the affected items again over all packages (`Recount`), as
the repository does. A package's row keeps `label` (the flag) and `labelRow` (the
`shipping_labels` row) apart, because cancelling clears one and not the other.
A video is one row per package, recorded over; `recording` tells the files
apart. It is released while it has a deadline. `told` is history, for the
property about silence.

## 3. What the runs check

| Run | Instance | Properties | Shows |
|---|---|---|---|
| `wallet_concurrent` | 2 overlapping requests, 4 in all, crashes | `TypeOK`, `BalancesOrdered`, `LedgerTailMatches`, `PostedImpliesDecided` | whatever overlaps or dies, a row never reserves more than it holds, its balances are those of its newest ledger entry, and entries are backed by decided rows |
| `wallet_serial` | 1 slot, 5 requests, 2 withdrawals | `ReservedIsPending`, `ImplementsLedger` | without overlap the wallet implements `WalletLedger`, and reserved is the sum of pending withdrawals |
| `wallet_pool` | 3 slots, pool of 3, no crashes | `DecisionsPosted`, `EveryRequestFinishes` | every decision reaches the ledger; a request finishes unless transactions hold the whole pool, each waiting for a second connection |
| `order_concurrent` | 2 users, 2 orders, 2 requests, events in any order, crashes | `TypeOK`, `CouponAccounted`, `CompletedIsPaid` | coupon count, redemptions and orders agree; a provider's payment is completed only when paid |
| `order_serial` | 1 slot, 2 orders, events in order, crashes | `NeverOvercharged`, `PaidEndsCompleted` | wallet and provider never exceed the total; a card payment made ends completed for good |
| `transfer_sequences` | 2 packages, a series, 2 items, 5 transfers, 1 slot, crashes | `TypeOK`, `AlwaysListed`, `EntryInOneBin` | no sequence of calls loses a package from every list; the storage rows put each entry in one bin, as its transfers say, and an unpacked series in none |
| `fulfillment_packing` | 2 packages, 2 items of 2, a death | `TypeOK`, `PackedIsCounted`, `CompletedHasEvidence`, `ReceivedKeepsEvidence` | counts and statuses agree; completion means label and photo; reception keeps them |
| `fulfillment_video` | 1 package, 2 recordings, clock to 3, a death | `AnswerIsFinal`, `SilenceIsTold` | one answer per recording; a window that ended in silence is told |
| `tickets_overlap` | 1 ticket of 2 products, 2 requests | `TypeOK`, `NeverMoreThanRequested`, `BorrowAgrees`, `KeyCountedOnce`, `UnchangedSinceApproval`, `FinalStaysFinal` | quantities keep their bounds whatever overlaps; status, keys and approvals are right while requests on the ticket do not overlap |
| `tickets_reminders` | 2 tickets, 3 days, the daily run and a page's, a death | `RemindersSpaced`, `DueIsTold` | a due reminder is sent in the end, and none too early unless runs meet or die |
| `groupage_slots` | 2 requests, 2 variants, 2 calls, deaths | `TypeOK`, `OrderedIsSum`, `OneTaker`, `ReadyIsTold`, `DecisionStands` | the count, the slots, the notice and decisions are right up to the named causes |
| `bundle_steps` | 2 suppliers' bundles, 2 rows, 1 order in both, 2 calls, deaths | `TypeOK`, `ClosedIsSent`, `PageFinishes`, `StepIsHighest`, `LegKept` | an unpacked bundle has sent its orders on, a page finishes what died, the step agrees with the history, notes are kept |

`CHECK_DEADLOCK FALSE` everywhere: ids run out, that is the bound, and in
`wallet_pool` the deadlock of the pool is real: `EveryRequestFinishes` excepts it
by name.

**What is stated of requests that do not overlap.** All properties of
`WarehouseTransfers` but `TypeOK`, all of `PackageFulfillment`, and
`wallet_serial` and `order_serial`; in the other modules a property says itself
which overlaps it cannot bear. That is not a claim that overlap is
harmless. The code checks before its transactions, so with two slots most
properties of `WarehouseTransfers` fail, and `PackageFulfillment` has one
request in progress by construction (`req`); the hazards say where overlap
bites, and section 4 which overlaps the proofs leave out.

**Assumptions a property needs.** `PaidEndsCompleted` needs Stripe's events in
the order they happened (`InOrder`); the code would let a late
`payment_failed` undo a success. `DecisionsPosted` needs that no request dies.
`SilenceIsTold` needs that a package is not filmed again while the job is
telling of it (`UploadMeetsJob = FALSE`); with `TRUE` TLC finds the new window
marked as told. `CompletedIsPaid` speaks of `ByProvider` orders only: of Stripe's
route, and of mobile money with CamPay on.

**One floor at a time.** Packages and stock share no row, no bin and no transfer,
so `transfer_sequences` checks behaviours about packages and behaviours about
stock and leaves out those that mix the two (`StaysOnOneFloor`): each property
speaks of one entry at a time and none of a mix could break it.

### Bounds

| Bound | Why it is enough |
|---|---|
| ids of rows (`Deposits`, `Withdrawals`, `Orders`, `Txns`, `Packages`, ...) | two of a kind give every conflict between two rows |
| `Requests`, `Callers`, `Calls` | two slots give every overlap of two handlers; three with a pool of three give the pool deadlock |
| `MaxStarted` | deposit, credit, withdrawal, review and one more in one behaviour |
| `Amounts` {1, 2} | equal and different amounts, covered and not covered |
| `PoolSize` | 4 never blocks two slots; 3 blocks three |
| `MaxAttempts` (1 undelivered failure of a card) | a failure before a success, reordered |
| `MaxTransfers` 5, `MaxBatch` 2, `MaxMovements` 4 | send, reverse, resend and double rows of two packages; three changes of bin |
| 1 series, 2 items, 2 aisle bins | a series binned, moved, unpacked into one or two items, each binned in turn |
| `MaxLines` 2, `Quantity` 2 | two lines of one item that each fit and together do not |
| `Window` 1, `MaxRecordings` 2, `MaxClock` 3 | a window that ends, a second recording and its window's end |
| `MaxFailures` 1 | a death anywhere, then recovery |
| tickets: `MaxQuantity` 2, `MaxRevisions` 2, 1 key, `MaxOpen` 1 | a return in two parts, resent; an update between approvals |
| tickets: `Together` | the kinds that change items or create meet each other; any two kinds may be let meet on one ticket in the constants |
| reminders: `ReminderDays` 1, `MaxClock` 2 | two reminders of each ticket |
| groups: `MaxQuantity` 2, `MaxCriteria` 2, `Limit` 1 | crossing in one request and in two; criteria of none, one and two items, raised and lowered between and during calls; a second variant refused |
| `MaxCauses` 1 (groups, bundles) | how many causes a behaviour has at most (groups: goes on after); a property that bears a cause is checked behind it |
| bundles: `Start` 1, `Unpack` 2, `LastStep` 3, `MaxHistory` 3 | the first step, the last and one of the order leg's, to which only a PATCH goes; log, undo and log again. The code's are 6, 7 and more; no operation treats the steps between, or those below `Start`, otherwise |
| bundles: `MaxStage` 2, `Codes` {1}, `Patches` {"active"}, `Together` | an order sent on and moved further; a row linked late; a bundle opened again; steps, pages and updates of orders meet |

### Fairness

- `CustomerWallets`: SF on each request's own steps. A handed-over statement is
  run; lock waiters and pool waiters are queued first come, first served, so a
  step that is enabled again and again is taken.
- `DirectOrders`: WF on each request's steps, WF on the delivery of each
  transaction's events, since Stripe retries until it is answered. Nothing is
  assumed of customers or of the CamPay poll.
- `PackageFulfillment`: WF on the steps of the request in progress and on the
  job, which the timer starts again after a death. The clock is not fair: a
  window that never ends needs no telling.
- `WarehouseTickets` (`tickets_reminders`): WF on the steps of each reminder run,
  which the daily timer starts again. Nothing is assumed of requests or the clock.
- `WarehouseTransfers`, `OngoingGroups` and `TrackingBundles` state no fairness:
  nothing there is retried by itself, what a dead process left is finished
  by the next person who calls, which is a safety property (`PageFinishes`).

## 4. What is proved

Every theorem holds for every value of the constants that meets the named
assumptions of its module. `ConstantsAssumption` says that bounds are numbers,
amounts positive, settings settings, switches Booleans, `None` none of the ids; that
the ids a sum or a count runs over are finitely many (`Withdrawals`, `Txns`,
`Packages`, `Tickets`, `Ids`, `Variants`, `Rows`); and, for
the wallet, that `None` is not what a withdrawal was filed as (`Filed`).
`NoneAssumption` (fulfilment, orders, transfers) says that `None` is no row.
`BoundsAssumption` of `TrackingBundles` says that the codes and statuses chosen for a
run are ones the schema admits.

A theorem that needs more says so in its statement. Every hypothesis on overlap is
one without which TLC finds the property violated with two slots; it holds of
all behaviours of one slot, and of most of several:

| Hypothesis | Theorems | Why |
|---|---|---|
| `[]DeliveriesApart` (no two delivery requests for one order are at their write; anything else overlaps and dies) | `ChargedOnce` | each would add its fee to a total that has one of them (hazards) |
| `[]BinsApart` (no bin is being given to a row whose reception is being undone) | `ListedUnlessUndone` | the package would be under way with no open transfer (hazards) |
| `[]EntriesApart` (no two calls in progress are about one entry) | `InOneBinApart` | two bins, or two arrivals, of what both saw in one place (hazards) |
| `Serial` (one slot, no deaths) | `ReservedAddsUp`, `LedgerImplemented` | a lost update or a half-finished decision is not an atomic move of money |
| `~MayFail` | `DecisionsReachLedger` | a death after a status that another connection committed (hazards) |

**`CustomerWalletsProofs`** (any number of accounts, requests, deposits and
withdrawals; any pool; with crashes).
`TypeCorrect`, `OrderedBalances`, `LedgerTail`, `EntriesBacked` state
`Spec => []` of `TypeOK`, `BalancesOrdered`, `LedgerTailMatches` and
`PostedImpliesDecided`. None is inductive alone. A commit writes values computed
from a snapshot that may be stale, so what must be carried is that the
*snapshot* passed the check and was ordered: that is `RequestOK`, and the
invariant is `TypeOK /\ RequestsOK /\ BalancesOrdered`. `AfterOrdered` then says
that a permitted change of ordered balances is ordered, whatever the row holds
by now: a stale read can lose an update, it cannot overspend the row it writes.
The ledger theorems add that a request at "commit" acts for a row its own
`WriteStatus` has decided, and that a decided row is never undecided by another
request (`OthersStayOK`, `RowsKept`). Each action has its lemma.

`ReservedAddsUp` and `LedgerImplemented` are for one slot and no deaths. `JobsAlone`
says what a request may then believe: the row is as it was read, and what it acts
for as undecided as it was found. With it each step of the wallet is shown to be a
step of `WalletLedger` or a stutter under the mapping of `Ledger` (`StepMaps`), and
the ledger's own invariant, reserved is the sum of pending withdrawals, is proved
on the abstract steps and carried over (`LedgerKeeps`); the pending amounts are
summed with `SumTheorems`. `DecisionsReachLedger` states `DecisionsPosted` for any
overlap as long as no request dies.

**`DirectOrdersProofs`** (any number of users, orders, payments and overlapping
requests; events in any order, lost or late; deaths anywhere). `TypeCorrect` states
`TypeOK`, with `Inv`: a request between two statements carries ids of rows that
exist (`JobsOK`, with `ReadStands` for what it read), and every
payment belongs to an order (`RowsOK`). `CouponsAgree` states `CouponAccounted`:
a redemption, the count and the order's coupon are written in one transaction and
never again, so counting them is adding one to a finite set. `CompletedPaid`
states `CompletedIsPaid`, for the orders a provider is asked for. `PaidInv` carries what no single
statement shows: a request about to write "completed" has seen the provider paid
or has nothing left to pay (`PaidJobs`), while the wallet's part of an order is
still to be taken nothing completed relies on it (`WalletUntouched`), no two
requests are making the same order or payment (`Apart`), and an event that says "succeeded" is of a payment
that succeeded (`EventsTrue`).
`ChargedOnce` states `NeverOvercharged`. Its invariant `OverInv` is about what was
*asked for*, paid or not. `Claims` gives each payment an amount, what it was opened for
or what the request that is making it will open it for; with the wallet's part the
claims of an order add up to no more than its total, and a request in progress holds
what its payment was claimed for (`OverJob`), which no other request is making
(`AskApart`). A new claim comes with the total that pays for it (`ClaimNew`), a death
or a refusal only takes one away (`ClaimLess`). A later delivery writes a total
computed from the order it read, which is why two of them must not meet.

**`WarehouseTransfersProofs`** (any packages, series, items and bins). `TypeCorrect`
states `TypeOK` for overlapping calls: what a request validated stays a row, since
rows are only ever added (`RowsOK`, `JobsOK`). `ListedUnlessUndone` states
`AlwaysListed`, for any number of transfers of a package, the double rows of a
third sending included, and for every overlap but one. Its invariant adds `BinJobs`: the
transfer that a bin is about to be written on is not under way. Only an undone
reception between the check and the write makes it so again (`WriteBins`), and that
is the overlap left out. Sending, reversing, receiving and
undoing put their own entries on a list again, whatever the list was before and
whatever they had seen (`WriteLists`); other packages keep their columns and rows
(`ListStays`).
`InOneBinApart` states `EntryInOneBin`. `BinInv` is `Inv` with `Places`,
what the rows of each floor say whatever came before, and `Valid`: what a call
has validated still holds when it writes, since the writes of other calls stay on
the entries they are about (`WriteValid`). Of a package's transfers at most one has
arrived (`ArrivedOnce`), and the movements into a bin exceed those out of it by one
where a transfer names that bin and by none elsewhere (`NetOK`): the newest movement
tells too little, since any past bin may be entered again. Of a series or an item
the storage rows are one of three lists (`Moved`), however often they were overwritten
or deleted, and what came out of a series says so of that series (`Unpacked`).

**`PackageFulfillmentProofs`** (any packages, items, bounds, with deaths).
`CompletedEvidence`: `CompletedHasEvidence` is strengthened to `PackageInv`, in
which the label flag implies the label row (only `CreateShippingLabel` sets it,
cancellation clears the flag and leaves the row). `ReceivedEvidence`: from
`PackageInv`, since cancellation refuses received packages.
`FinalAnswer`: needs `VideoInv`, which types the rows and says of a request
between its check and its write that the video exists and its reply was still
open when it read it. `PackedCounted` states `PackedIsCounted`: `CountInv` adds that a
package is empty until it is made, and a call recounts only the items it names, which
is right because an item it does not name is in none of its lines. `TypeCorrect` comes
last: `MadeInv` says that whatever a request, the job or a listed window names is a
package that was made.

**`WarehouseTicketsProofs`** (any tickets, products, quantities, keys, any number of
overlapping requests of any kinds). `TypeCorrect` and `RequestedBounds` state
`Spec => []` of `TypeOK` and `NeverMoreThanRequested`. A return adds to what it
finds when it writes, under a guard in the statement itself, so the bound is
inductive there; preparation and takeout write numbers checked against rows read
before. What carries them is what a request may believe: `RowsAsRead` (the item
rows a request read are the ticket's, or a newer revision replaced them),
`CreatesAlone`, `ReturnsFit`, `ReturnsApart` and the well-formedness of requests
(`RequestsOK`). Their conjunction is `Inv`.
`BorrowsAgree`, `Approvals`, `KeysCountOnce` and
`FinalIsFinal` state `BorrowAgrees`, `UnchangedSinceApproval`, `KeyCountedOnce` and
`FinalStaysFinal`. `AloneInv` adds three things to `Inv`: `Alone` (two requests on one
ticket mark it as overlapped), `FreshAlone` (a request that is alone still sees
the ticket as it read it) and `SoundAlone` (the ticket itself agrees: status,
quantities, approval and keys). Each action then either works for a ticket
that is marked, of which nothing is claimed, or for one whose row is the one it
checked.
`SpacedReminders` states `RemindersSpaced` whatever requests do to the tickets
meanwhile. `SpacedInv` says that only one run goes on (`OneRun`), that a ticket's
mark is its last reminder unless a run has told and not marked yet (`Marked`), and that
what a run has still to tell was due when it listed and nobody told since (`Listed`).
Requests leave the mark alone and a deleted ticket does not come back.

**`OngoingGroupsProofs`** (any requests, groups, variants, limits; any number of
overlapping calls, with deaths). `TypeCorrect` needs `Inv`, what each call carries
between its statements; that a group's count never falls below zero is the clamp, and
holds whatever updates are lost. The other four properties say what they
cannot bear, so each has an invariant of the same shape: unless one of *its* causes
happened, calls of the kinds that disturb it are alone (`Alone`, `AllAlone`) and what
they read still holds.

| Theorem | Property | What is carried besides |
|---|---|---|
| `DecisionsKept` | `DecisionStands` | what a deciding call will write is pending still, or deleted (`DecidesPending`) |
| `SlotsHaveOneTaker` | `OneTaker` | the slot a creation saw free stays free, though removals and decisions overlap it (`SlotsKept`) |
| `CountIsSum` | `OrderedIsSum` | the count a call read is the group's, and the quantity it will subtract the row's (`CountsSeen`) |
| `ReadyGroupsTold` | `ReadyIsTold` | the product has one group (`OneGroup`); one at its threshold, as the last creation wrote it, was told of, or the creation that crossed it is about to tell (`Notified`) |

**`TrackingBundlesProofs`** (any bundles, orders and calls that interleave between
single statements, with deaths). `TypeCorrect` states `TypeOK` with `Inv`: a call at a
statement about a row carries the id of one that was made (`Formed`).
`ClosedSent` states `ClosedIsSent`: in `SentInv` an order of a closed bundle's
inventory is sent, and one of a bundle being worked off is sent or still in the
caller's hands (`Held`: in the list until the caller reads it, in what it read
after), in any number of calls at once. It bears deaths, overlaps, undoing and moving
back; not what joins a bundle after its list, what is taken out before the list is read
(`ListsKept`), a step or status set by hand, or another bundle's id. `PageFinished` states
`PageFinishes` with `PageInv`: unless calls that move bundles met (`Alone`), what a page
read of a bundle is true until it answers. `NotesKept` states `LegKept` with `LegInv`: what a
note will be appended to, and that an order about to be sent on still waits.
`StepsHighest` states `StepIsHighest`. The step and its history are two statements, and
their order differs between operations, so `StepInv` says of each bundle that it
is settled or that one call is writing it, and of a call between its two writes
(`Between`) what the half it has written says about the other.

**`SumTheorems`** unfolds the community modules' `SumFunctionOnSet`: what it returns
of the empty set, of a set with one more element, of functions that differ at one
place. The induction over finite sets that this needs is stated of a *set of cases*
and proved from a smallest counterexample (`WFMin`), since the prover cannot
instantiate the library's induction theorems.

**Only model-checked**: liveness (`EveryRequestFinishes`, `PaidEndsCompleted`,
`SilenceIsTold`, `DueIsTold`), which needs `ENABLED` and fairness and is out of the
prover's reach.

## 5. Where the code disagrees with what is expected of it

Met while modelling. The properties above are stated so that they hold; each of
these is a constant, an excepted cause or a hazard (`PROJECT.json`), and most can
be seen by changing a configuration.

- Webhook and synchronisation that overlap both credit a deposit
  (`customer-wallets.service.ts:280`).
- Synchronising a mobile-money deposit tests a field (`paymentStatus`) that
  `campayService.syncTransactionStatus` does not return, so it never credits
  (`customer-wallets.service.ts:516`).
- With CamPay off a mobile-money checkout answers an error and leaves a
  completed order (`orders.service.ts:263`; `CampayEnabled = FALSE`).
- A card's or PayPal's payment method id at the direct route makes a completed order
  nobody is asked to pay (`orders.service.ts:187`).
- A package sent for the third time gets two open transfers, and after one is
  reversed it is listed but can never be sent again
  (`warehouse-transfers.service.ts:167`).
- A cancelled package's items cannot be packed again, though the comment says the
  order "can be picked up and fulfilled again" (`packaging-videos.service.ts:206`).
- Two validated unpackings of one series put its items into stock twice
  (`series-unpack.service.ts:60`).
- PATCH of an entry takes a warehouse, and a type, whatever the entry is doing
  (`entries.service.ts:115`).
- Two confirmations of a ticket's returns at once leave it waiting for a return
  that is all back (`warehouse-tickets.service.ts:1453`).
- A ticket's code is made from the number of tickets left: after a deletion the
  next code may exist already (`warehouse-tickets.repository.ts:1338`).
- An approval names no revision: an update between the page an approver looks at and
  the approval is approved with it, and no request overlaps another then
  (`warehouse-tickets.service.ts:721`). `UnchangedSinceApproval` is about what comes after.
- A completion criterion lowered to what was ordered already, or below, makes a group ready with
  nobody told: the next creation does not see it cross (`ongoing-groups.repository.ts:295`).
- An order placed, or a link made, after a bundle's list is never sent on; so is an order
  taken out of the bundle between the list and its reading
  (`tracking-bundles.repository.ts:587`).
- A bundle patched beyond its unpacking step stays active, and its page never finishes it
  (`tracking-bundles.service.ts:70`).
- Undoing a rejected groupage request whose slot was taken since leaves two takers
  (`ongoing-groups.service.ts:1277`).
- The id of a bundle's row that is also the id of a supplier's bundle opens the
  other bundle (`tracking-bundles.repository.ts:54`).
- `group-packages` cannot create a group (`group-packages.service.ts:144`).

## 6. Not modelled

Listing, searching, editing of texts, formatting, PDFs, texts of messages,
permissions, rate limits, uploads of files: no property is about them. The settings
row's numbers (`MinWithdrawal`, fees), the limits and intervals of tickets are
constants, the wallet's switches are state. One coupon, one subtotal and one
delivery fee stand for all.

- `group-packages`: nothing can happen in it (above).
- `tv-app`, `users`: sessions, pairing and tokens, beside the shop's processes. Two
  hazards were met there: two refreshes with one token at once both succeed
  (`tv-app.auth.service.ts:204`), and the catalogue's selection is deleted and
  inserted without a transaction (`tv-app.repository.ts:239`).
- Kilo bills: one upsert beside a bundle's steps.
- `orders`: tracking steps other than the leg of `TrackingBundles`, pickup
  reminders, and the editing of fulfilment quantities, which writes a column
  nothing modelled reads after comparing with a packed quantity it read earlier
  (`orders.service.ts:122`).
- `entries`: codes, bundles, returns, supplier orders, a change of type.
- Most of the repository is catalogue, content and people: records created, edited
  and listed, where validation is all there is to get wrong. It is why the lines
  mapped are a small share of the lines there are.

`PROJECT.json` lists every component with its status.

## 7. Plan

Done: all modules of section 2. What is left, in order of weight:

1. The wallet theorems of `Serial` (`ReservedAddsUp`, `LedgerImplemented`) under the
   weaker hypothesis that requests on one account do not overlap.
2. That the wallet part of a checkout may be one atomic debit in `DirectOrders`, as a
   theorem about `WalletLedger`.
3. Composition: a package packed in `PackageFulfillment`, sent in
   `WarehouseTransfers` and received. `GroupPackages` once groups can exist.
4. Tokens of `tv-app` and `users`.
