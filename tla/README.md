# SwiftTrack: TLA+ models, checks and proofs

SwiftTrack is a logistics back office: Express routes call services, services
read and write one SQL database through `server/db/dbAdapter.js` (PostgreSQL in
production, SQLite for development), a worker drains a notification outbox, and
a React client keeps a queue of operations made while offline.  All durable
state is in the database; the only concurrency is between HTTP requests, the
worker and the client's retries.

## 1. Inventory

| Component | State | Operations | Hard behaviour | What makes it correct |
|---|---|---|---|---|
| Linehaul (`transportService`) | `transport_runs`, `manifests`, `manifest_items`, crew columns of `vehicles` and `drivers`, `shipment_legs` | create run, add and remove shipment, lock, dispatch, arrive, receive | checks before the transaction, row locks inside it, nested transactions that commit on their own | run and manifest agree, nothing leaves on a draft, totals count items, sealed manifests stay sealed |
| Shipment lifecycle (`shipmentService`) | `shipments.status`, legs, tracking events | create, transition, complete leg | unconditional UPDATE after a read elsewhere | only transitions of the table |
| Database (`dbAdapter`, `transactions`, `pool`) | connections, locks | begin, commit, roll back, nest | nested transaction = second client; pool limit | nobody waits for ever |
| Custody and hub receiving (`custodyService`) | scan events, hand-offs, receiving sessions, discrepancies | scan, hand off, open/scan/complete session, resolve | duplicate scans, direct status writes beside the table | counters count parcels, a closed session reports every parcel truly |
| Last mile (`deliveryExecutionService`) | deliveries, attempts, proof of delivery | create task, start, attempt, complete | stale attempt counter, crash between nested commit and proof | DELIVERED if and only if proof, attempts counted, the last one escalated |
| Cash on delivery (`codService`) | settlements | expect, collect, remit, reconcile | stale reads, no unique key | money collected is remitted and reconciled once |
| Customs (`customsService`, `transportService`) | `customs_status` | submit, inspect, hold, clear, release | no guards on order | released only when cleared |
| Counter booking | shipment, parcels, leg, payment | book | one transaction | all or nothing |
| Offline sync (`offlineSyncService`, client queue) | operation log, client queue | enqueue, sync, execute, log | lost answers, replays, two syncs at once | each operation takes effect exactly once |
| Idempotency keys | stored responses | look up, execute, save | no reservation while executing, stored after the commit | one execution per key, the stored answer is true |
| Notification outbox and worker | outbox rows, log | enqueue, drain, resend, delivery report | crash between send and mark, late reports | every message sent, retries bounded |
| Payments and Daraja | intents, callbacks, payments | create, process, callback, query, time out, cancel, refund | callback races query, early callback, stale timeouts | settled once, never lost |
| Orders engine | order status, allocation flag | create, edit, transition | allocation flag without allocation, re-dispatch | reserved stock equals what open orders hold |
| Stock ledger | five buckets per product and warehouse | reserve, release, dispatch, receive, quarantine, write off, transfer, count | absolute writes against relative ones | on hand = available + reserved + damaged + expired, no bucket negative |
| POS, shifts, refunds | shifts, sales, drawer, refund requests | open, sell, exchange, move cash, close, reconcile, request and approve a refund | sale against a shift that closes, payout that commits before its exchange | expected cash equals the drawer ledger, the variance leaves nothing out, a refund is paid once |
| Procurement | requisitions, orders, receipts, invoices, payments | approve, send, receive, cancel, invoice, pay | stale status and balance | received at most ordered, paid equals payments |
| Fleet pairing | `drivers.vehicle_id`, `vehicles.assigned_driver_id` | assign and unassign from either side | two columns that must mirror each other | the pairing is symmetric |
| Sessions and lockout | sessions, counters, token version | log in, refresh, log out, change password | stale counter, rotation | a terminated session never works again |

Reference data, read-only views, request guards and operator tools are listed in
`PROJECT.json` with the reason they are not modelled.

## 2. Plan

The order follows the importance of the behaviour: goods in motion first, then
who has them, then money.

1. `ShipmentStatus`, `ShipmentLifecycle`, `Linehaul`, `LinehaulProofs`: the
   road (done).  `FieldWork`, `OfflineSync`, `OfflineSyncProofs`: the device
   (done).
2. `OrderStatus`, `Stock`, `StockProofs`: orders, sales, refunds, receipts,
   losses and counts on one inventory row (done but for transfers between two
   warehouses and orders of several lines).
3. `Payments`, `PaymentsProofs`: intents, Daraja, callbacks (done but for the
   timeout sweep, which nothing calls).
4. `Inbound`: scans, receiving sessions, the receipt of a manifest and customs
   on the same parcels (done, proved in `OfflineSyncProofs`).  `LastMile`,
   `LastMileProofs`: tasks, attempts, proof and cash on delivery over the lifecycle
   table (done).
5. `Outbox`, `OutboxProofs`: worker, resend, provider, delivery reports, crashes
   (done).
6. `Procurement`, `ProcurementProofs`: requisitions, orders, receipts, invoices,
   returns (done).
7. `PointOfSale`, `PointOfSaleProofs`: shifts, the drawer, sales, bookings and
   exchanges in them, refund requests, idempotency keys (done).
8. Left: `Sessions` (lockout, refresh rotation), `Fleet` (the pairing is not
   symmetric even one request at a time, so there is little to hold on to),
   `Pool`, transfers between two stock rows.

Every module is written to be proved about: parameters are CONSTANTS with a
named assumption, handlers are one action per statement that another request can
come between, invariants are conjunctions of named parts, and no module declares
a RECURSIVE operator.  Every invariant and action property that a passing run checks
has its theorem (section 5).

How the modules compose.  `ShipmentStatus` is shared by every module that writes
`shipments.status`: `Linehaul`, `LastMile` and `Inbound` EXTEND it, and
`Linehaul` is shown to implement `ShipmentLifecycle` by INSTANCE.  `Inbound`
composes four services on the same rows (custody, the receipt of
`transportService`, customs and the status route), `LastMile` three (delivery
execution, cash on delivery and the dispatch board).  `PointOfSale` composes four too (the
shift service, the point of sale, counter booking and the idempotency
middleware).  `OfflineSync` implements `FieldWork`; `Stock` and `Payments` share `OrderStatus`.

## 3. Modules and the code

### ShipmentStatus, ShipmentLifecycle

`ShipmentStatus` is the transition table `ALLOWED_TRANSITIONS` of
`shipmentService.js` and `Allows(from, to)`, the test `transitionShipmentStatus`
makes on it.  `ShipmentLifecycle` is the abstract specification: the only thing
that ever happens to `shipments.status` is a step the table allows.

### Linehaul

`transportService.js` with the two calls into `shipmentService.js` that its
handlers make, over PostgreSQL.

| Variable | Table |
|---|---|
| `status` | `shipments.status` |
| `leg` | `shipment_legs.status`, `.manifest_id` |
| `run`, `manifest`, `total` | `transport_runs.status`, `manifests.status`, `manifests.total_shipments` |
| `item` | `manifest_items.status` per run and shipment, `"NONE"` without a row |
| `vehicle`, `driver` | `vehicles.status`, `drivers.status` |
| `req` | the requests in progress: handler, next statement (`pc`), what the code keeps in local variables, rows locked (`held`) |

The variables are the *committed* tables.  A handler is modelled statement by
statement.  Its reads before the transaction are steps (`AddReadRun`,
`AddReadManifest`, `AddReadShipment`, `RemoveRead`, ...): other requests commit
between them.  An UPDATE, INSERT or DELETE of the outer transaction is a step
that waits for the row locks it needs and keeps them (`Locking`); what it writes
appears when the transaction commits (`CommitAdd`, `CommitLock`, ...), where the
rows it wrote are exactly those it holds.  The order of the statements of each
handler is the operator `Then`.  `transitionShipmentStatus` and
`completeLegAndActivateNext` open their own transaction from inside the
handler's: on PostgreSQL that is another client of the pool
(`db/postgres/transactions.js`), so their reads see committed rows only and
their writes (`WriteStatus`, `CommitLeg`) are final before the outer COMMIT and
survive its ROLLBACK.  `Abort` is every way a request ends early after its first
step: lost connection, dead process, timeout of the pool, deadlock victim.  A
refusal at the first read changes nothing and is not a step.

`createTransportRun` is one step: a run and its manifest are inserted in one
transaction and nobody can name them before.

### FieldWork, OfflineSync

`FieldWork` is what the offline gateway promises: an operation recorded on the
device takes effect once, in the order of recording, and leaves the device only
then.  `OfflineSync` is the code of both sides.

| Variable | What it is |
|---|---|
| `store`, `fallback` | the IndexedDB object store, and the localStorage copy written when it fails |
| `made` | operations recorded so far (history) |
| `log` | `offline_sync_logs.status` per operation |
| `effect` | how many times the domain call committed, 2 for more than once (history) |
| `call` | each `POST /offline/sync` in progress: operations left, the one at hand, those acknowledged, and whether the caller still listens |
| `overlapped` | history: operations that two calls were executing at the same time |

`Guarded` are the operations whose domain service refuses or ignores a second
execution: HUB_RECEIVE, DELIVERY_POD and a SCAN with a `scan_uuid`.  Hand-offs
and delivery attempts are not: `recordHandoff` and `recordDeliveryAttempt` do
the work again.  `Callers` are the independent users of `syncOfflineQueue`: the
heartbeat and `online` event (which share the flag `isSyncing`), the manual
button, another tab.  DRIVER_LOCATION, which only overwrites the last position
and for which a second execution shows nothing, counts as unguarded.  `Faults`
selects what may go wrong.  The domain services themselves are one check and one
commit here.

### OrderStatus, Stock

`OrderStatus` is the transition table of `orderService.js`.  `Stock` is one row
of `inventory` and everything that writes it.

| Variable | What it is |
|---|---|
| `row` | `quantity_on_hand`, `_available`, `_reserved`, `_damaged`, `_expired`, `_in_transit` |
| `order` | `orders.status`, `orders.inventory_allocated`, the quantity of the order's line |
| `req` | the requests in progress: endpoint, next statement, the row or the order as it was read |

The code writes the row in two ways.  The state engine, receipts, losses,
adjustments, stocktakes, supplier returns and refunds select it, compute new
values and write those (`SelectRow`, `UpdateRow`); what each moves and which
columns its UPDATE names is an operator with the name of the function
(`ReserveStock`, `WriteOffStock`, ...), collected in `Shifts`.  Orders and the
point of sale add to and subtract from the columns in SQL (`Checkout`,
`CommitTransition`, ...), which PostgreSQL applies to the row as it is when the
row lock is granted.  A SELECT is a step; an UPDATE and what follows it up to
COMMIT are one step, because no other request can write the row meanwhile.
`assertInventoryInvariant` is `Accepts`: it judges the row the request computed,
not the stored one, and a refund does not call it.  `SUPER_ADMIN` is the `admin`
of `ReadForTransition`: the table does not bind that role.

An order has one line here.  Its product and branch never change, so two reads
of an order differ in status, flag and quantity.  Two edits of one order that
overlap can leave the lines of both in the code; the model keeps those of the
last one.

### Payments

`paymentService.js`, `darajaService.js` and the webhook route, with the staff
requests that move an order meanwhile.

| Variable | What it is |
|---|---|
| `intent` | `payment_intents.status`, `provider_reference` |
| `payments` | rows of `payments` in the order of their COMMITs: intent, reference, who wrote it, status, amount given back |
| `order` | `orders.status`, `orders.payment_status` |
| `callbacks` | `payment_callbacks`, unique per reference |
| `push` | what became of each prompt on the customer's phone (external) |
| `req` | requests in progress: endpoint, next step, the intent, order and callback row as they were read |
| `orphans`, `dropped`, `invented` | history: callbacks that named no intent, callbacks whose handler died after which the route answered 200 all the same, references the simulated query called paid |

A call to Daraja is a step between two transactions: the prompt may be out
before the intent knows its reference, and the callback may come first.  With
`"network"` in `Faults` the call throws and the code falls back to its
simulator, which answers "paid" to a status query.  A settlement reads the order,
then inserts the payment and writes the order's status in one transaction, and
the SUM over the payments is taken there: two instalments that commit together
miss each other.

### LastMile

`deliveryExecutionService.js`, `codService.js`, the dispatch board
(`dispatchService.js`) and the status route, on the same shipments.

| Variable | What it is |
|---|---|
| `status` | `shipments.status` |
| `task` | `deliveries.status`, `attempt_count` |
| `tries` | `delivery_attempts`, in order of commit: number and result |
| `proof` | tasks with a row of `proof_of_delivery` |
| `exceptions` | exceptions raised at the last attempt |
| `cod` | `cod_settlements` of a shipment |
| `req` | requests in progress and what they read |
| `boarded`, `broken` | history: proofs taken on the board, which moves no shipment; shipments moved by a nested transaction whose outer one rolled back |

### Inbound

What happens to parcels that arrive: `custodyService.js` (scans, batches of
scans, receiving sessions), `receiveManifest`, and customs
(`customsService.js` and the release in `transportService.js`).

| Variable | What it is |
|---|---|
| `status`, `item`, `manifest` | `shipments.status`, `manifest_items.status`, `manifests.status` |
| `session` | `hub_receiving_sessions`: status and the three counters |
| `unload`, `missing`, `variance` | `hub_receiving_items`, discrepancies for a missing parcel, the other discrepancies |
| `scanned` | rows of `scan_events` per `scan_uuid` |
| `customs`, `exceptions` | `shipment_legs.customs_status`, exceptions of type CUSTOMS_HOLD |
| `req` | requests in progress |
| `late`, `excepted`, `stranded` | history: bay scans committed after the completion had read the session, shipments a completion moved to EXCEPTION, shipments moved before a rollback |

A bay scan asks nothing of the shipment and writes AT_HUB whatever its status;
the completion of a session moves each missing parcel to EXCEPTION in a
transaction of its own and rolls its own back if one refuses.  A batch of scans
is one transaction and one step.

### Outbox

The queue (`notificationService.js`), the worker
(`notificationWorkerService.js`) and the delivery reports
(`routes/notifications.js`).

| Variable | What it is |
|---|---|
| `owed`, `lost` | messages of committed transactions still to be queued, and never queued: `enqueue` runs after the COMMIT |
| `outbox` | `notification_outbox` by id: status, `retry_count`, whether its backoff is running |
| `logs` | `notification_logs` of successful attempts |
| `mail` | messages that may have reached a carrier (external) |
| `drain` | a drain of the queue by the worker, or by a resend, which does not look at the flag `isProcessing` |
| `rejecting`, `rejected` | delivery reports that found their row, rejections written |
| `cause`, `unlogged` | history: reasons to send a row once more; rows that may be SENT without a log row |

Time is only "the backoff has elapsed" (`Elapse`).

### Procurement

`procurementService.js`: requisitions, purchase
orders, receipts, supplier invoices, payments and returns.

| Variable | What it is |
|---|---|
| `requisition`, `order`, `invoice`, `return` | the status columns |
| `source` | the requisition an order was converted from |
| `received`, `receipts` | `received_quantity` of each line, and the units of its receipts |
| `paid`, `payments` | `amount_paid`, and the amounts of the rows of `supplier_payments` |
| `deducted` | times the units of a return left the inventory |
| `req` | requests in progress: what was read before the transaction |
| `over` | history: orders with a delivery sent with `allow_over_receiving` |

Handlers read a row, decide, and then write in a transaction that does not look
again.  `received_quantity` is written relative to the row, `amount_paid` is
written absolute.

### PointOfSale

The counter: `posShiftService.js`, the checkout, exchange and shift routes of
`routes/pos.js`, `counterBookingService.js`, `routes/refunds.js` and the
idempotency middleware with its repository.

| Variable | What it is |
|---|---|
| `shift` | `pos_shifts`: status, cashier, float, totals, expected and counted cash, variance |
| `drawer` | sums of `cash_drawer_movements` per shift: floats, cash sold, payouts |
| `sales` | sums of the sales and bookings of a shift, and of their cash payments |
| `moved`, `exchanged` | what staff took from the drawer, and the REFUNDED payments of exchanges |
| `refund`, `repaid` | `refund_requests.status`, rows of `refunds` for each |
| `response`, `executed` | the response stored for an idempotency key, the checkouts committed under it |
| `req` | requests in progress: handler, next statement, cashier, key, the shift they looked up, amounts |
| `forgotten`, `rolled` | history: keys whose response was lost or not found; shifts with a payout whose exchange rolled back |

A sale finds the shift first (`FindShift`), reads customers, products and stock,
and writes in one transaction (`CommitSale`) to the shift it found, whatever has
become of it.  A super admin without a shift gets one on the way (`CheckOpen`,
`OpenShift`, `UseOpened`).  An exchange that owes the customer money takes it
from the drawer in a transaction of its own (`RecordDrawerMovement`) before its
own COMMIT (`CommitExchange`).  The middleware stores a response after the answer
was sent (`SaveResponse`), a refusal as well as a success; a lookup that fails
lets the request through.

### The contended histories

`Payments`, `LastMile`, `Inbound`, `Procurement` and `PointOfSale` carry a variable
`contended`: the rows on which two requests have overlapped.  Much of this code
checks a row outside the transaction that writes it, so most agreements between
tables hold only where requests on the same row came one after the other.
Rather than checking those with one request at a time, the runs have two at a
time, and each property says which of its parts survive an overlap (no
exception for `contended`) and which do not.  What overlaps on *different* rows
is covered by both.

## 4. Runs

All bounds are the sets the configuration files give.

| Run | Instance | What it shows |
|---|---|---|
| `linehaul_serial` | one request at a time, 2 shipments, 1 run, all 7 handlers, 4 staff targets, abort anywhere | a manifest adds up (`ManifestAddsUp`: items follow it, stored totals count them); sealed manifests keep their items; shipments follow the lifecycle (refinement) |
| `linehaul_race` | 2 concurrent requests, 1 shipment, 1 run; add, lock, dispatch, arrive, receive | what interleaving cannot break: run and manifest agree, nothing moves on a draft, the crew of a run on the road is marked; opposite lock orders do deadlock, and with the detector every request ends |
| `sealed_race` | the smallest instance | finding 1 |
| `offline_serial` | 4 operations, one caller, answers lost anywhere | implements `FieldWork`; every operation leaves the device |
| `offline_faults` | 2 operations, one of them guarded, 2 callers, 2 overlapping calls, all faults | `LogIsTrue`: nothing leaves unlogged, PROCESSED is never a promise; a guarded operation takes effect at most once unless two calls execute it at once |
| `stock_serial` | one request at a time, abort anywhere; all 22 endpoints, 1 order, quantities 1 and 2, 2 units to begin with, at most 2 in any bucket | the buckets balance; what is available never goes negative; ready orders are allocated and cancelled ones are not; orders conserve units |
| `payments` | 2 concurrent requests, an order of 2 paid in two instalments (one by M-Pesa, one in cash), 2 prompts, the provider unreachable, webhook handlers that die | one settlement per callback; intents, payments and refunds agree; what is credited was charged; PAID if and only if covered; a settlement does not revive a cancelled order; every charge is accounted for (liveness) |
| `lastmile` | 2 concurrent requests, one shipment with cash to collect and a task of two attempts, or one with two tasks of one; transactions that roll back | proof and shipment agree; attempts, exceptions and returns agree; what is handed over has a task; cash is on one settlement whose status is true, and reconciled once |
| `outbox` | 2 messages, batches of 2, 2 retries, one crash, failing statement, resend or rejection | repeats have a cause, retries are bounded; SENT is true; every queued message settles (liveness) |
| `inbound` | 5 requests, two at a time; a parcel of a manifest that crosses a border and one that is on none; one session; two scans and the batch of both | the counters count parcels, a closed session reports every parcel truly, a scan sent twice is recorded once, shipments move along the table, a customs release resumes |
| `procurement` | 5 requests, two at a time; a requisition, 2 orders of 2 lines, an invoice of 2, a return; rollback anywhere | statuses, lines and receipts agree; balances agree with payments; requisitions and returns are done once; orders only move forward |
| `pos` | 5 requests, two at a time; a cashier and a super admin, 2 shifts, a tender of 2 of which 1 in cash, payouts of 1, one key, one refund request; rollback and death anywhere | the shift, its drawer and its sales agree; a cashier has one open shift and the variance of a closed one leaves nothing out; a closed shift stays as it is; a checkout under a key and a refund are made once |

Why these are enough to be interesting: every action of every module fires in
the passing runs.  Two requests suffice for every pairwise race, and a lost
update or a stale read needs no third party; one shipment puts both requests on
the same rows, and two shipments let the loops of `lockManifest`,
`dispatchTransportRun` and `receiveManifest` fail half-way.  Two operations with
two calls give each call a prefix the other has executed.  Two lines per
order make "one line full, the other not" possible; two messages put a row
behind another in a batch.  Larger instances were explored where the machine
allowed: `inbound` with three parcels of which two are on the manifest,
`procurement` with six requests, `outbox` with two failures.  The invariants
that have a proof hold for every instance.

Bounds that are not simply the size of a set:

- `AfterRace = FALSE`: once two requests have overlapped on a row, no new
  request is made on it.  What happens afterwards is under the exception of the
  properties anyway; the requests in progress run to their ends.
- `MaxPayments` (`payments`), `MaxRequests` (`inbound`, `procurement`, `pos`): staff ask
  for nothing more after so many; everything under way goes on.
- `MaxTrouble` (`outbox`): how many crashes, failing statements, resends and
  rejections there are altogether.  Each of them may come anywhere.
- `MaxTries`, `MaxRepeats`: rows of one kind for one task or parcel.
- `Asleep = {"IN_TRANSIT"}` (`lastmile`): nobody asks anything of a shipment that
  left the hub again.
- `StaffTargets`: the statuses staff write by the transition route.  DELIVERED is
  not among them in `lastmile`: the route accepts it without a proof, and
  `ProofAgrees` would say only that.
- `MaxStock`: a write that would leave `-MaxStock..MaxStock` is not taken.  Two
  units and quantities of one and two make every comparison come out both ways,
  and reserved goes below zero within the bound.

Deadlock is checked in the linehaul and stock runs.  In the others there is
nothing more to do once the bound is reached (`OfflineSync`: once every
operation has left the device), and their configurations say so.

Symmetry is used in `lastmile`, `inbound`, `procurement` and `pos`, which check
safety only.

`linehaul_serial` checks what holds only of one request at a time.
`ManifestAddsUp` and `ManifestSealed` need it because the manifest status is read
before the transaction and two adds count without seeing each other;
`FollowsLifecycle` because the UPDATE of a status names no expected status.
`stock_serial` too: between the read and the write of an absolute writer another
request may change the row, and then `InBalance` fails; between the check and
the update of an exchange or of READY_FOR_DISPATCH, `AvailableNotNegative` does.
Which part survives concurrency is what the theorems of section 5 say.

`TypeOK` is a property of the runs `lastmile` and `inbound`; in the other modules
only its proof stands (section 5).

Fairness.

- `Linehaul`: `SF(Step(q))`, because Node keeps running a handler whose statement
  has returned and PostgreSQL grants a row lock to waiters in the order of its
  queue, so a request whose lock is free again and again gets it; and
  `WF(Victim(q))`, PostgreSQL's deadlock detector, which aborts a member of a
  cycle.  No fairness is assumed of requests arriving or of other failures.
- `OfflineSync`: the 30 s heartbeat starts a sync while the store is not empty,
  the gateway runs on, an answer that can be delivered is, and from some time on
  connectivity is not lost again (`Reconnects`); without the last the device
  could be cut off in every call for ever.
- `Payments`: `WF(Proceed(q))`, a handler that can run does; and
  `SF(ReadCallback(q, r))`, the provider calls the webhook for every outcome and
  the server takes the call whenever it can.  The provider does not repeat a
  callback that was answered, and the route always answers 200: a handler that
  died has lost it (`dropped`).
- `Outbox`: the worker's `setInterval` starts a drain while a row is due, an
  operator's resend once asked for runs, a drain goes on to its end, the backoff
  elapses, what was committed is enqueued and a report that found its row is
  written.  None of this is assumed of crashes or of the carrier: an attempt may
  fail as often as there are retries.

## 5. Proofs

Every theorem is for all values of the constants, from the assumption its module
names on them.  `TypeCorrect` (in `PaymentsProofs`, `Typed`) is type correctness
in each.

`LinehaulProofs` proves, for every number of requests, shipments, runs, legs,
vehicles and drivers and from `RoutesAssumption` alone: `RunsAndManifestsAgree`,
`DraftsStandStill` and `CrewsAreMarked`.  They follow from one inductive
invariant (`Invariance`), whose conjuncts beyond the goals are:

- `Typed`: types, and which statements belong to which handler (`Stage`), so
  that a statement that names a run or a shipment always has one;
- `RowLocksExclusive`: two open transactions never hold the same row;
- `LegsClaimed`: a leg held by an add is not on the road, and one held by a
  dispatch names its manifest.  This is what the locks buy: the leg was chosen
  by a WHERE clause when the statement ran and is written at COMMIT, and nobody
  can have changed it in between.  `NothingMovesOnADraft` is not inductive
  without it;
- `RunExists`: a request works on a run that was created, so that a commit never
  turns a missing run into one; `Crewed`: a run on the road has a crew.

The step lemmas first reduce each of the 30 actions to what it does to one group
of variables (`LockMove`, `LegMove`, `RunMove`, `ItemMove`, `CrewMove`); each
conjunct is then preserved by that shape (`LocksStayExclusive`, `ClaimsKept`,
`AgreementKept`, `DraftsKept`, `CrewKept`).

Its last section assumes `OneAtATime` (`\A p, q \in Requests : p = q`), for any
number of shipments, runs and legs, and with `Abort` anywhere.  It proves
`ManifestsAddUp`, `ManifestsStaySealed` and `LinehaulFollowsLifecycle`, the
refinement of `ShipmentLifecycle`.  `sealed_race` shows that the assumption is
needed for the second.  The invariant is `SerialInv`: `ManifestAddsUp` together
with `Stands(req[q])`, what the request relies on:

- `Editable`: the manifest status an add or a removal has read;
- `ItemsHeld`, `Recounted`: the item an add or a removal writes, and that the total it
  computed is what its commit leaves;
- `Swept`: the loop of a lock, dispatch or receipt misses no item (each is still
  to come, in hand or written), which is why a commit moves all of them, and
  `NotShort`, that a receipt closes a manifest only with nothing missing;
- `Legal`: the status about to be written is one the table allows.

Most statements only take the request on (`Passed`, `PassedStands`); one lemma
each covers those that do more (`InsertGoesOn`, `RecountGoesOn`, `FetchGoesOn`,
...) and the commits (`AddAddsUp`, `RemoveAddsUp`, `SweepAddsUp`).

`OfflineSyncProofs` proves, from `OpsAssumption` and under every fault:
`LogTellsTruth`, by an invariant that adds what a call in progress relies on:
what it has acknowledged is logged (`Acknowledged`) and what it is about to
record has taken effect (`Performed`).  `GuardedAtMostOnce` adds `CheckStands`:
the guard that a call passed still stands when it commits, as long as no other
call executes the same operation.  With two that do, both may pass it first;
`overlapped` is the history of just that.  `PromiseKept` is the refinement of
`FieldWork` with one call at a time (`OneCall`), for any number of operations and
answers lost anywhere; and, beyond what `offline_serial` checks, with crashes and
refused log rows too where every operation is guarded (`Mild`).  Its invariant
`PromiseInv` says that the call works on the first operation it has left, that
what is left behind in the queue was done or recorded later (`Batch`), and that
work not logged yet is about to be, or would not be done again (`DoneIsLogged`).

`StockProofs` proves, from `StockAssumption`, for any number of requests, orders
and units:

- `OrdersConserve`: no interleaving of order requests makes or loses a unit,
  because each step moves the same amount out of one bucket and into another;
- `RelativeBalance`: if `Operations` has no absolute writer, the buckets balance
  under any concurrency.  The equation is inductive by itself here, since no
  step depends on an earlier read of the row;
- `SerialBalance`, `SerialAvailable`, `SerialAllocation`: with at most one
  request (`\A p, q \in Requests : p = q`) and every endpoint.  They share the
  invariant `SerialInv`, which adds `Fresh` to the three goals: what the request
  in progress has read (row, order, quantity, the result of its check) is still
  what is stored.  `Fresh` is exactly what a second request destroys.

`PaymentsProofs` proves, from `PaymentsAssumption`, for any number of intents,
orders, references and requests: `CreditsAlwaysStand` (from
`SettledOncePerCallback` and `Charged`), `LedgersAgree`, `MovesConfirmed`.  The inductive invariant is the conjunction of
types, `Overlaps` (two requests on one intent or order make it contended, so on
an uncontended one there is a single request), `CallbackInv` (a settling
callback holds the unique row that no committed one has), `CreditInv` (a
reference a request is about to credit was charged or invented), `WasInv` (what
the request read is still stored where nobody else works), `RefundInv` and
`SuccessInv` (an intent is SUCCESS, or about to be, exactly when one payment
stands).  `LedgerAgrees` needs all but the last two of the others.

`PaidWhenCovered` is about a sum over the ledger.  `CoverInv` says that the sum a
settlement read is, on an uncontended order, still the one it commits against;
`CoveredInv`, which holds whatever overlaps, that a settlement about to write PAID
brings the order to its total if everything ever completed is counted: a refund
may have taken some of it back since.  The sum is a recursive function over the
prefixes of the ledger; what an append or a refund adds to it is proved for every
length by the lemma `Induction`, which takes the least number outside a set and so
needs no theorem with an operator parameter.

`OutboxProofs` proves, from `OutboxAssumption`, for any number of messages, any
batch size and any limits: `SendsAreBounded` (from `RetryInv`: the count a drain
read is bounded, and so is what it writes, plus one per resend; and `RepeatInv`:
what reached a carrier is paid for by an attempt, a cause or a drain that is
about to log it) and `WhatIsSentStands` (`SentInv`, `LogInv`: the log row of
a SENT row exists, and its rejection has not been written, or a drain has the
row in hand).

`ProcurementProofs` proves, from `ProcurementAssumption`: `GoodsAllAgree`,
`InvoicesAllAgree`, `EverythingDoneOnce`, `ForwardOnly`.  Two inductive
invariants divide the work: `BooksInv` is what holds *whatever overlaps* (sums of
receipts, FULLY_RECEIVED only when full, the balance never above the payments);
`AgreedInv` is what holds of rows that are not contended, and its extra conjunct
`Current` says that what a request read of such a row is still there.

`PointOfSaleProofs` proves, from `PointOfSaleAssumption`, for any number of
requests, cashiers, shifts, keys and refunds and any amounts: `DrawersAddUp`,
which is inductive by itself (`BooksInv`) because every write of the ledger is
relative to the row; and `ShiftsAlwaysAgree`, `ClosedShiftsStand` and
`AlwaysMadeOnce`, from the invariants of the rows that are not contended: a shift
that a request is about to close still has the expected cash it read, a cashier
for whom one request is about to open a shift has none, a key under which a
request runs has no response, and a refund that is being approved was not paid.

`DrawersAgree` adds that no more left a drawer than was handed out: the drawer of a
shift whose exchanges did not roll back explains every payout, those of the
requests in progress included.  The sum over these requests is not written down as
an operator but carried as the existence of a function of sets that starts at zero
and grows by each request's payout (`IsSum`); a step of one request takes that
request out and puts it back.

`LastMileProofs` proves, from `LastMileAssumption`, for any number of shipments,
tasks, attempts, settlements and requests: `TypesHold`, `ProofsAreOfDeliveries`,
`AttemptsAgreeAlways`, `CashAgreesAlways`, `ReconciledStaysClosed`.  The invariant
`Base` adds to them `Found` (the task or settlement a handler found is there when
it writes), `Noted` (two requests on a shipment have made it contended) and
`Current`: on an uncontended shipment the attempt counter, the status the move
left, the missing proof and the settlement that a request has read are still
stored at its commit.  `Numbered` says that failures and the delivery of a task
are numbered without gap or repetition, from which the cardinalities of
`AttemptsAgree` follow.  `ProofsAgree` has two hypotheses, both of which the run meets:
staff do not write DELIVERED and the statuses of the last mile by the transition
route, and no shipment has them to begin with.  Without the first it is false, as
section 4 says of `StaffTargets`.

The second part of `OfflineSyncProofs` is about `Inbound`, which it extends too (so
`OfflineSync` says `SyncInit`, `SyncNext`, `SyncSpec`): a SCAN with a `scan_uuid` and a
HUB_RECEIVE are guarded operations of the queue because of what the hub does with
them.  It proves, from `InboundAssumption`, for any
number of parcels, sessions, scans and requests, for batches of any length and
any repetition in them: `HubTyped`, `CountersAlwaysAgree`, `ReportsAgree`,
`MovesStayLegal`.  The invariant `HubInv` adds to the goals:

- `Overlaps`: two requests about one shipment have made it contended;
- `Relies(req[q])`, what a request in progress relies on for shipments that are not:
  the move it checked is still allowed (`MoveStands`), a scan still knows the status
  (`KnownStands`), the parcel to be unloaded is in no row yet (`ItemStands`), the
  released shipment is not on hold (`ReleaseStands`);
- and of a completion whatever overlaps: it has every parcel that was not unloaded
  before it, still to come or behind it as lost (`Found`); those lost are those it
  moved to EXCEPTION (`LostAreMoved`); without a flag, a discrepancy came after it
  read the counters (`CleanSoFar`);
- `VarianceInv` and `MissingInv`: a discrepancy is of a damaged or unexpected row,
  and only a closed session reports parcels missing.

A step of one request leaves what another relies on because it changes rows of
its own shipment only (`Leaves`, `StillRely`).  The four counters are sums over
shipments, proved by induction over subsets (`SumZero`, `SumGrows`), and the scans of
a batch by induction over its prefixes: a shipment is where it was, or one or two
steps of the table further.  The proof showed that `CleanSessionIsClean` as it then
stood said less than was meant (a conjunct stood one column off), and that a parcel
may be missing in a session that completed clean if it is contended; both are as
they should be now.

Only model-checked: liveness (`EveryRequestEnds`, `EveryOperationLeaves`,
`ChargeIsAccounted`, `EveryMessageSettles`), which needs fairness and ENABLED, out of
the prover's reach.  The theorem about `FieldWork` and those of the serial runs
assume one call or one request at a time, as the runs do; all others are of any
number.

## 6. Findings

One is a run: `sealed_race` (`transportService.js:379`).
`addShipmentToManifest` and `removeShipmentFromManifest` read the manifest
status before their transaction; a lock that commits in between is not seen, and
the sealed manifest gains or loses a parcel (ARCHITECTURE.md:148: "parcels cannot be
silently added, removed, or reassigned").

The others were met while modelling.  The models contain them as they are, and
the properties are stated around them.

Goods on the road:

- `shipmentService.js:582`: two transitions read OUT_FOR_DELIVERY; one writes
  DELIVERED, the other then writes DELIVERY_FAILED over it, although the function
  "enforces the formal state machine" (:532).
- `transportService.js:513`: a failure after a nested transition leaves a
  shipment LOADED that no manifest has loaded.
- `dispatchTransportRun`, `arriveTransportRun` and `receiveManifest` do not check
  the status they follow, and no handler asks whether the vehicle is in
  MAINTENANCE.
- `transportService.js:1014`: a customs hold tries to put the shipment on hold and
  ignores a refusal, so a held leg may have a shipment that moves on.
- `custodyService.js:628`: a bay scan writes AT_HUB over any status, terminal ones
  too; a manifest one of whose parcels was scanned at the bay can no longer be
  received; a session with a missing parcel that may not go to EXCEPTION never
  completes; a session that was flagged may be completed again, and reports
  again, and if a scan overlapped its first completion the second may clear the flag
  of a session that has a parcel reported missing (seen with `AfterRace = TRUE` and
  three requests).

The last mile:

- a rollback after the nested commit strands the shipment: DELIVERED without a
  proof, or READY_FOR_DELIVERY without a task, and the retry is refused
  (`deliveryExecutionService.js:426`);
- attempts that succeed or are rescheduled do not advance the counter, so a
  number repeats; after a restart a task may fail more often than its maximum,
  and each failure raises another exception;
- a proof that comes after the reconciliation opens the settlement again; a proof
  taken on the board moves no shipment.

Devices, messages, money:

- `offlineSyncService.js:51`: two calls execute the same operation, since the log
  row is looked up before and inserted after it; :52: a FAILED log row answers
  DUPLICATE and the device drops what was never done.  An operation saved to
  localStorage (`offlineQueue.js:96`) is not sent while IndexedDB can be read.
- The outbox row is inserted after the COMMIT, not "within the same atomic
  database transaction" (ARCHITECTURE.md:248): a crash in between loses the
  message.  There is no DEAD_LETTER.  A carrier that cannot be reached falls back
  to the simulator and the row is SENT.  A rejection neither counts a retry nor
  waits.
- `checkTimeouts` has no caller: an intent whose callback is lost stays
  PROCESSING for ever.  The webhook answers 200 even when its handler failed
  (`routes/payments.js:30`).  After an overlapping retry a second charge is
  ignored (`paymentService.js:370`).
- `orderService.js:362`: `createOrder` marks the order allocated whether or not
  its guarded UPDATE found stock; cancelling or dispatching it then drives the
  reserved bucket below zero.  Nothing takes a delivered order's units out of the
  transit bucket.
- Procurement: two receipts of the last units of different lines both leave
  PARTIALLY_RECEIVED; overlapping payments lose one from `amount_paid` (never
  the other way); two conversions of one requisition make two orders.

The counter:

- a sale that overlaps the closing of its shift is recorded in the closed shift
  and is missing from its variance (`posShiftService.js:240`); two requests of
  one cashier at once open two shifts (`:56`);
- an exchange pays out of the drawer through a call that is not given the
  transaction (`pos.js:779`), so the payout stays when the exchange rolls back;
  `in_drawer_cash` (`posShiftService.js:35`) subtracts `total_refunds_amount`,
  which nothing writes, and no payouts;
- a refund request can be rejected whatever its status (`refunds.js:232`): one
  that was approved and paid becomes REJECTED.  The amounts of several requests
  for one sale are not added up;
- the idempotency middleware is mounted before authentication, so every key
  belongs to user 1; it keeps refusals as well and replays them; a second send
  before the first has been answered executes again.

## 7. Not modelled

- Linehaul: SQLite, where a nested transaction is a savepoint of the same
  connection (the deployed database is PostgreSQL); checkpoints, audit and
  tracking rows, which no handler reads back; weights and volumes beside the
  count; the size of the connection pool, of which only the timeout is there, as
  `Abort`.
- Offline sync: what the domain operations do, batch size limits and
  authentication.
- Stock: transfers, which join two rows and clamp at zero, so that they do not
  conserve units even one at a time; stocktake sessions before their variances
  are applied; batches, serials and costs; the movement ledger and the write-off
  records, which nothing reads back into the row; orders of several lines; the
  dispatch board, which also writes `orders.status`; `dispatchStock` and
  `receiveInTransit`, which nothing calls.
- Payments: the timeout sweep (no caller), card and bank methods, which settle as cash
  does; the reconciliation report, which only reads.
- Last mile: exceptions raised by hand, the evidence a proof must carry, who the
  driver is, `variance_amount`.
- Inbound: hand-offs between people, which append to a chain no handler reads
  back; the investigation of a discrepancy, which touches nothing else.
- Procurement: conversion by `POST /orders` with a requisition, which checks
  nothing; the same line twice in one delivery; supplier histories and telemetry,
  which only read.
- Point of sale: shifts of a cashier at other branches, held carts, discounts, how
  what is not cash is split over the methods, the sale count; `payment_status`
  of a sale; a key sent with another payload (422, nothing changes) and the
  expiry of a key; keys on other requests than checkouts.
- Fleet: `updateVehicle` and `createVehicle` give a driver a vehicle without
  taking it from the former one, so the two columns disagree one request at a
  time already and there is no agreement to check.

The components of section 1 without a module are listed in `PROJECT.json` with
their reason: reference data, read-only views, request guards, operator tools,
user interface.
