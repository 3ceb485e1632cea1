# Verification of the Pizza Guys point of sale

The repository is a point of sale for a chain of pizzerias: an on-site server (the *Edge*,
`services/edge-api`) that runs the room, the kitchen and the till of one location, clients that talk
to it over HTTP and WebSocket, and a *Cloud* (`apps/cloud-api`) that owns the catalogue and collects
the results of the day. This directory holds TLA+ models of its core logic, the TLC configurations
that check them on small instances, and theorems checked by TLAPS.

## 1. Inventory

Paths without a first directory are under `src/services/edge-api/src/`.

### Components, their state and operations

| Component (sources) | State | Operations | What makes it correct | Module |
|---|---|---|---|---|
| **Table account and payment** (`lib/payment.ts`, `routes/pos.ts`, `ws.ts`, `lib/bill.ts`) | none of its own; a payment in flight is a suspended handler with the values it read | `executeTablePayment`, called by `POST /pay`, `CONFIRM_PAYMENT`, `TRIGGER_FISCAL_RECEIPT`; splits, pre-bill, payment requests | nobody is charged twice; what is collected is not forgotten; every receipt is recorded; amounts agree | TablePayment, Till |
| **Table runtime** (`lib/runtime.ts`, `routes/table-transfer.ts`) | in memory: status, lock, guests, union of each table; orders; splits; payment requests | locks, seating, unions, transfers, freeing a table | no line is lost or shown twice; no table stays locked; no open account is hidden | TableRuntime, TablePayment |
| **Reservations and room** (`lib/reservations.ts`, `routes/sala.ts`) | SQLite: rooms, tables, reservations | CRUD with guards, arrival of a reservation, deletion of tables | a deleted table takes no account with it | TableRuntime (arrival, deletion) |
| **Cash session** (`lib/cash-session.ts`) | SQLite: sessions (business date, service, OPEN/CLOSED), movements | open, close, movement, correction | one session open; its documents counted once | TablePayment, CashDay, Till |
| **Day ledger, fiscal archive** (`lib/day-report-ledger.ts`, `lib/fiscal-document-archive.ts`, `lib/fiscal-document-actions.ts`) | SQLite, with a cache: transactions and voided lines of a date; fiscal documents | record, clear, file, void and restore | the two books agree; numbers without gaps | CashDay, TablePayment |
| **Daily closure** (`routes/closure.ts`, `lib/closure-state.ts`, `lib/closure-archive.ts`) | in memory: Z report of today, last closure; SQLite: archive | pre-check, Z report, complete | a day is closed once, nothing of it is lost, nothing unpaid is wiped | CashDay, TableRuntime |
| **Business date** (`lib/business-date.ts`) | pure | the accounting date of now | never goes back | CashDay |
| **Runtime persistence** (`lib/runtime-persistence.ts`) | SQLite: one row with the runtime | save, restore | a restart loses no account and locks no table | CashDay, TableRuntime, OrderFlow |
| **Orders, kitchen, KDS** (`routes/orders.ts`, `lib/kds-broadcast.ts`, `lib/call-course.ts`) | in memory: orders, KDS tickets, discount tokens | draft, submit, void, call course | an order sent is on paper and on the display; a discount is granted once | OrderFlow |
| **Comanda, handheld** (`packages/comanda`, `apps/handheld-web`) | the device's copy of a draft | take the table, load, edit, save, send, leave | the lock's holder works on the last draft | OrderFlow |
| **Till front end** (`apps/edge-web`) | selected table, bill shown, request, check | select, load, split, pay | what is paid is what was read | TillScreen, Till |
| **Fiscal arithmetic** (`packages/fiscal`) | pure | rounding, VAT, shares | shares add up, errors bounded | Cents, Till |
| **Sync queue, heartbeat** (`lib/sync-queue.ts`, `lib/heartbeat.ts`, `lib/cloud.ts`) | SQLite: `sync_queue`; station state | enqueue, immediate send, tick every minute | every record reaches the Cloud, in order | Outbox, SyncQueue |
| **Cloud catalogue, staff, provisioning** (`apps/cloud-api`: `routes/sync.ts`, `users.ts`, `menu.ts`, `lib/schema-version.ts`; `lib/staff-sync.ts`, `lib/provision.ts`) | Postgres and SQLite: menu, version, operators | edits in three steps, delta, snapshot, handshake | a station at the Cloud's version holds the Cloud's content, and gets there | Catalog |
| **Counter orders** (`lib/counter-order.ts`) | virtual tables | open, pay, delete | as a table | TablePayment (`Counters`) |
| **Electronic invoices** (`lib/invoice.ts`) | files, customers | issue | filed or accounted as failed | TablePayment, CashDay |
| **Hardware bridge** (`services/hardware-bridge`) | none | emit receipt, Z report, print, drawer | answers or fails | awaits of TablePayment, CashDay, OrderFlow |
| Operator sessions and shifts, internal closure and daily report, WebSocket hub, Cloud reports, mail and accounts, KDS and Cloud console, escpos, i18n, ui, validators, types, schemas and seeds, scripts, deployment, e2e | | | see section 6 | none |

### How they interact

One JavaScript thread runs the Edge: code between two `await`s is atomic, everything else may happen
at an `await`. Handlers share the maps of `lib/runtime.ts` and the SQLite database. A payment awaits
the fiscal printer, the drawer, the receipt files and, with an invoice, the invoice files and the
Cloud; the pre-bill and the order submission await printers; the closure awaits files and the Cloud;
the heartbeat awaits the Cloud and overlaps with itself, since `setInterval` does not wait for the
previous tick. The Cloud's handlers await Postgres between every two statements. The clients' view of
a table may be stale: the till sends what it believes, the server decides anew from what it holds.

### What is hard

State read before an `await` and used after it (payments, pre-bill, submit, void, closure, snapshot);
two tills and two handhelds on one table; copies of a draft written back whole; failures after the
fiscal printer has printed; sessions and days closed under a payment in flight; midnight; unions of
tables that are FREE and hold accounts; merges that stop half way; lost, late and repeated requests to
the Cloud; answers that come when another table is selected; roundings that add up; restarts.
`PROJECT.json` lists each hazard at its line with the properties that watch it.

## 2. Plan

Done:

1. **TablePayment**: tables, splits, requests, payments with their awaits, books, sessions.
2. **SyncQueue** with the abstract **Outbox** it implements: delivery to the Cloud, liveness.
3. **CashDay**: sessions of a business date, documents, ledger, Z report, the closure with its awaits,
   crashes between a database write and the save of the runtime.
4. **TableRuntime**: locks, unions, transfers, merges that stop half way, deletion of tables, the
   clearing of the room at the closure, restarts.
5. **OrderFlow**: the devices' copies of a draft, submit with its prints, KDS, calls, voids, tokens.
6. **Catalog**: catalogue version, delta, the gap of builds, the staff registry on both sides.
7. **Cents** and **Till**: roundings, and the amounts of a bill from its lines to the drawer.
8. **TillScreen**: the payment screen against the accounts of the server.

Left, in this order:

- the handheld's screen: its store of drafts, `leaveTable`, which does not await the last write, late
  answers of a reload, reconnection without realignment; the banner of requests of the till;
- menu edits of several rows and presets in Catalog, the location's PATCH that raises no version;
- the reservations' list (numbers of a day, an edit form that writes the whole row);
- the internal closure, operator sessions and shifts.

## 3. Modules

A module `XMC` only adds the symmetry set of `X` and constants a configuration cannot spell;
`XProofs` holds its theorems. Definitions whose comment starts with "Mutant:" are wrong variants of
the definition that follows or precedes them: the property each is paired with in `PROJECT.json`
fails under it.

### TablePayment

One physical table or counter order is an element of `Tables`. One action is one stretch of a handler
between two `await`s.

| State | In the code |
|---|---|
| `status`, `covers`, `prebills` | `TableRuntime.status`, guests whose cover is charged, pre-bill handlers that wait for their printer |
| `lines`, `voided` | the lines of the orders of a table; those whose quantity was voided to zero |
| `roman`, `analytic` | the maps `romanSplits`, `analyticSplits` |
| `request` | `paymentRequests` |
| `session`, `frozen` | `cash_sessions` and the totals written when one is closed (as the documents they count) |
| `desk[d]` | the `executeTablePayment` call of a till: where it waits and the values it read before |
| `issued`, `ledger`, `archive`, `orphans` | receipts printed, in `day_report_transactions`, in `fiscal_documents`, and printed by a call that then failed |
| `collected` | history: the lines of an open account that a paid check was for |

Payments: `Pay` (HTTP), `ConfirmPayment` and `TriggerReceipt` (WebSocket) do the checks and start the
printer; `PrinterIssues`, `PrinterFails`, `FilingFails` are what the awaits answer; `Settle` is the
stretch from the ledger write to the end (share, check or whole account, then the archive), or to the
await of the invoice, after which `InvoiceEnds` writes the archive or fails. `StartPrebill`/`EndPrebill`
are the two halves of the pre-bill. `TransferAll` and `TransferLines` are the two transfers,
`OpenCashSession` and `CloseCashSession` the till.

Abstracted: amounts, prices, discounts and menus (a bill is the set of lines it charges plus a
cover), operators and permissions, the printer's own numbering, and texts. Orders of a table are one
set of lines, as the bill adds draft and submitted ones alike. A line identifier that nothing refers
to any more may be used again, which stands for the endless supply of identifiers.

### Outbox and SyncQueue

`Outbox` is the promise: records are accepted, received by the Cloud, confirmed; nothing is received
that was not accepted and nothing is confirmed that was not received. `SyncQueue` is the code.

| State | In the code |
|---|---|
| `key`, `state`, `row`, `recent` | a row of `sync_queue`: the entity in its payload, `status` (plus NONE: not produced; DIRECT: a closure not queued), its rowid, whether `last_attempt_at` is less than 15 minutes old |
| `sender[s]` | an `await` of the heartbeat, or a loop of `processSyncQueue` (or a send at once) with the rest of its snapshot; `applied` when the Cloud has done its part and the answer is on its way |
| `cloud`, `received` | the version of each entity the Cloud's upserts have left; every record it applied |
| `stray` | requests the station gave up on, or was restarted under, that may still be applied |
| `tries` | history: 0 never sent, 1 sent once, 2 sent again, failed or cut |

`Enqueue` covers the staff routes, invoices, customers and cash sessions, with `TriedAtOnce` for
`tryImmediateStaffSync`, `tryImmediateInvoiceSync` and `enqueueCashSessionSync`; `CloseDay` is the
direct send of `/api/closure/complete`; `Tick`, `BeatFails`, `BeatAnswered` are the tick;
`CloudApplies` is one upsert; `Succeed`, `Fail` the two ends of `process…Item`; `Restart` a stop of
the server at any point. The snapshot of a tick and its test of the 15 minutes are one step, as the
code reads `now` once and tests the values of the snapshot. `Refused` entities are those whose staff
edit the Cloud answers with 409. `SELECT` has no `ORDER BY` and no index on `status`, so SQLite scans
the table by rowid: `First` takes the smallest row.

Assumed: the station is provisioned and active; the Cloud's upsert is one step (its handlers await
between the test of the email and the write, which the model covers by letting two requests for one
entity be applied in either order).

### CashDay

| State | In the code |
|---|---|
| `clock` | time in ticks: an odd tick is a day, the even one after it the small hours, where local and UTC date differ |
| `session`, `last` | `cash_sessions` by business date and service; the session opened last |
| `busy` | tables that are not FREE (the bills on them are in TablePayment) |
| `desk[d]` | a payment: at the printer, or between the ledger and the archive |
| `ledger`, `docs` | `day_report_transactions` by date; `fiscal_documents` with state, session and number |
| `zReport`, `zCount` | `zReportToday`; Z reports the fiscal printer has issued |
| `closer[c]`, `closures` | a request of the closure page and what it has read; `closure_archive` |
| `saved`, `crashes` | the row of `runtime_state`; crashes |
| `window`, `cut` | history: receipts recorded while a closure wrote its report; receipts whose ledger was cleared by a closure that crashed before its row |

`CompleteStart`, `CompleteRefused`, `CompleteRead`, `CompleteClear`, `CompleteSend`, `CompleteFail`
are the stretches of `POST /api/closure/complete`; `CrashWhileClosing` is a stop between
`clearDayReportLedger` and `persistClosureArchive`, which no `await` separates but which are two
transactions. `Save` and `Crash` are the persistence: SQLite survives, memory returns to `saved`.
`VoidDocument` and `VoidAndRestore` may come after the session, or the day, of the document is closed.

### TableRuntime

| State | In the code |
|---|---|
| `rt[t]` | the TableRuntime record: `status`, `by` (lockedBy), `guests`, `into` (mergedIntoTableId), `linked` (linkedTableIds) |
| `draft`, `sent` | lines of the order not yet sent and of the orders sent |
| `asked` | tables with a pending payment request, for everything that blocks a transfer |
| `gone` | tables deleted from the database; the runtime keeps what it held of them |
| `closing` | a closure passed its pre-check and writes the files of the report |
| `placed`, `loose` | history: lines ordered and not ended; those of them that a freed host left hidden, or that were ordered on a deleted table or while closing |

One action is one handler, which never awaits between its first read and its last write; the closure
alone is two (`StartClosure`, `EndClosure`). `Merge` is `mergeTablesInto` with the union, `MergeStops`
the same stopping at a table that cannot move, `MergeRefused` the route that took some locks first,
`TransferRefused` likewise. `Restart` is `importRuntimeState`; the whole state is in the saved row, so
a crash is a restart of an earlier state. Abstracted: quantities, splits (TablePayment), seats and
capacity, the number of guests (somebody or nobody), the time of a lock (any lock may be timed out).

### OrderFlow

One table, several devices. `order[o]` is a draft or an order sent; `dev[d]` is the screen of a device
(map, opening, table) with its copy `cart` and the request it waits for (`posted`, `printing`, `sent`,
`voiding`). `TakeTable` and `TakeByPin` take the lock, `Load` copies the draft, `Save` writes the copy
whole, `Send` is the first request of a submit, `SubmitStart`/`SubmitEnd` the two halves of the second
around its prints, with `SubmitRefused`, `TokenRefused`, `SubmitFails`; `StornoStart`/`StornoEnd` the
void around its print; `CallCourse`, `TablePaid`, `Restart` what else changes an order. `kds` and
`hold` are the tickets of the display and whether the held course waits; `tokens` the discount tokens.
`behind`, `printed`, `twice`, `slipped`, `cut` are histories. A device is never told that its lock was
taken. Left out: quantities, printers by work centre, the dessert queue, ticking off on the display.

### Catalog

`menu`, `users`, `version` are the Cloud's tables, each change of which is a write, a read of the
version and a write of the next one with awaits between (`MenuEdit`, `UserEdit`, `UserDelete`,
`StaffSync`, then `ReadVersion`, `WriteVersion`; `BumpInPlace` for locations; `RequestDies` when the
Cloud stops in between). `held` and `here` are the station's copies, `pending` its jobs not done,
`tick[t]` a heartbeat that overlaps with others: `Beat`, `Delta` or `DeltaRefused`, `ReadTables`,
`Apply`. `Handshake` is `provisionEdge` done again by hand. A row is the number of the change that
wrote it. `untold` is a history: some change raised no version, or two raised it to the same one.

### Cents and Till

`Cents` is the arithmetic of `packages/fiscal` in exact cents; the code holds amounts in binary
floating point and rounds to the cent after each step, which differs only on an exact half cent.
`Till` is one bill: `lines` (price, quantity, voided, discount, check), `cover`, `split`, what the
cashier reads (`screen`), and what a payment leaves: amounts `paid`, receipt totals `shown`, `sales`
lines, `parts` by method, cash in the `drawer`. Each is rounded on its own by the code, and each has
its action steps copied from it (`Book`). `short` and `moved` are histories. Order of requests, prints
and failures are in TablePayment.

### TillScreen

`account[t]` and `pending[r]` are the server, changed at any time by waiters and other tills
(`Seat`, `OtherSplits`, `OtherCancels`, `OtherPays`, `Ask`, `Move`). The screen is `sel` (selectedTable),
`bill`, `space` (workspace), `req` (paymentRequestId), `chk` (analyticCheckId), each set by its own
handlers; `loads[t]` are answers with the bill of `t` awaited, `answer` the answer to the button
pressed last. Abstractions: an answer holds what the server has when it arrives (a bill that changed
since shows as any bill left open); what the screen does while a payment is on its way does not change
it and is taken to happen after; a lock may be answered at any later time; the banner's entries of
requests that are over close nothing and are left out.

## 4. Runs

| Run | Question | States | Bounds and why they are enough |
|---|---|---|---|
| `split_race` | Can two payments in flight break a split, or forget a share? | 883k | one table (splits never look at another), two tills, two receipts: one late handler against one change of the split; two lines and checks so that a split can be rewritten differently; two shares, the least a split has |
| `sessions` | Is each receipt in the books, and how many documents can a closed session gain? | 1.03M | two sessions, so that a late payment can meet a newer one; two tills; two receipts, with and without invoice; one pre-bill |
| `transfers` | Does freeing or moving an account leave anything behind? | 820k | two tables, two lines (a partial transfer leaves one), two requests, a roman split, one till |
| `billed_twice` (violation) | Is a line of a paid check ever on another receipt? | | one till is enough |
| `sync` | Does the queue implement Outbox, in which order do versions arrive, and does each arrive? | 36k | an operator, a refused customer and a day; two records, two senders, one restart, one request that arrives late |
| `closure_lost` (violation) | Does every closure reach the Cloud? | | one closure, one sender, one restart |
| `cash_day` | What may a closure lose or count twice, how are documents numbered, does the date go back? | 736k | two requests of the closure page, a day and its small hours, two receipts, one till, one Z report (so that a second use is a reuse), two closures, one crash |
| `unions` | Is a line ever lost or shown twice, a table locked for good, an account hidden or wiped? | 380k | three tables (host, member, other), two operators, two lines, one table opened at a time beside those that are FREE, one merge, one deletion |
| `orders` | Does the kitchen have what the orders say? Is a discount granted once? Does the lock do its work? | 1.58M | two devices, two lines (one held, one discounted), two orders, one void |
| `till` | How far may receipt, sale, session and drawer be apart? | 417k | two lines with odd prices, discounts 0 and 15 %, three shares (which do not divide), a cover |
| `catalog` | Is a station at the Cloud's version up to date, and does it get there? | 97k | one request of the Cloud at a time, two overlapping ticks, a gap of one build for fifty, three changes |
| `till_screen` | When may the cashier read one bill and pay another? | 993k | two tables, two requests, two checks, one awaited bill per table |

Deadlock is not checked where a bound (receipts, records, crashes) lets a run end, or the system
really rests; `unions` and `orders` check it. No property follows from a bound: the theorems below
hold without them.

The two violations are disagreements between code and text, quoted in `PROJECT.json`: a payment over
the WebSocket bills a whole table in the middle of an analytic split; a closure whose first send is
cut by a restart is never queued.

Other properties one might expect fail too, and the ones checked say how far; their counterexamples
were found with the same modules and are not kept as runs:

- two tills that pay one check at once both print it (`NoLineBilledTwice` with two tills); frozen
  totals of a session miss a late document, one per till at most (`LateDocumentsBounded`);
- a retried staff edit overtakes a newer one (`OvertakeOnlyAfterRetry` says when);
- two completes at once count a day twice, a payment or a crash during the report loses receipts
  (`TakingsLostOnlyWhileClosing`, `CountedTwiceOnlyByOverlap`);
- a day whose closure is never completed is left behind when the next session opens;
- uniting a host to another table, or a merge that stops half way, leaves the two ends of a union in
  disagreement; an account of a united table disappears when its host is paid (`HiddenOnlyByHost`);
- a united table is FREE and can be deleted, although `routes/sala.ts:15` says
  "Tavolo in uso (aperto, bloccato o unito): incassalo o liberalo prima di eliminarlo" (the test at
  line 132 is of the status alone); an account opened on a deleted table blocks the closure and no
  screen shows it, and what is ordered during the report of the closure is wiped unpaid
  (`DeletedTablesHadNoOrders`, `ClosureWipesOnlyStrays`);
- the draft of another device is overwritten, its copy being written whole
  (`HolderWorksOnLastDraft` says who works on the last one);
- a station more than fifty builds behind stays there: `FULL_SNAPSHOT_REQUIRED` is read as no delta;
  two changes at once get one version, or the version goes back (`VersionTellsContent`, `CatchesUp`);
- the sale lines of a roman split, scaled to each share and rounded, add up to the amounts only if
  every share is paid of the bill the split started from: a bill that loses a line and gets another
  with a full discount between two shares leaves them euros apart, though it ends as it began
  (`SalesBelowAmounts`);
- the till shows the bill of another table after a late answer, and a payment can close the request of
  another table (`ForeignBillOnlyLate`, `RequestOfItsTable` say when).

### Fairness

`FairSpec` of SyncQueue assumes that the 15 minutes pass (`WF(TimePasses)`), that timers fire and
calls end (`WF(SenderStep)` for each sender), and that a network tried again and again does not fail
each time for one same record: strong fairness of an answered heartbeat, and, per record, of the
Cloud applying it and of its answer coming back. Weak fairness would not do for the last three, since
a failure disables the step and a later tick enables it again. Nothing is assumed of restarts or of
operators.

`FairSpec` of Catalog assumes that the Cloud's requests end, that a heartbeat goes out each minute
(`setInterval`), and that a tick tried again and again gets through. Nothing is assumed of edits, of
jobs of the station or of a new handshake, which a person does.

The other modules state no liveness: their actions are people's choices, and the promise of progress
they have (a call in flight ends) is that of printers and files.

## 5. Proofs

All theorems hold for every value of the constants that meets the named assumption of the module:
finite or infinite sets of tables, lines, tills, entities and senders, any bound.

**TablePaymentProofs.** `TypeCorrect` is inductive as it stands, with one lemma per group of actions.
`FreeTables` and `Splits` come from `AccountInv`: freeness and splits are tied together by the
*account* of a table (lines or covers), which a split or a request needs in order to exist and which
keeps the table from being free; neither property is inductive without the other. `SharesNeverLost` is
an action property from the same invariant. `OnePending` is proved from its form without cardinality
(any two pending requests of a table are equal).

The books are apart, in the same module: `EveryReceiptAccounted` adds that a handler that waits for
its invoice has its receipt in the ledger. `LateDocumentsAreFew` adds `LateInv`: a payment in flight
has no late document in its own session yet, since it started while the session was open and a till
has one payment at a time.

**SyncQueueProofs.** `QueueTypes`, `QueueImplementsOutbox` and `OrderKept` come from one invariant,
`QueueInv`:
- `RowsInv`: records are produced in order, versions of an entity have growing rows, a closure has one
  version;
- `SendInv`: what senders hold was produced, a closure not queued has one sender, what is confirmed,
  in `applied` or on the Cloud was received;
- `TriesInv`: what the count of tries says: a record never sent flies nowhere, one sent once flies
  with one sender at most and not after its success;
- `OrderInv`: a version is sent only when older ones of its entity are *served* (sent again, or done
  at the first try), and a sender that holds a version holds the older ones too, or they are served.

The argument for the order: a sender takes the first row of its snapshot, older versions have smaller
rows, and the snapshot of a tick misses an older version only if it is done or had failed. When the
Cloud goes from a newer version back to an older one, the older is in flight and served, hence not
at its first try. `TriesKeeps` and `OrderKeeps` are what every step that starts a send shares;
`DoneKeeps` what success and failure share. `SmallestNumber` (a non-empty set of naturals has a
least element) is proved from the well-foundedness of strict inclusion on finite sets, so that the
`CHOOSE` of `Least` is known to exist. The refinement is a case split that maps each step to `Accept`,
`Receive`, `Confirm` or a stutter.

**CashDayProofs.** `TypeCorrect` and `NumbersAreDense` go together: the next number is the size of the
archive plus one, whose range needs that every receipt below `issued` has at most one document and one
handler (`FileInv`). `TheDayGoesOn` needs `DayInv`: an open session is the last one opened, and the
date of the last session is not later than the local one. `NothingElseIsLost`,
`NothingElseIsCountedTwice` and `ClosuresAreOfOneDay` come from `BooksInv`: `BelongInv` (a receipt in
the ledger of a date, in the total a closure has read or archived under it is of that date), `KeptInv`
(nothing is lost, and what a closure under way has not read is in the window), `ApartInv` (the ledger
holds no archived receipt, and a closure under way none archived before it read its totals).
`ZReportsAreUsedOnce` needs `ZInv`: until the process crashes, the Z report in memory has closed no day,
nor had the one of a closure under way when it was read.

**TableRuntimeProofs.** One invariant, `IInv`, of four parts: `Room` (a record is not united on itself
and LOCKED by somebody), `Orders` (types, and `Kept`: the lines and the tables they are on), `Stray`
(lines on a table that is FREE or deleted, and all lines while a closure writes, are in `loose`) and
the types of the rest. `Stray` is what makes `DeletionTakesNoOrders`,
`ClosureWipesNothingElse` and `HiddenByTheHost` go through: a deletion asks for
FREE, the pre-check asks for FREE everywhere, and neither asks for orders. One lemma per action says
which records stay sound and what hides nothing (`NoneHides`), another what becomes of the lines;
`QuietInvariant`, `OrdersInvariant` and `GatheredStep` are what the groups of actions share.
`HiddenByTheHost` is the action property of the same case split. `GuestsLeftByHalfMerges` needs one
more part, `HostsOpen`: a record other tables are united to is not FREE. Almost every step is *tame*,
record by record: it frees no host, and leaves no guests on a record it makes FREE. Two are not: guests
written on a table, which `HostsOpen` covers, and the merge that stops half way.

**CatalogProofs.** `TypeCorrect`, and `VersionIsTrue` from `VersionInv`: what a station, or a tick,
holds at the Cloud's version is what the Cloud has, but for requests that have written and not yet
raised the version; any number of requests and ticks.

**OrderFlowProofs.** `IInv` joins types to five parts: `OrdersInv` (one draft at most, and a handler
under way has an order that is not a draft when it voids), `KitchenInv` (the tickets of an order sent
are what it still has to cook, but for a void that prints and a restart that cut one), `PaperInv`
(what a submit prints, and what its order holds meanwhile, is on paper or slipped in), `TokensInv` (a
token left is of a line not yet printed) and `LockInv` (a device that was granted the lock has sent
nothing since). `KdsMatchesOrders` and `SentWasPrinted` need the handlers under way: the first is
restored by the end of a void, the second decided when a submit ends, on what was printed since it
began. `CallsAreForgottenByRebuilds` is an action property of the same case split.

**TillScreenProofs.** `IInv` is the types, `Sound` (an account is split in one way at most),
`ForeignBillOnlyLate`, and `RequestInv`: the request on the screen is of the table selected, or came
along with a lock. `RequestsAreOfTheirTable` follows from the last, `PaymentsAreAsRead` from `Sound`:
each mode the route chooses anew is that of the account the bill shows.

**TillProofs.** First the roundings, for every amount (`FiveCents`, `HalfACent`, `DiscountedLine`,
`NetAndVat`) and the shares of a split (`SharesAddUp`, `LastShare`, `NoNegativeShare`); then sums. The
amounts of a bill are sums over its lines by `SumFunction` of the community modules. What the proofs
need of it (a sum without an element, of a union, of a part, of a multiple) is proved of a smallest subset where it would fail; there is one (`SmallestSubset`), strict inclusion of finite
sets being well founded. This is an argument by infinite descent on one formula at a time, which the
provers can follow where an induction rule with an operator parameter cannot be cited. With these the
properties of `till` hold for bills of any length, any prices and discounts, any number of shares:
- `SplitInv`: shares are paid in order; what was paid is an even share for each, and the whole total
  once the last one, which takes the rest, is paid; the bill is settled with the last share or check;
- `FreshInv`: before the first payment of a split the books are empty;
- `ChecksInv`: on a bill that has not moved, what was paid is its checks, each rounded to five cents;
- `SalesInv`: the sale lines of a share are off by one rounding a line (`Spread`), which add up over the
  shares of one bill;
- `ReceiptsNearAmounts`, `PartsAddUp` and `DrawerNearBooks` are inductive as they stand, given that one
  receipt is near its amount (`ReceiptIs`: half a cent a unit) and that units are never taken off.

`OnlyStaleScreensAskTooLittle` compares what `Loaded` shows with what `Book` books, mode by mode.

Only model-checked: the two liveness properties (`EveryRecordDelivered`, `CatchesUp`), which with
`ENABLED` are out of the prover's reach. Every invariant and every action property a passing run
checks is a theorem. The two violations are counterexamples.

## 6. Not modelled

- Operator sessions and shifts: tokens with an expiry and one open shift per operator, no step of
  which waits between a read and a write.
- Internal closure and daily report: formats the ledger; its only state is a list of what was printed.
- WebSocket hub: fan-out of events to clients that load their state again; lost events appear in
  TillScreen and OrderFlow as events that never told anybody anything.
- Cloud reports, mail and accounts: queries over Postgres, mail and tokens.
- KDS and Cloud consoles: clients that show what the server answers. The till's panels of cash,
  closure, reservations and documents, the reservations' list and the layout of the room: forms over
  CRUD routes.
- escpos, i18n, ui, validators, types, schemas, seeds: formatting, translation, components, table
  definitions. Scripts, deployment, end-to-end tests.

Within the modelled parts: movements and opening corrections of a cash session, the customer directory
and XML of invoices, changes of payment method and reprints, ledger entries of voids, capacity of
unions, printers by work centre, quantities voided in part of an order, the dessert queue, PIN checks,
and binary floating point. Each is named in the note of its component in `PROJECT.json`.
