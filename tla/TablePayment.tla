---------------------------- MODULE TablePayment ----------------------------
(***************************************************************************)
(* The account of a table of the on-site server and the handlers that      *)
(* collect it (services/edge-api: lib/runtime.ts, lib/payment.ts,          *)
(* routes/pos.ts, ws.ts).                                                  *)
(*                                                                         *)
(* The server runs on one JavaScript thread: code between two awaits is    *)
(* atomic, and any other handler may run at an await.  A payment awaits    *)
(* the fiscal printer, then the receipt files, and (for an invoice) the    *)
(* invoice files and the Cloud; everything it read before is used after.   *)
(* One action below is one such atomic stretch.                            *)
(*                                                                         *)
(* Amounts are left out: a bill is the set of lines it is made of, plus    *)
(* the cover charge.  Orders of a table, draft or submitted, are one set   *)
(* of lines, since a bill adds both; table unions are in another module.   *)
(***************************************************************************)
EXTENDS Naturals, FiniteSets

CONSTANTS
  Tables,        \* physical tables and counter orders: what a bill hangs on
  Counters,      \* those of them that are takeaway or delivery orders
  Lines,         \* order line ids; one that nothing mentions may be reused
  Checks,        \* ids the client gives to the checks of an analytic split
  Desks,         \* tills and handhelds, one payment in flight each
  Requests,      \* ids of the payment requests sent by handhelds
  Sessions,      \* cash sessions, each opened at most once
  CoverCharge,   \* whether the menu and the room apply a cover charge
  MaxReceipts,   \* bound: receipts the fiscal printer issues
  MaxPrebills,   \* bound: pre-bills at the printer at a time
  Invoices,      \* whether payments may ask for an invoice
  MaxShares,     \* bound: shares of a roman split (20 in the schema)
  NoTable, NoCheck, NoRequest, NoSession

ASSUME TablePaymentAssumption ==
  /\ Counters \subseteq Tables
  /\ CoverCharge \in BOOLEAN
  /\ MaxReceipts \in Nat
  /\ MaxShares \in Nat
  /\ MaxPrebills \in Nat
  /\ Invoices \subseteq BOOLEAN
  /\ NoTable \notin Tables
  /\ NoCheck \notin Checks
  /\ NoRequest \notin Requests
  /\ NoSession \notin Sessions

VARIABLES
  status,     \* status[t]: TableRuntime.status
  lines,      \* lines[t]: the lines of the orders of t, voided ones included
  voided,     \* the lines with no quantity left to pay
  covers,     \* covers[t]: t has guests whose cover is charged
  roman,      \* roman[t]: shares of the roman split of t, 0 if there is none
  analytic,   \* analytic[t]: checks of the analytic split of t
  request,    \* request[r]: payment request r
  prebills,   \* tables whose pre-bill is at the printer
  session,    \* session[s]: state of cash session s
  frozen,     \* frozen[s]: documents counted when s was closed
  desk,       \* desk[d]: the payment handler that runs for d
  issued,     \* number of receipts the fiscal printer has issued
  ledger,     \* day ledger: receipts recorded by recordDayTransaction
  archive,    \* fiscal_documents: receipts recorded by persistFiscalDocument
  orphans,    \* receipts whose handler failed before writing the ledger
  collected   \* history: lines of open accounts that a paid check was for

accountVars == <<lines, voided, covers, collected>>
tableVars   == <<status, accountVars, prebills>>
splitVars   == <<roman, analytic>>
sessionVars == <<session, frozen>>
bookVars    == <<issued, ledger, archive, orphans>>
moneyVars   == <<sessionVars, desk, bookVars>>
vars == <<tableVars, splitVars, request, moneyVars>>

-----------------------------------------------------------------------------
\* Values

Status == {"FREE", "LOCKED", "OCCUPIED", "BILL_REQUESTED", "SPLIT_IN_PROGRESS"}

RomanSplit == [shares : 0..MaxShares, paid : 0..MaxShares]
NoRoman    == [shares |-> 0, paid |-> 0]

AnalyticSplit == [ids : SUBSET Checks, paid : SUBSET Checks,
                  of : [Lines -> Checks \cup {NoCheck}]]
NoAnalytic    == [ids |-> {}, paid |-> {}, of |-> [l \in Lines |-> NoCheck]]

NotSent == [table |-> NoTable, state |-> "NONE"]
PaymentRequest ==
  {NotSent} \cup [table : Tables, state : {"PENDING", "COMPLETED", "REJECTED"}]

\* A receipt as the books know it: who issued it and for which cash session.
Receipt == [id : Nat, session : Sessions, desk : Desks]

Handler == [pc : {"idle", "printing", "filing", "invoicing"},
            table : Tables \cup {NoTable},
            kind : {"FULL", "ROMAN", "CHECK"},
            check : Checks \cup {NoCheck},
            bill : SUBSET Lines,
            request : Requests \cup {NoRequest},
            session : Sessions \cup {NoSession},
            invoice : BOOLEAN,
            id : Nat]
Idle == [pc |-> "idle", table |-> NoTable, kind |-> "FULL", check |-> NoCheck,
         bill |-> {}, request |-> NoRequest, session |-> NoSession,
         invoice |-> FALSE, id |-> 0]

TypeOK ==
  /\ status \in [Tables -> Status]
  /\ lines \in [Tables -> SUBSET Lines]
  /\ voided \subseteq Lines
  /\ covers \in [Tables -> BOOLEAN]
  /\ roman \in [Tables -> RomanSplit]
  /\ analytic \in [Tables -> AnalyticSplit]
  /\ request \in [Requests -> PaymentRequest]
  /\ prebills \subseteq Tables
  /\ session \in [Sessions -> {"NEW", "OPEN", "CLOSED"}]
  /\ frozen \in [Sessions -> SUBSET Receipt]
  /\ desk \in [Desks -> Handler]
  /\ \A d \in Desks :
       /\ desk[d].pc \in {"printing", "filing"} => desk[d].table \in Tables
       /\ desk[d].pc # "idle" => desk[d].session \in Sessions
  /\ issued \in 0..MaxReceipts
  /\ ledger \subseteq Receipt
  /\ archive \subseteq Receipt
  /\ orphans \subseteq Nat
  /\ collected \subseteq Lines

-----------------------------------------------------------------------------
\* What the handlers read

HasRoman(t)       == roman[t].shares > 0
HasAnalytic(t)    == analytic[t].ids # {}
HasActiveSplit(t) == HasRoman(t) \/ HasAnalytic(t)

\* consolidateBillForTable: the lines still to pay, plus the cover charge.
BillLines(t)     == lines[t] \ voided
BillIsEmpty(t)   == BillLines(t) = {} /\ ~(CoverCharge /\ covers[t])
CheckLines(t, c) == {l \in BillLines(t) : analytic[t].of[l] = c}

PendingOf(t) == {r \in Requests : request[r] = [table |-> t, state |-> "PENDING"]}
SomePending  == \E t \in Tables : PendingOf(t) # {}

\* Mutant: getOpenCashSession does not look at the state of the session.
OpenedSessions == {s \in Sessions : session[s] # "NEW"}

OpenSessions == {s \in Sessions : session[s] = "OPEN"}
Documents(s) == {e \in archive : e.session = s}

\* A line id is a fresh UUID: nothing on the server mentions it.
Fresh(l) ==
  /\ \A t \in Tables : l \notin lines[t] /\ analytic[t].of[l] = NoCheck
  /\ \A d \in Desks : l \notin desk[d].bill

Init ==
  /\ status = [t \in Tables |-> "FREE"]
  /\ lines = [t \in Tables |-> {}]
  /\ voided = {}
  /\ covers = [t \in Tables |-> FALSE]
  /\ roman = [t \in Tables |-> NoRoman]
  /\ analytic = [t \in Tables |-> NoAnalytic]
  /\ request = [r \in Requests |-> NotSent]
  /\ prebills = {}
  /\ session = [s \in Sessions |-> "NEW"]
  /\ frozen = [s \in Sessions |-> {}]
  /\ desk = [d \in Desks |-> Idle]
  /\ issued = 0
  /\ ledger = {}
  /\ archive = {}
  /\ orphans = {}
  /\ collected = {}

-----------------------------------------------------------------------------
\* The room: seating, locking and ordering

\* setTableOccupied leaves a requested bill or a split as it is.
Occupied(st) ==
  IF st \in {"BILL_REQUESTED", "SPLIT_IN_PROGRESS"} THEN st ELSE "OCCUPIED"

\* requestLock: granted on any status, with or without a number of guests.
RequestLock(t) ==
  /\ status' = [status EXCEPT ![t] = "LOCKED"]
  /\ \/ covers' = covers
     \/ t \notin Counters /\ covers' = [covers EXCEPT ![t] = TRUE]
  /\ UNCHANGED <<lines, voided, collected, prebills, splitVars, request, moneyVars>>

\* releaseLock by the holder, or by anyone on a table nobody holds.
ReleaseLock(t) ==
  /\ status' = [status EXCEPT
       ![t] = IF lines[t] # {} \/ covers[t] THEN "OCCUPIED" ELSE "FREE"]
  /\ UNCHANGED <<accountVars, prebills, splitVars, request, moneyVars>>

\* openTableWithGuests (a reservation arrives), createCounterOrder.
OpenTable(t) ==
  /\ status[t] = "FREE"
  /\ status' = [status EXCEPT ![t] = "OCCUPIED"]
  /\ covers' = [covers EXCEPT ![t] = t \notin Counters]
  /\ UNCHANGED <<lines, voided, collected, prebills, splitVars, request, moneyVars>>

\* PATCH /tables/:id/guests on an open table.
UpdateGuests(t) ==
  /\ status[t] # "FREE"
  /\ t \notin Counters
  /\ covers' = [covers EXCEPT ![t] = TRUE]
  /\ UNCHANGED <<status, lines, voided, collected, prebills, splitVars, request,
                 moneyVars>>

\* POST /api/orders: the draft gains a line.
AddLine(t, l) ==
  /\ Fresh(l)
  /\ lines' = [lines EXCEPT ![t] = @ \cup {l}]
  /\ status' = [status EXCEPT ![t] = Occupied(@)]
  /\ UNCHANGED <<voided, covers, collected, prebills, splitVars, request, moneyVars>>

\* POST /api/orders: the draft is written again without a line (at least one
\* line stays).
WithdrawLine(t, l) ==
  /\ l \in BillLines(t)
  /\ lines[t] # {l}
  /\ lines' = [lines EXCEPT ![t] = @ \ {l}]
  /\ collected' = collected \ {l}
  /\ status' = [status EXCEPT ![t] = Occupied(@)]
  /\ UNCHANGED <<voided, covers, prebills, splitVars, request, moneyVars>>

\* stornoLine: the line stays in its order with nothing left to pay.
Storno(t, l) ==
  /\ l \in BillLines(t)
  /\ voided' = voided \cup {l}
  /\ UNCHANGED <<status, lines, covers, collected, prebills, splitVars, request,
                 moneyVars>>

\* Mutant: payment requests of the tables are not looked for.
MayTransferUnasked(u, t) ==
  /\ u # t
  /\ {u, t} \cap Counters = {}
  /\ "SPLIT_IN_PROGRESS" \notin {status[u], status[t]}
  /\ ~HasActiveSplit(u) /\ ~HasActiveSplit(t)

\* What transferTableAccount asks before anything moves from u to t.
MayTransfer(u, t) ==
  /\ u # t
  /\ {u, t} \cap Counters = {}
  /\ "SPLIT_IN_PROGRESS" \notin {status[u], status[t]}
  /\ PendingOf(u) = {} /\ PendingOf(t) = {}
  /\ ~HasActiveSplit(u) /\ ~HasActiveSplit(t)

\* All the lines of u and its guests, or the guests of a table without lines.
TransferAll(u, t) ==
  /\ MayTransfer(u, t)
  /\ lines[u] # {} \/ covers[u]
  /\ lines' = [lines EXCEPT ![u] = {}, ![t] = @ \cup lines[u]]
  /\ covers' = [covers EXCEPT ![u] = FALSE, ![t] = @ \/ covers[u]]
  /\ status' = [status EXCEPT ![u] = "FREE", ![t] = Occupied(@)]
  /\ UNCHANGED <<voided, collected, prebills, splitVars, request, moneyVars>>

\* Some of the lines of u; its guests stay.
TransferLines(u, t, moved) ==
  /\ MayTransfer(u, t)
  /\ moved # {} /\ moved # lines[u]
  /\ lines' = [lines EXCEPT ![u] = @ \ moved, ![t] = @ \cup moved]
  /\ status' = [status EXCEPT ![u] = Occupied(@), ![t] = Occupied(@)]
  /\ UNCHANGED <<voided, covers, collected, prebills, splitVars, request, moneyVars>>

-----------------------------------------------------------------------------
\* The bill: pre-bill, payment requests, splits

\* POST /tables/:id/prebill up to the printer, and after it: the status is
\* set whatever happened to the table while the pre-bill was printing.
StartPrebill(t) ==
  /\ ~BillIsEmpty(t)
  /\ Cardinality(prebills \cup {t}) <= MaxPrebills
  /\ prebills' = prebills \cup {t}
  /\ UNCHANGED <<status, accountVars, splitVars, request, moneyVars>>

EndPrebill(t) ==
  /\ t \in prebills
  /\ prebills' = prebills \ {t}
  /\ status' = [status EXCEPT ![t] = "BILL_REQUESTED"]
  /\ UNCHANGED <<accountVars, splitVars, request, moneyVars>>

\* Mutant: a second request of the same table is a new one.
RequestPaymentAnew(t) ==
  /\ t \notin Counters
  /\ ~BillIsEmpty(t)
  /\ \E r \in Requests :
       /\ request[r] = NotSent
       /\ request' = [request EXCEPT ![r] = [table |-> t, state |-> "PENDING"]]
  /\ status' = [status EXCEPT ![t] = "BILL_REQUESTED"]
  /\ UNCHANGED <<accountVars, prebills, splitVars, moneyVars>>

\* REQUEST_PAYMENT: a pending request of the table is used again.
RequestPayment(t) ==
  /\ t \notin Counters
  /\ ~BillIsEmpty(t)
  /\ IF PendingOf(t) # {}
     THEN request' = request
     ELSE \E r \in Requests :
            /\ request[r] = NotSent
            /\ request' = [request EXCEPT
                             ![r] = [table |-> t, state |-> "PENDING"]]
  /\ status' = [status EXCEPT ![t] = "BILL_REQUESTED"]
  /\ UNCHANGED <<accountVars, prebills, splitVars, moneyVars>>

RejectRequest(r) ==
  /\ request[r].state = "PENDING"
  /\ request' = [request EXCEPT ![r].state = "REJECTED"]
  /\ UNCHANGED <<tableVars, splitVars, moneyVars>>

\* Mutant: a roman split starts over whatever split is active.
StartRomanSplitOver(t, shares) ==
  /\ ~BillIsEmpty(t)
  /\ roman' = [roman EXCEPT ![t] = [shares |-> shares, paid |-> 0]]
  /\ status' = [status EXCEPT ![t] = "SPLIT_IN_PROGRESS"]
  /\ UNCHANGED <<accountVars, prebills, analytic, request, moneyVars>>

\* POST split/roman: refused while the table has any split.
StartRomanSplit(t, shares) ==
  /\ ~BillIsEmpty(t)
  /\ ~HasActiveSplit(t)
  /\ roman' = [roman EXCEPT ![t] = [shares |-> shares, paid |-> 0]]
  /\ status' = [status EXCEPT ![t] = "SPLIT_IN_PROGRESS"]
  /\ UNCHANGED <<accountVars, prebills, analytic, request, moneyVars>>

\* POST split/analytic: the lines given are lines of the bill, each in one
\* check; a number of checks alone starts a split with no line given.  A
\* check of a running split keeps its paid flag by its id.
PutAnalyticSplit(t, ids, of) ==
  /\ ~BillIsEmpty(t)
  /\ ~HasRoman(t)
  /\ Cardinality(ids) >= 2
  /\ \A l \in Lines : of[l] # NoCheck => of[l] \in ids /\ l \in BillLines(t)
  /\ analytic' = [analytic EXCEPT
       ![t] = [ids |-> ids, paid |-> @.paid \cap ids, of |-> of]]
  /\ status' = IF HasAnalytic(t) THEN status
               ELSE [status EXCEPT ![t] = "SPLIT_IN_PROGRESS"]
  /\ UNCHANGED <<accountVars, prebills, roman, request, moneyVars>>

\* Mutant: a split is cancelled whatever was collected.
CancelSplitAnyway(t) ==
  /\ HasActiveSplit(t)
  /\ roman' = [roman EXCEPT ![t] = NoRoman]
  /\ analytic' = [analytic EXCEPT ![t] = NoAnalytic]
  /\ status' = [status EXCEPT ![t] = "OCCUPIED"]
  /\ UNCHANGED <<accountVars, prebills, request, moneyVars>>

\* cancelActiveSplit: refused once a share or a check has been collected.
CancelSplit(t) ==
  /\ HasActiveSplit(t)
  /\ roman[t].paid = 0
  /\ analytic[t].paid = {}
  /\ roman' = [roman EXCEPT ![t] = NoRoman]
  /\ analytic' = [analytic EXCEPT ![t] = NoAnalytic]
  /\ status' = [status EXCEPT ![t] = "OCCUPIED"]
  /\ UNCHANGED <<accountVars, prebills, request, moneyVars>>

-----------------------------------------------------------------------------
\* executeTablePayment

\* clearTableOrders and setTableFree: lines, splits, guests and pending
\* requests of the table go together.
RejectPendingOf(t, q) ==
  [r \in Requests |->
     IF q[r] = [table |-> t, state |-> "PENDING"]
     THEN [q[r] EXCEPT !.state = "REJECTED"] ELSE q[r]]

FreeTable(t) ==
  /\ status' = [status EXCEPT ![t] = "FREE"]
  /\ lines' = [lines EXCEPT ![t] = {}]
  /\ voided' = voided \ lines[t]
  /\ collected' = collected \ lines[t]
  /\ covers' = [covers EXCEPT ![t] = FALSE]
  /\ roman' = [roman EXCEPT ![t] = NoRoman]
  /\ analytic' = [analytic EXCEPT ![t] = NoAnalytic]

\* completePaymentRequest: only a request that is still pending.
Complete(r, q) ==
  IF r \in Requests /\ q[r].state = "PENDING"
  THEN [q EXCEPT ![r].state = "COMPLETED"] ELSE q

\* What is being paid, from the mode of the call and the splits of the table.
PaymentKind(t, mode, c) ==
  IF mode = "ROMAN" /\ HasRoman(t) THEN "ROMAN"
  ELSE IF mode = "ANALYTIC" /\ HasAnalytic(t) /\ c # NoCheck THEN "CHECK"
  ELSE "FULL"

\* The early returns that depend on the split.
MayCollect(t, mode, kind, c) ==
  CASE kind = "ROMAN" -> roman[t].paid < roman[t].shares
    [] kind = "CHECK" -> /\ c \in analytic[t].ids \ analytic[t].paid
                         /\ CheckLines(t, c) # {}
    [] kind = "FULL"  -> ~HasAnalytic(t) \/ mode = "ANALYTIC"

\* The lines the receipt is for; a roman share is for an amount only.
BillOf(t, kind, c) ==
  CASE kind = "ROMAN" -> {}
    [] kind = "CHECK" -> CheckLines(t, c)
    [] kind = "FULL"  -> BillLines(t)

\* The first stretch, up to the call of the fiscal printer.
StartPayment(d, t, mode, c, r, invoice) ==
  /\ desk[d].pc = "idle"
  /\ ~BillIsEmpty(t)
  /\ LET kind == PaymentKind(t, mode, c) IN
     /\ MayCollect(t, mode, kind, c)
     /\ \E s \in OpenSessions :
          desk' = [desk EXCEPT ![d] =
            [pc |-> "printing", table |-> t, kind |-> kind,
             check |-> IF kind = "CHECK" THEN c ELSE NoCheck,
             bill |-> BillOf(t, kind, c), request |-> r, session |-> s,
             invoice |-> invoice, id |-> 0]]
  /\ UNCHANGED <<tableVars, splitVars, request, sessionVars, bookVars>>

\* POST /tables/:id/pay.  The client's view of the split may be stale.
Pay(d, t, asked, c, r, invoice) ==
  LET mode == IF asked = "ANALYTIC" \/ (HasAnalytic(t) /\ c # NoCheck)
              THEN "ANALYTIC"
              ELSE IF asked = "ROMAN" \/ HasRoman(t) THEN "ROMAN" ELSE "FULL"
  IN /\ ~(mode = "FULL" /\ HasActiveSplit(t))
     /\ ~(mode = "ANALYTIC" /\ c = NoCheck)
     /\ StartPayment(d, t, mode, c, r, invoice)

WsMode(t) == IF HasAnalytic(t) THEN "ANALYTIC"
             ELSE IF HasRoman(t) THEN "ROMAN" ELSE "FULL"

\* CONFIRM_PAYMENT of a pending request, TRIGGER_FISCAL_RECEIPT for a table.
ConfirmPayment(d, r) ==
  /\ request[r].state = "PENDING"
  /\ StartPayment(d, request[r].table, WsMode(request[r].table), NoCheck, r, FALSE)

TriggerReceipt(d, t) == StartPayment(d, t, WsMode(t), NoCheck, NoRequest, FALSE)

\* emitReceipt answers: a receipt, or an error and no receipt.
PrinterIssues(d) ==
  /\ desk[d].pc = "printing"
  /\ issued < MaxReceipts
  /\ issued' = issued + 1
  /\ desk' = [desk EXCEPT ![d].pc = "filing", ![d].id = issued + 1]
  /\ UNCHANGED <<tableVars, splitVars, request, sessionVars, ledger, archive,
                 orphans>>

PrinterFails(d) ==
  /\ desk[d].pc = "printing"
  /\ desk' = [desk EXCEPT ![d] = Idle]
  /\ UNCHANGED <<tableVars, splitVars, request, sessionVars, bookVars>>

\* The drawer or the receipt files fail: the call ends with a 500.
FilingFails(d) ==
  /\ desk[d].pc = "filing"
  /\ orphans' = orphans \cup {desk[d].id}
  /\ desk' = [desk EXCEPT ![d] = Idle]
  /\ UNCHANGED <<tableVars, splitVars, request, sessionVars, issued, ledger,
                 archive>>

ReceiptOf(d) == [id |-> desk[d].id, session |-> desk[d].session, desk |-> d]

\* recordRomanSharePaid: nothing if the split is gone.
SettleShare(t, r) ==
  IF ~HasRoman(t)
  THEN /\ request' = Complete(r, request)
       /\ UNCHANGED <<status, accountVars, splitVars>>
  ELSE IF roman[t].paid + 1 >= roman[t].shares
  THEN /\ FreeTable(t)
       /\ request' = Complete(r, RejectPendingOf(t, request))
  ELSE /\ roman' = [roman EXCEPT ![t].paid = @ + 1]
       /\ request' = Complete(r, request)
       /\ UNCHANGED <<status, accountVars, analytic>>

\* markAnalyticCheckPaid: nothing if the split is gone, no flag to set if
\* the check is gone.
SettleCheck(t, c, bill, r) ==
  LET paid == analytic[t].paid \cup ({c} \cap analytic[t].ids)
  IN IF HasAnalytic(t) /\ paid = analytic[t].ids
     THEN /\ FreeTable(t)
          /\ request' = Complete(r, RejectPendingOf(t, request))
     ELSE /\ analytic' = [analytic EXCEPT ![t].paid = paid]
          /\ collected' = collected \cup (bill \cap lines[t])
          /\ request' = Complete(r, request)
          /\ UNCHANGED <<status, lines, voided, covers, roman>>

SettleFull(t, r) ==
  /\ FreeTable(t)
  /\ request' = Complete(r, RejectPendingOf(t, request))

\* Mutant: a payment with an invoice is recorded once the invoice is out.
LedgerEntry(d) == IF desk[d].invoice THEN {} ELSE {ReceiptOf(d)}

\* recordDayTransaction: every payment, invoiced or not.
DayTransaction(d) == {ReceiptOf(d)}

\* The stretch after the files: ledger, account, request and, unless an
\* invoice is due, the fiscal archive.
Settle(d) ==
  LET h == desk[d] IN
  /\ h.pc = "filing"
  /\ ledger' = ledger \cup DayTransaction(d)
  /\ CASE h.kind = "ROMAN" -> SettleShare(h.table, h.request)
       [] h.kind = "CHECK" -> SettleCheck(h.table, h.check, h.bill, h.request)
       [] h.kind = "FULL"  -> SettleFull(h.table, h.request)
  /\ IF h.invoice
     THEN /\ desk' = [desk EXCEPT ![d] = [Idle EXCEPT !.pc = "invoicing",
                            !.session = h.session, !.id = h.id]]
          /\ archive' = archive
     ELSE /\ desk' = [desk EXCEPT ![d] = Idle]
          /\ archive' = archive \cup {ReceiptOf(d)}
  /\ UNCHANGED <<prebills, sessionVars, issued, orphans>>

\* issueElectronicInvoice ends, or its files fail.
InvoiceEnds(d) ==
  /\ desk[d].pc = "invoicing"
  /\ \/ archive' = archive \cup {ReceiptOf(d)}
     \/ archive' = archive
  /\ desk' = [desk EXCEPT ![d] = Idle]
  /\ UNCHANGED <<tableVars, splitVars, request, sessionVars, issued, ledger,
                 orphans>>

\* DELETE counter-orders/:id: no look at splits or payments in flight.
CancelCounterOrder(t) ==
  /\ t \in Counters
  /\ status[t] # "FREE"
  /\ FreeTable(t)
  /\ request' = RejectPendingOf(t, request)
  /\ UNCHANGED <<prebills, moneyVars>>

-----------------------------------------------------------------------------
\* Cash sessions

OpenCashSession(s) ==
  /\ session[s] = "NEW"
  /\ OpenSessions = {}
  /\ session' = [session EXCEPT ![s] = "OPEN"]
  /\ UNCHANGED <<tableVars, splitVars, request, frozen, desk, bookVars>>

\* closeCashSession: refused while a payment request is pending; a payment
\* in flight is not looked for.
CloseCashSession(s) ==
  /\ session[s] = "OPEN"
  /\ ~SomePending
  /\ session' = [session EXCEPT ![s] = "CLOSED"]
  /\ frozen' = [frozen EXCEPT ![s] = Documents(s)]
  /\ UNCHANGED <<tableVars, splitVars, request, desk, bookVars>>

-----------------------------------------------------------------------------
Modes == {"FULL", "ROMAN", "ANALYTIC"}

RoomStep ==
  \E t \in Tables :
    \/ RequestLock(t)
    \/ ReleaseLock(t)
    \/ OpenTable(t)
    \/ UpdateGuests(t)
    \/ CancelCounterOrder(t)
    \/ \E l \in Lines : AddLine(t, l) \/ WithdrawLine(t, l) \/ Storno(t, l)
    \/ \E u \in Tables :
         \/ TransferAll(u, t)
         \/ \E moved \in SUBSET lines[u] : TransferLines(u, t, moved)

BillStep ==
  \/ \E t \in Tables :
       \/ StartPrebill(t)
       \/ EndPrebill(t)
       \/ RequestPayment(t)
       \/ \E n \in 2..MaxShares : StartRomanSplit(t, n)
       \/ \E ids \in SUBSET Checks, of \in [Lines -> Checks \cup {NoCheck}] :
            PutAnalyticSplit(t, ids, of)
       \/ CancelSplit(t)
  \/ \E r \in Requests : RejectRequest(r)

PaymentStep(d) ==
  \/ \E t \in Tables :
       \/ \E asked \in Modes, c \in Checks \cup {NoCheck}, invoice \in Invoices,
             r \in PendingOf(t) \cup {NoRequest} :
            Pay(d, t, asked, c, r, invoice)
       \/ TriggerReceipt(d, t)
  \/ \E r \in Requests : ConfirmPayment(d, r)
  \/ PrinterIssues(d)
  \/ PrinterFails(d)
  \/ FilingFails(d)
  \/ Settle(d)
  \/ InvoiceEnds(d)

SessionStep == \E s \in Sessions : OpenCashSession(s) \/ CloseCashSession(s)

Next == RoomStep \/ BillStep \/ SessionStep \/ \E d \in Desks : PaymentStep(d)

Spec == Init /\ [][Next]_vars

-----------------------------------------------------------------------------
\* Properties

(***************************************************************************)
(* A free table has nothing on it: no order line, no cover to charge, no   *)
(* split, no payment request.  The next party would otherwise be billed    *)
(* for, or credited with, what the last one left (clearTableOrders,        *)
(* setTableFree, releaseLock, transferTableAccount).                       *)
(***************************************************************************)
FreeTableIsClean ==
  \A t \in Tables : status[t] = "FREE" =>
    /\ lines[t] = {} /\ ~covers[t]
    /\ ~HasActiveSplit(t)
    /\ PendingOf(t) = {}

(***************************************************************************)
(* A table has one split at most, a stored roman split has shares left to  *)
(* pay, a paid check is a check of its split, and a table shown as being   *)
(* split has a split: else it could neither be paid nor be cancelled.      *)
(***************************************************************************)
SplitStateConsistent ==
  \A t \in Tables :
    /\ ~(HasRoman(t) /\ HasAnalytic(t))
    /\ HasRoman(t) => roman[t].paid < roman[t].shares
    /\ analytic[t].paid \subseteq analytic[t].ids
    /\ status[t] = "SPLIT_IN_PROGRESS" => HasActiveSplit(t)

\* A table has one pending payment request at most (createPaymentRequest):
\* two tills cannot confirm the bill of a table from two requests.
OnePendingPerTable == \A t \in Tables : Cardinality(PendingOf(t)) <= 1

(***************************************************************************)
(* Every receipt that came out of the printer is in the day ledger, or its *)
(* handler has still to write it, or the call failed after the printer     *)
(* (the orphans); the fiscal archive holds ledgered receipts only.         *)
(***************************************************************************)
ReceiptsAccounted ==
  /\ {e.id : e \in ledger}
       \cup {desk[d].id : d \in {d \in Desks : desk[d].pc = "filing"}}
       \cup orphans = 1..issued
  /\ archive \subseteq ledger
  /\ \A s \in Sessions : frozen[s] \subseteq Documents(s)

\* The documents of a closed session that its frozen totals do not count.
LateDocuments(s) ==
  IF session[s] = "CLOSED" THEN Documents(s) \ frozen[s] ELSE {}

(***************************************************************************)
(* A closed cash session can still gain documents, from payments that were *)
(* in flight when it was closed, but one per desk at most: a payment that  *)
(* starts after the closing never joins it (executeTablePayment reads the  *)
(* session once, closeCashSession does not wait for payments).             *)
(***************************************************************************)
LateDocumentsBounded ==
  \A s \in Sessions : \A e1, e2 \in LateDocuments(s) :
    e1.desk = e2.desk => e1 = e2

\* A collected share is never lost: once shares are paid, the count of a
\* table grows until the table is freed (cancelActiveSplit, startRomanSplit).
CollectedSharesKept ==
  [][\A t \in Tables :
       roman'[t].paid < roman[t].paid => status'[t] = "FREE"]_vars

\* A line that a paid check was for is on no other receipt ("Riga assegnata
\* a piu' conti" in split/analytic, "Split analitico attivo - paga i singoli
\* conti" in executeTablePayment).
NoLineBilledTwice ==
  [][\A d \in Desks : PrinterIssues(d) => desk[d].bill \cap collected = {}]_vars
=============================================================================
