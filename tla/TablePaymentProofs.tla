------------------------- MODULE TablePaymentProofs -------------------------
(***************************************************************************)
(* Proofs about TablePayment, for every value of its constants: what a     *)
(* table, its split and its requests keep, and what the ledger, the fiscal *)
(* archive and the closed cash sessions hold of the receipts printed.      *)
(***************************************************************************)
EXTENDS TablePayment, FiniteSetTheorems, TLAPS

-----------------------------------------------------------------------------
\* Type correctness

LEMMA NoAnalyticType == NoAnalytic \in AnalyticSplit
  BY DEF NoAnalytic, AnalyticSplit

LEMMA NoRomanType == NoRoman \in RomanSplit
  BY TablePaymentAssumption DEF NoRoman, RomanSplit

LEMMA IdleType == Idle \in Handler
  BY DEF Idle, Handler

\* The handlers that a receipt and an invoice leave behind.
LEMMA FilingType ==
  ASSUME NEW h \in Handler, NEW n \in Nat
  PROVE  LET g == [h EXCEPT !.pc = "filing", !.id = n]
         IN g \in Handler /\ g.table = h.table /\ g.session = h.session
  BY DEF Handler

LEMMA InvoicingType ==
  ASSUME NEW s \in Sessions, NEW n \in Nat
  PROVE  LET g == [Idle EXCEPT !.pc = "invoicing", !.session = s, !.id = n]
         IN g \in Handler /\ g.pc = "invoicing" /\ g.session = s
  BY DEF Idle, Handler

LEMMA InvoicingId ==
  ASSUME NEW s \in Sessions, NEW n \in Nat
  PROVE  [Idle EXCEPT !.pc = "invoicing", !.session = s, !.id = n].id = n
  BY DEF Idle

LEMMA TypeInit == Init => TypeOK
  BY TablePaymentAssumption, NoAnalyticType, NoRomanType, IdleType
     DEF Init, TypeOK, Status, PaymentRequest, Idle

LEMMA TypeRoom ==
  ASSUME TypeOK, RoomStep
  PROVE  TypeOK'
<1> USE DEF TypeOK, tableVars, splitVars, moneyVars, sessionVars, bookVars,
            accountVars
<1>1. ASSUME NEW t \in Tables, RequestLock(t) PROVE TypeOK'
  BY <1>1 DEF RequestLock, Status
<1>2. ASSUME NEW t \in Tables, ReleaseLock(t) PROVE TypeOK'
  BY <1>2 DEF ReleaseLock, Status
<1>3. ASSUME NEW t \in Tables, OpenTable(t) PROVE TypeOK'
  BY <1>3 DEF OpenTable, Status
<1>4. ASSUME NEW t \in Tables, UpdateGuests(t) PROVE TypeOK'
  BY <1>4 DEF UpdateGuests
<1>5. ASSUME NEW t \in Tables, NEW l \in Lines, AddLine(t, l) PROVE TypeOK'
  BY <1>5 DEF AddLine, Occupied, Status
<1>6. ASSUME NEW t \in Tables, NEW l \in Lines, WithdrawLine(t, l) PROVE TypeOK'
  BY <1>6 DEF WithdrawLine, Occupied, Status
<1>7. ASSUME NEW t \in Tables, NEW l \in Lines, Storno(t, l) PROVE TypeOK'
  BY <1>7 DEF Storno
<1>8. ASSUME NEW t \in Tables, NEW u \in Tables, TransferAll(u, t) PROVE TypeOK'
  BY <1>8 DEF TransferAll, Occupied, Status
<1>9. ASSUME NEW t \in Tables, NEW u \in Tables, NEW moved \in SUBSET lines[u],
             TransferLines(u, t, moved)
      PROVE  TypeOK'
  BY <1>9 DEF TransferLines, Occupied, Status
<1>10. ASSUME NEW t \in Tables, CancelCounterOrder(t) PROVE TypeOK'
  BY <1>10, NoAnalyticType, NoRomanType
     DEF CancelCounterOrder, FreeTable, RejectPendingOf, PaymentRequest, Status
<1> QED
  BY <1>1, <1>2, <1>3, <1>4, <1>5, <1>6, <1>7, <1>8, <1>9, <1>10 DEF RoomStep

LEMMA TypeBill ==
  ASSUME TypeOK, BillStep
  PROVE  TypeOK'
<1> USE DEF TypeOK, tableVars, splitVars, moneyVars, sessionVars, bookVars,
            accountVars
<1>1. ASSUME NEW t \in Tables, StartPrebill(t) PROVE TypeOK'
  BY <1>1 DEF StartPrebill
<1>2. ASSUME NEW t \in Tables, EndPrebill(t) PROVE TypeOK'
  BY <1>2 DEF EndPrebill, Status
<1>3. ASSUME NEW t \in Tables, RequestPayment(t) PROVE TypeOK'
  <2>1. request' \in [Requests -> PaymentRequest]
    BY <1>3 DEF RequestPayment, PaymentRequest
  <2>2. status' \in [Tables -> Status]
    BY <1>3 DEF RequestPayment, Status
  <2> QED
    BY <1>3, <2>1, <2>2 DEF RequestPayment
<1>4. ASSUME NEW t \in Tables, NEW n \in 2..MaxShares, StartRomanSplit(t, n)
      PROVE  TypeOK'
  <2>1. [shares |-> n, paid |-> 0] \in RomanSplit
    BY TablePaymentAssumption DEF RomanSplit
  <2> QED
    BY <1>4, <2>1 DEF StartRomanSplit, Status
<1>5. ASSUME NEW t \in Tables, NEW ids \in SUBSET Checks,
             NEW of \in [Lines -> Checks \cup {NoCheck}],
             PutAnalyticSplit(t, ids, of)
      PROVE  TypeOK'
  <2>1. analytic' \in [Tables -> AnalyticSplit]
    BY <1>5 DEF PutAnalyticSplit, AnalyticSplit
  <2>2. status' \in [Tables -> Status]
    BY <1>5 DEF PutAnalyticSplit, Status
  <2> QED
    BY <1>5, <2>1, <2>2 DEF PutAnalyticSplit
<1>6. ASSUME NEW t \in Tables, CancelSplit(t) PROVE TypeOK'
  BY <1>6, NoAnalyticType, NoRomanType DEF CancelSplit, Status
<1>7. ASSUME NEW r \in Requests, RejectRequest(r) PROVE TypeOK'
  BY <1>7 DEF RejectRequest, PaymentRequest, NotSent
<1> QED
  BY <1>1, <1>2, <1>3, <1>4, <1>5, <1>6, <1>7 DEF BillStep

LEMMA TypeSession ==
  ASSUME TypeOK, SessionStep
  PROVE  TypeOK'
<1> USE DEF TypeOK, tableVars, splitVars, moneyVars, sessionVars, bookVars,
            accountVars
<1>1. ASSUME NEW s \in Sessions, OpenCashSession(s) PROVE TypeOK'
  BY <1>1 DEF OpenCashSession
<1>2. ASSUME NEW s \in Sessions, CloseCashSession(s) PROVE TypeOK'
  BY <1>2 DEF CloseCashSession, Documents
<1> QED
  BY <1>1, <1>2 DEF SessionStep

\* A payment of any kind starts with a well-formed handler.
LEMMA TypeStart ==
  ASSUME TypeOK, NEW d \in Desks, NEW t \in Tables, NEW mode,
         NEW c \in Checks \cup {NoCheck},
         NEW r \in Requests \cup {NoRequest}, NEW invoice \in BOOLEAN,
         StartPayment(d, t, mode, c, r, invoice)
  PROVE  TypeOK'
<1> DEFINE kind == PaymentKind(t, mode, c)
<1>1. kind \in {"FULL", "ROMAN", "CHECK"}
  BY DEF PaymentKind
<1>2. BillOf(t, kind, c) \subseteq Lines
  BY <1>1 DEF TypeOK, BillOf, BillLines, CheckLines
<1> HIDE DEF kind
<1>3. PICK s \in OpenSessions :
        desk' = [desk EXCEPT ![d] =
            [pc |-> "printing", table |-> t, kind |-> kind,
             check |-> IF kind = "CHECK" THEN c ELSE NoCheck,
             bill |-> BillOf(t, kind, c), request |-> r, session |-> s,
             invoice |-> invoice, id |-> 0]]
  BY DEF StartPayment, kind
<1>4. s \in Sessions
  BY DEF OpenSessions
<1>5. /\ desk' \in [Desks -> Handler]
      /\ \A e \in Desks :
           /\ desk'[e].pc \in {"printing", "filing"} => desk'[e].table \in Tables
           /\ desk'[e].pc # "idle" => desk'[e].session \in Sessions
  BY <1>1, <1>2, <1>3, <1>4 DEF TypeOK, Handler
<1> QED
  BY <1>5 DEF StartPayment, TypeOK, tableVars, splitVars, sessionVars, bookVars,
              accountVars

LEMMA ReceiptType ==
  ASSUME TypeOK, NEW d \in Desks, desk[d].pc # "idle"
  PROVE  ReceiptOf(d) \in Receipt
  BY DEF TypeOK, Handler, ReceiptOf, Receipt

\* What freeing a table and closing its requests leave is well-formed.
LEMMA TypeFree ==
  ASSUME TypeOK, NEW t \in Tables, NEW r, FreeTable(t),
         request' = Complete(r, RejectPendingOf(t, request))
  PROVE  /\ status' \in [Tables -> Status]
         /\ lines' \in [Tables -> SUBSET Lines]
         /\ voided' \subseteq Lines
         /\ covers' \in [Tables -> BOOLEAN]
         /\ roman' \in [Tables -> RomanSplit]
         /\ analytic' \in [Tables -> AnalyticSplit]
         /\ request' \in [Requests -> PaymentRequest]
         /\ collected' \subseteq Lines
<1>1. RejectPendingOf(t, request) \in [Requests -> PaymentRequest]
  BY DEF RejectPendingOf, TypeOK, PaymentRequest, NotSent
<1>2. request' \in [Requests -> PaymentRequest]
  BY <1>1 DEF Complete, PaymentRequest, NotSent
<1> QED
  BY <1>2, NoAnalyticType, NoRomanType DEF FreeTable, TypeOK, Status

LEMMA TypeComplete ==
  ASSUME TypeOK, NEW r
  PROVE  Complete(r, request) \in [Requests -> PaymentRequest]
  BY DEF TypeOK, Complete, PaymentRequest, NotSent

LEMMA TypeSettle ==
  ASSUME TypeOK, NEW d \in Desks, Settle(d)
  PROVE  TypeOK'
<1> DEFINE h == desk[d]
<1>1. /\ h \in Handler /\ h.table \in Tables /\ h.session \in Sessions
      /\ h.pc = "filing" /\ h.id \in Nat /\ h.bill \subseteq Lines
  BY DEF Settle, TypeOK, Handler
<1>2. /\ status' \in [Tables -> Status]
      /\ lines' \in [Tables -> SUBSET Lines]
      /\ voided' \subseteq Lines
      /\ covers' \in [Tables -> BOOLEAN]
      /\ roman' \in [Tables -> RomanSplit]
      /\ analytic' \in [Tables -> AnalyticSplit]
      /\ request' \in [Requests -> PaymentRequest]
      /\ collected' \subseteq Lines
  <2>1. CASE h.kind = "ROMAN"
    <3>1. SettleShare(h.table, h.request)
      BY <2>1 DEF Settle
    <3>2. CASE FreeTable(h.table) /\ request' = Complete(h.request, RejectPendingOf(h.table, request))
      BY <1>1, <3>2, TypeFree
    <3>3. CASE request' = Complete(h.request, request) /\ UNCHANGED <<status, accountVars, splitVars>>
      BY <3>3, TypeComplete DEF TypeOK, accountVars, splitVars
    <3>4. CASE /\ HasRoman(h.table)
               /\ ~(roman[h.table].paid + 1 >= roman[h.table].shares)
               /\ roman' = [roman EXCEPT ![h.table].paid = @ + 1]
               /\ request' = Complete(h.request, request)
               /\ UNCHANGED <<status, accountVars, analytic>>
      <4>1. roman' \in [Tables -> RomanSplit]
        BY <1>1, <3>4, TablePaymentAssumption DEF TypeOK, RomanSplit
      <4> QED
        BY <3>4, <4>1, TypeComplete DEF TypeOK, accountVars
    <3> QED
      BY <3>1, <3>2, <3>3, <3>4 DEF SettleShare
  <2>2. CASE h.kind = "CHECK"
    <3>1. SettleCheck(h.table, h.check, h.bill, h.request)
      BY <2>2 DEF Settle
    <3> DEFINE paid == analytic[h.table].paid \cup ({h.check} \cap analytic[h.table].ids)
    <3>2. CASE FreeTable(h.table) /\ request' = Complete(h.request, RejectPendingOf(h.table, request))
      BY <1>1, <3>2, TypeFree
    <3>3. CASE /\ analytic' = [analytic EXCEPT ![h.table].paid = paid]
               /\ collected' = collected \cup (h.bill \cap lines[h.table])
               /\ request' = Complete(h.request, request)
               /\ UNCHANGED <<status, lines, voided, covers, roman>>
      <4>1. paid \subseteq Checks
        BY <1>1 DEF TypeOK, AnalyticSplit
      <4>2. [analytic[h.table] EXCEPT !.paid = paid] \in AnalyticSplit
        <5>1. analytic[h.table] \in AnalyticSplit
          BY <1>1 DEF TypeOK
        <5> HIDE DEF paid
        <5> QED
          BY <4>1, <5>1 DEF AnalyticSplit
      <4>3. analytic' \in [Tables -> AnalyticSplit]
        BY <1>1, <3>3, <4>2 DEF TypeOK
      <4> QED
        BY <1>1, <3>3, <4>3, TypeComplete DEF TypeOK
    <3> QED
      BY <3>1, <3>2, <3>3 DEF SettleCheck
  <2>3. CASE h.kind = "FULL"
    <3>1. SettleFull(h.table, h.request)
      BY <2>3 DEF Settle
    <3> QED
      BY <1>1, <3>1, TypeFree DEF SettleFull
  <2> QED
    BY <1>1, <2>1, <2>2, <2>3 DEF Handler
<1>3. ReceiptOf(d) \in Receipt
  BY <1>1, ReceiptType
<1>4. ledger' \subseteq Receipt /\ archive' \subseteq Receipt
  BY <1>3 DEF Settle, TypeOK, DayTransaction
<1>5. /\ desk' \in [Desks -> Handler]
      /\ \A e \in Desks :
           /\ desk'[e].pc \in {"printing", "filing"} => desk'[e].table \in Tables
           /\ desk'[e].pc # "idle" => desk'[e].session \in Sessions
  <2>1. /\ [Idle EXCEPT !.pc = "invoicing", !.session = h.session, !.id = h.id] \in Handler
        /\ Idle \in Handler
    BY <1>1, InvoicingType, IdleType
  <2>2. desk' = [desk EXCEPT ![d] =
                   [Idle EXCEPT !.pc = "invoicing", !.session = h.session, !.id = h.id]]
        \/ desk' = [desk EXCEPT ![d] = Idle]
    BY DEF Settle
  <2>3. desk' \in [Desks -> Handler]
    BY <2>1, <2>2 DEF TypeOK
  <2>4. \A e \in Desks \ {d} : desk'[e] = desk[e]
    BY <2>2 DEF TypeOK
  <2>5. \/ desk'[d].pc = "idle"
        \/ desk'[d].pc = "invoicing" /\ desk'[d].session = h.session
    <3>1. \/ desk'[d] = [Idle EXCEPT !.pc = "invoicing", !.session = h.session,
                         !.id = h.id]
          \/ desk'[d] = Idle
      BY <2>2 DEF TypeOK
    <3>2. Idle.pc = "idle"
      BY DEF Idle
    <3> DEFINE g == [Idle EXCEPT !.pc = "invoicing", !.session = h.session,
                         !.id = h.id]
    <3>3. g.pc = "invoicing" /\ g.session = h.session
      <4>1. h.session \in Sessions /\ h.id \in Nat
        BY <1>1
      <4> HIDE DEF h
      <4> QED
        BY <4>1, InvoicingType
    <3> HIDE DEF g
    <3>4. desk'[d] = g \/ desk'[d] = Idle
      BY <3>1 DEF g
    <3> QED
      BY <3>2, <3>3, <3>4
  <2> QED
    BY <1>1, <2>3, <2>4, <2>5 DEF TypeOK
<1> QED
  BY <1>2, <1>4, <1>5 DEF Settle, TypeOK, sessionVars

LEMMA TypePayment ==
  ASSUME TypeOK, NEW d \in Desks, PaymentStep(d)
  PROVE  TypeOK'
<1> USE DEF tableVars, splitVars, sessionVars, bookVars, accountVars
<1>1. ASSUME NEW t \in Tables, NEW asked \in Modes,
             NEW c \in Checks \cup {NoCheck}, NEW invoice \in Invoices,
             NEW r \in PendingOf(t) \cup {NoRequest},
             Pay(d, t, asked, c, r, invoice)
      PROVE  TypeOK'
  <2>1. invoice \in BOOLEAN /\ r \in Requests \cup {NoRequest}
    BY TablePaymentAssumption DEF PendingOf
  <2>2. PICK mode : StartPayment(d, t, mode, c, r, invoice)
    BY <1>1 DEF Pay
  <2> QED
    BY <2>1, <2>2, TypeStart
<1>2. ASSUME NEW t \in Tables, TriggerReceipt(d, t) PROVE TypeOK'
  BY <1>2, TypeStart DEF TriggerReceipt
<1>3. ASSUME NEW r \in Requests, ConfirmPayment(d, r) PROVE TypeOK'
  <2>1. request[r].table \in Tables
    BY <1>3 DEF ConfirmPayment, TypeOK, PaymentRequest, NotSent
  <2> QED
    BY <1>3, <2>1, TypeStart DEF ConfirmPayment
<1>4. CASE PrinterIssues(d)
  <2>1. issued \in Nat /\ issued + 1 \in 0..MaxReceipts
    BY <1>4, TablePaymentAssumption DEF PrinterIssues, TypeOK
  <2>2. [desk[d] EXCEPT !.pc = "filing", !.id = issued + 1] \in Handler
    <3>1. desk[d] \in Handler /\ issued + 1 \in Nat
      BY <2>1 DEF TypeOK
    <3> QED
      BY <3>1, FilingType
  <2>3. desk' = [desk EXCEPT ![d] = [desk[d] EXCEPT !.pc = "filing",
                                                    !.id = issued + 1]]
    BY <1>4 DEF PrinterIssues, TypeOK
  <2>4. /\ \A e \in Desks \ {d} : desk'[e] = desk[e]
        /\ desk'[d] = [desk[d] EXCEPT !.pc = "filing", !.id = issued + 1]
    BY <2>3 DEF TypeOK
  <2>5. /\ desk'[d].table = desk[d].table
        /\ desk'[d].session = desk[d].session
    <3> DEFINE g == [desk[d] EXCEPT !.pc = "filing", !.id = issued + 1]
    <3>1. desk[d] \in Handler /\ issued + 1 \in Nat
      BY <2>1 DEF TypeOK
    <3>2. g.table = desk[d].table /\ g.session = desk[d].session
      BY <3>1, FilingType
    <3>3. desk'[d] = g
      BY <2>4
    <3> HIDE DEF g
    <3> QED
      BY <3>2, <3>3
  <2>6. desk[d].table \in Tables /\ desk[d].session \in Sessions
    BY <1>4 DEF PrinterIssues, TypeOK
  <2>7. desk' \in [Desks -> Handler]
    BY <2>2, <2>3 DEF TypeOK
  <2> QED
    BY <1>4, <2>1, <2>4, <2>5, <2>6, <2>7 DEF PrinterIssues, TypeOK
<1>5. ASSUME desk' = [desk EXCEPT ![d] = Idle]
      PROVE  /\ desk' \in [Desks -> Handler]
             /\ \A e \in Desks :
                  /\ desk'[e].pc \in {"printing", "filing"} => desk'[e].table \in Tables
                  /\ desk'[e].pc # "idle" => desk'[e].session \in Sessions
  BY <1>5, IdleType DEF TypeOK, Idle
<1>6. CASE PrinterFails(d)
  BY <1>5, <1>6 DEF PrinterFails, TypeOK
<1>7. CASE FilingFails(d)
  <2>1. desk[d].id \in Nat
    BY DEF TypeOK, Handler
  <2> QED
    BY <1>5, <1>7, <2>1 DEF FilingFails, TypeOK
<1>8. CASE Settle(d)
  BY <1>8, TypeSettle
<1>9. CASE InvoiceEnds(d)
  <2>1. ReceiptOf(d) \in Receipt
    BY <1>9, ReceiptType DEF InvoiceEnds
  <2> QED
    BY <1>5, <1>9, <2>1 DEF InvoiceEnds, TypeOK
<1> QED
  BY <1>1, <1>2, <1>3, <1>4, <1>6, <1>7, <1>8, <1>9 DEF PaymentStep

LEMMA TypeNext == TypeOK /\ [Next]_vars => TypeOK'
<1> SUFFICES ASSUME TypeOK, [Next]_vars PROVE TypeOK'
  OBVIOUS
<1>1. CASE UNCHANGED vars
  BY <1>1 DEF TypeOK, vars, tableVars, splitVars, moneyVars, sessionVars,
              bookVars, accountVars
<1> QED
  BY <1>1, TypeRoom, TypeBill, TypeSession, TypePayment DEF Next

\* Every variable keeps the values the code gives it, in every state.
THEOREM TypeCorrect == Spec => []TypeOK
  BY TypeInit, TypeNext, PTL DEF Spec

-----------------------------------------------------------------------------
\* A free table is clean, and the splits of a table are consistent

(***************************************************************************)
(* FreeTableIsClean is not inductive: that no split or request is left     *)
(* when a table becomes free follows from what a split or a request takes  *)
(* to start, an account with lines or covers, which stays until both go.   *)
(***************************************************************************)
HasAccount(t) == lines[t] # {} \/ covers[t]

TableInv(t) ==
  /\ HasAccount(t) => status[t] # "FREE"
  /\ HasActiveSplit(t) \/ PendingOf(t) # {} => HasAccount(t)
  /\ ~(HasRoman(t) /\ HasAnalytic(t))
  /\ roman[t] = NoRoman \/ roman[t].paid < roman[t].shares
  /\ analytic[t].paid \subseteq analytic[t].ids
  /\ status[t] = "SPLIT_IN_PROGRESS" => HasActiveSplit(t)

AccountInv == \A t \in Tables : TableInv(t)

LEMMA AccountInvImplies ==
  AccountInv => FreeTableIsClean /\ SplitStateConsistent
  BY DEF AccountInv, TableInv, HasAccount, FreeTableIsClean,
         SplitStateConsistent, HasRoman, NoRoman

LEMMA AccountInit == Init => AccountInv
  BY DEF Init, AccountInv, TableInv, HasAccount, HasActiveSplit, HasRoman,
         HasAnalytic, NoRoman, NoAnalytic, PendingOf, NotSent

\* A table a step leaves alone, but for requests that it may settle.
LEMMA Untouched ==
  ASSUME NEW t \in Tables, TableInv(t),
         status'[t] = status[t], lines'[t] = lines[t], covers'[t] = covers[t],
         roman'[t] = roman[t], analytic'[t] = analytic[t],
         PendingOf(t)' \subseteq PendingOf(t)
  PROVE  TableInv(t)'
  BY DEF TableInv, HasAccount, HasActiveSplit, HasRoman, HasAnalytic

\* A table whose splits and requests a step leaves alone.
LEMMA SplitUntouched ==
  ASSUME NEW t \in Tables, TableInv(t),
         roman'[t] = roman[t], analytic'[t] = analytic[t],
         PendingOf(t)' \subseteq PendingOf(t),
         HasAccount(t) => HasAccount(t)',
         HasAccount(t)' => status'[t] # "FREE",
         status'[t] = "SPLIT_IN_PROGRESS" => status[t] = "SPLIT_IN_PROGRESS"
  PROVE  TableInv(t)'
  BY DEF TableInv, HasActiveSplit, HasRoman, HasAnalytic

LEMMA PendingUnchanged ==
  ASSUME UNCHANGED request
  PROVE  \A t \in Tables : PendingOf(t)' = PendingOf(t)
  BY DEF PendingOf

\* Freeing a table and closing its requests.
LEMMA AccountFree ==
  ASSUME TypeOK, AccountInv, NEW t \in Tables, NEW r, FreeTable(t),
         request' = Complete(r, RejectPendingOf(t, request))
  PROVE  AccountInv'
<1>1. PendingOf(t)' = {}
  BY DEF Complete, RejectPendingOf, PendingOf, TypeOK
<1>2. \A u \in Tables \ {t} : PendingOf(u)' \subseteq PendingOf(u)
  BY DEF Complete, RejectPendingOf, PendingOf, TypeOK
<1>3. TableInv(t)'
  BY <1>1 DEF FreeTable, TypeOK, TableInv, HasAccount, HasActiveSplit,
              HasRoman, HasAnalytic, NoRoman, NoAnalytic
<1> QED
  BY <1>2, <1>3, Untouched DEF AccountInv, FreeTable, TypeOK

LEMMA AccountRoom ==
  ASSUME TypeOK, AccountInv, RoomStep
  PROVE  AccountInv'
<1> USE PendingUnchanged DEF AccountInv, tableVars, splitVars, moneyVars,
        sessionVars, bookVars, accountVars
<1>1. ASSUME NEW t \in Tables, RequestLock(t) PROVE AccountInv'
  BY <1>1, Untouched, SplitUntouched DEF RequestLock, TypeOK, HasAccount
<1>2. ASSUME NEW t \in Tables, ReleaseLock(t) PROVE AccountInv'
  BY <1>2, Untouched, SplitUntouched DEF ReleaseLock, TypeOK, HasAccount
<1>3. ASSUME NEW t \in Tables, OpenTable(t) PROVE AccountInv'
  BY <1>3, Untouched, SplitUntouched DEF OpenTable, TypeOK, HasAccount, TableInv
<1>4. ASSUME NEW t \in Tables, UpdateGuests(t) PROVE AccountInv'
  BY <1>4, Untouched, SplitUntouched DEF UpdateGuests, TypeOK, HasAccount
<1>5. ASSUME NEW t \in Tables, NEW l \in Lines, AddLine(t, l) PROVE AccountInv'
  BY <1>5, Untouched, SplitUntouched DEF AddLine, Occupied, TypeOK, HasAccount
<1>6. ASSUME NEW t \in Tables, NEW l \in Lines, WithdrawLine(t, l)
      PROVE  AccountInv'
  <2>1. lines'[t] # {}
    BY <1>6 DEF WithdrawLine, BillLines, TypeOK
  <2> QED
    BY <1>6, <2>1, Untouched, SplitUntouched
       DEF WithdrawLine, Occupied, TypeOK, HasAccount
<1>7. ASSUME NEW t \in Tables, NEW l \in Lines, Storno(t, l) PROVE AccountInv'
  BY <1>7, Untouched DEF Storno, TypeOK
<1>8. ASSUME NEW t \in Tables, NEW u \in Tables, TransferAll(u, t)
      PROVE  AccountInv'
  <2>1. TableInv(u)'
    BY <1>8 DEF TransferAll, MayTransfer, TypeOK, TableInv, HasAccount,
                HasActiveSplit, HasRoman, HasAnalytic
  <2>2. TableInv(t)'
    BY <1>8, SplitUntouched DEF TransferAll, MayTransfer, Occupied, TypeOK, HasAccount
  <2> QED
    BY <1>8, <2>1, <2>2, Untouched DEF TransferAll, TypeOK
<1>9. ASSUME NEW t \in Tables, NEW u \in Tables, NEW moved \in SUBSET lines[u],
             TransferLines(u, t, moved)
      PROVE  AccountInv'
  <2>1. TableInv(u)'
    BY <1>9, SplitUntouched DEF TransferLines, MayTransfer, Occupied, TypeOK, HasAccount
  <2>2. TableInv(t)'
    BY <1>9, SplitUntouched DEF TransferLines, MayTransfer, Occupied, TypeOK, HasAccount
  <2> QED
    BY <1>9, <2>1, <2>2, Untouched DEF TransferLines, TypeOK
<1>10. ASSUME NEW t \in Tables, CancelCounterOrder(t) PROVE AccountInv'
  <2>1. request' = Complete(NoRequest, RejectPendingOf(t, request))
    BY <1>10, TablePaymentAssumption DEF CancelCounterOrder, Complete
  <2> QED
    BY <1>10, <2>1, AccountFree DEF CancelCounterOrder
<1> QED
  BY <1>1, <1>2, <1>3, <1>4, <1>5, <1>6, <1>7, <1>8, <1>9, <1>10 DEF RoomStep

LEMMA AccountBill ==
  ASSUME TypeOK, AccountInv, BillStep
  PROVE  AccountInv'
<1> USE PendingUnchanged DEF AccountInv, tableVars, splitVars, moneyVars,
        sessionVars, bookVars, accountVars
<1>1. ASSUME NEW t \in Tables, StartPrebill(t) PROVE AccountInv'
  BY <1>1, Untouched DEF StartPrebill
<1>2. ASSUME NEW t \in Tables, EndPrebill(t) PROVE AccountInv'
  BY <1>2, Untouched, SplitUntouched DEF EndPrebill, TypeOK, HasAccount
<1>3. ASSUME NEW t \in Tables, RequestPayment(t) PROVE AccountInv'
  <2>1. HasAccount(t)
    BY <1>3 DEF RequestPayment, BillIsEmpty, BillLines, HasAccount
  <2>2. TableInv(t)'
    BY <1>3, <2>1 DEF RequestPayment, TypeOK, TableInv, HasAccount,
                      HasActiveSplit, HasRoman, HasAnalytic
  <2>3. \A u \in Tables \ {t} : PendingOf(u)' \subseteq PendingOf(u)
    BY <1>3 DEF RequestPayment, PendingOf, TypeOK
  <2> QED
    BY <1>3, <2>2, <2>3, Untouched DEF RequestPayment, TypeOK
<1>4. ASSUME NEW t \in Tables, NEW n \in 2..MaxShares, StartRomanSplit(t, n)
      PROVE  AccountInv'
  <2>1. HasAccount(t)
    BY <1>4 DEF StartRomanSplit, BillIsEmpty, BillLines, HasAccount
  <2>2. roman'[t] = [shares |-> n, paid |-> 0] /\ n > 0 /\ analytic' = analytic
    BY <1>4, TablePaymentAssumption DEF StartRomanSplit, TypeOK
  <2>3. TableInv(t)'
    BY <1>4, <2>1, <2>2 DEF StartRomanSplit, TypeOK, TableInv, HasAccount,
                            HasActiveSplit, HasRoman, HasAnalytic
  <2> QED
    BY <1>4, <2>3, Untouched DEF StartRomanSplit, TypeOK
<1>5. ASSUME NEW t \in Tables, NEW ids \in SUBSET Checks,
             NEW of \in [Lines -> Checks \cup {NoCheck}],
             PutAnalyticSplit(t, ids, of)
      PROVE  AccountInv'
  <2>1. HasAccount(t)
    BY <1>5 DEF PutAnalyticSplit, BillIsEmpty, BillLines, HasAccount
  <2>2. ids # {}
    BY <1>5, FS_EmptySet DEF PutAnalyticSplit
  <2>3. analytic'[t].ids = ids /\ analytic'[t].paid \subseteq ids
    BY <1>5 DEF PutAnalyticSplit, TypeOK
  <2>4. TableInv(t)'
    BY <1>5, <2>1, <2>2, <2>3
       DEF PutAnalyticSplit, TypeOK, TableInv, HasAccount, HasActiveSplit,
           HasRoman, HasAnalytic
  <2> QED
    BY <1>5, <2>4, Untouched DEF PutAnalyticSplit, TypeOK
<1>6. ASSUME NEW t \in Tables, CancelSplit(t) PROVE AccountInv'
  <2>1. TableInv(t)'
    BY <1>6 DEF CancelSplit, TypeOK, TableInv, HasAccount, HasActiveSplit,
                HasRoman, HasAnalytic, NoRoman, NoAnalytic
  <2> QED
    BY <1>6, <2>1, Untouched DEF CancelSplit, TypeOK
<1>7. ASSUME NEW r \in Requests, RejectRequest(r) PROVE AccountInv'
  <2>1. \A t \in Tables : PendingOf(t)' \subseteq PendingOf(t)
    BY <1>7 DEF RejectRequest, PendingOf, TypeOK
  <2> QED
    BY <1>7, <2>1, Untouched DEF RejectRequest
<1> QED
  BY <1>1, <1>2, <1>3, <1>4, <1>5, <1>6, <1>7 DEF BillStep

LEMMA CompletePending ==
  ASSUME TypeOK, NEW r, request' = Complete(r, request)
  PROVE  \A t \in Tables : PendingOf(t)' \subseteq PendingOf(t)
  BY DEF Complete, PendingOf, TypeOK

LEMMA AccountShare ==
  ASSUME TypeOK, AccountInv, NEW t \in Tables, NEW r, SettleShare(t, r)
  PROVE  AccountInv'
<1> USE DEF AccountInv, accountVars, splitVars
<1>1. CASE ~HasRoman(t)
  BY <1>1, CompletePending, Untouched DEF SettleShare
<1>2. CASE HasRoman(t) /\ roman[t].paid + 1 >= roman[t].shares
  BY <1>2, AccountFree DEF SettleShare
<1>3. CASE HasRoman(t) /\ ~(roman[t].paid + 1 >= roman[t].shares)
  <2>1. /\ roman' = [roman EXCEPT ![t] = [roman[t] EXCEPT !.paid = @ + 1]]
        /\ request' = Complete(r, request)
        /\ UNCHANGED <<status, lines, covers, analytic>>
    BY <1>3 DEF SettleShare
  <2>2. roman[t] \in [shares : Nat, paid : Nat]
    BY TablePaymentAssumption DEF TypeOK, RomanSplit
  <2>3. /\ roman'[t].shares = roman[t].shares
        /\ roman'[t].paid = roman[t].paid + 1
    BY <2>1, <2>2 DEF TypeOK
  <2>4. roman'[t].paid < roman'[t].shares /\ roman'[t].shares > 0
    BY <1>3, <2>2, <2>3 DEF HasRoman
  <2>5. TableInv(t)'
    BY <1>3, <2>1, <2>4, CompletePending
       DEF TableInv, HasAccount, HasActiveSplit, HasRoman, HasAnalytic
  <2>6. \A u \in Tables \ {t} : roman'[u] = roman[u]
    BY <2>1 DEF TypeOK
  <2> QED
    BY <2>1, <2>5, <2>6, CompletePending, Untouched
<1> QED
  BY <1>1, <1>2, <1>3

LEMMA AccountCheck ==
  ASSUME TypeOK, AccountInv, NEW t \in Tables, NEW c, NEW bill, NEW r,
         SettleCheck(t, c, bill, r)
  PROVE  AccountInv'
<1> USE DEF AccountInv
<1> DEFINE paid == analytic[t].paid \cup ({c} \cap analytic[t].ids)
<1>1. CASE FreeTable(t) /\ request' = Complete(r, RejectPendingOf(t, request))
  BY <1>1, AccountFree
<1>2. CASE /\ analytic' = [analytic EXCEPT ![t] = [analytic[t] EXCEPT !.paid = paid]]
           /\ request' = Complete(r, request)
           /\ UNCHANGED <<status, lines, covers, roman>>
  <2>1. analytic[t] \in AnalyticSplit
    BY DEF TypeOK
  <2>2. analytic'[t].ids = analytic[t].ids /\ analytic'[t].paid = paid
    BY <1>2, <2>1 DEF TypeOK, AnalyticSplit
  <2>3. TableInv(t)'
    BY <1>2, <2>2, CompletePending
       DEF TableInv, HasAccount, HasActiveSplit, HasRoman, HasAnalytic
  <2>4. \A u \in Tables \ {t} : analytic'[u] = analytic[u]
    BY <1>2 DEF TypeOK
  <2> QED
    BY <1>2, <2>3, <2>4, CompletePending, Untouched
<1> QED
  BY <1>1, <1>2 DEF SettleCheck

LEMMA AccountPayment ==
  ASSUME TypeOK, AccountInv, NEW d \in Desks, PaymentStep(d)
  PROVE  AccountInv'
<1>1. CASE Settle(d)
  <2>1. desk[d].table \in Tables /\ desk[d].kind \in {"FULL", "ROMAN", "CHECK"}
    BY <1>1 DEF Settle, TypeOK, Handler
  <2>2. \/ SettleShare(desk[d].table, desk[d].request)
        \/ SettleCheck(desk[d].table, desk[d].check, desk[d].bill, desk[d].request)
        \/ SettleFull(desk[d].table, desk[d].request)
    BY <1>1, <2>1 DEF Settle
  <2> QED
    BY <2>1, <2>2, AccountShare, AccountCheck, AccountFree DEF SettleFull
<1>2. CASE UNCHANGED <<tableVars, splitVars, request>>
  BY <1>2, PendingUnchanged, Untouched
     DEF AccountInv, tableVars, splitVars, accountVars
<1>3. \/ Settle(d)
      \/ UNCHANGED <<tableVars, splitVars, request>>
  BY DEF PaymentStep, Pay, TriggerReceipt, ConfirmPayment, StartPayment,
         PrinterIssues, PrinterFails, FilingFails, InvoiceEnds
<1> QED
  BY <1>1, <1>2, <1>3

LEMMA AccountNext == TypeOK /\ AccountInv /\ [Next]_vars => AccountInv'
<1> SUFFICES ASSUME TypeOK, AccountInv, [Next]_vars PROVE AccountInv'
  OBVIOUS
<1>1. CASE UNCHANGED <<tableVars, splitVars, request>>
  BY <1>1, PendingUnchanged, Untouched
     DEF AccountInv, tableVars, splitVars, accountVars
<1>2. CASE SessionStep
  BY <1>1, <1>2 DEF SessionStep, OpenCashSession, CloseCashSession
<1> QED
  BY <1>1, <1>2, AccountRoom, AccountBill, AccountPayment DEF Next, vars

THEOREM AccountInvariant == Spec => []AccountInv
  BY AccountInit, AccountNext, TypeCorrect, PTL DEF Spec

\* No order line, cover, split or payment request outlives the account of a
\* table: whoever sits at a free table starts from nothing.
THEOREM FreeTables == Spec => []FreeTableIsClean
  BY AccountInvariant, AccountInvImplies, PTL

\* A table has one split at most, and one that is shown as being split can
\* be paid on or cancelled.
THEOREM Splits == Spec => []SplitStateConsistent
  BY AccountInvariant, AccountInvImplies, PTL

-----------------------------------------------------------------------------
\* Collected shares are kept

LEMMA SharesKept ==
  ASSUME TypeOK, AccountInv, Next, NEW t \in Tables
  PROVE  \/ roman'[t].paid >= roman[t].paid
         \/ status'[t] = "FREE"
<1> USE DEF tableVars, splitVars, moneyVars, sessionVars, bookVars, accountVars
<1>1. roman[t].paid \in Nat /\ roman[t].shares \in Nat
  BY TablePaymentAssumption DEF TypeOK, RomanSplit
<1>2. CASE roman' = roman
  BY <1>1, <1>2
<1>3. ASSUME NEW u \in Tables, FreeTable(u)
      PROVE  roman'[t] = roman[t] \/ status'[t] = "FREE"
  BY <1>3 DEF FreeTable, TypeOK
<1>4. CASE RoomStep
  <2>1. CASE \E u \in Tables : CancelCounterOrder(u)
    BY <1>1, <1>3, <2>1 DEF CancelCounterOrder
  <2>2. ASSUME NEW u \in Tables, NEW v \in Tables, NEW moved,
               TransferAll(u, v) \/ TransferLines(u, v, moved)
        PROVE  roman' = roman
    BY <2>2 DEF TransferAll, TransferLines
  <2>3. ASSUME NEW u \in Tables, NEW l \in Lines,
               AddLine(u, l) \/ WithdrawLine(u, l) \/ Storno(u, l)
        PROVE  roman' = roman
    BY <2>3 DEF AddLine, WithdrawLine, Storno
  <2>4. (\E u \in Tables : CancelCounterOrder(u)) \/ roman' = roman
    BY <1>4, <2>2, <2>3
       DEF RoomStep, RequestLock, ReleaseLock, OpenTable, UpdateGuests
  <2> QED
    BY <1>2, <2>1, <2>4
<1>5. ASSUME NEW u \in Tables, NEW n \in 2..MaxShares, StartRomanSplit(u, n)
      PROVE  roman'[t].paid >= roman[t].paid
  <2>1. ~HasRoman(u)
    BY <1>5 DEF StartRomanSplit, HasActiveSplit
  <2>2. CASE t = u
    <3>1. roman[t].paid = 0
      BY <1>1, <2>1, <2>2 DEF AccountInv, TableInv, HasRoman, NoRoman
    <3>2. roman'[t].paid = 0
      BY <1>5, <2>2 DEF StartRomanSplit, TypeOK
    <3> QED
      BY <3>1, <3>2
  <2> QED
    BY <1>1, <1>5, <2>2 DEF StartRomanSplit, TypeOK
<1>6. ASSUME NEW u \in Tables, CancelSplit(u)
      PROVE  roman'[t].paid >= roman[t].paid
  <2>1. CASE t = u
    <3>1. roman[t].paid = 0 /\ roman'[t].paid = 0
      BY <1>6, <2>1 DEF CancelSplit, TypeOK, NoRoman
    <3> QED
      BY <3>1
  <2> QED
    BY <1>1, <1>6, <2>1 DEF CancelSplit, TypeOK
<1>7. CASE BillStep
  BY <1>2, <1>5, <1>6, <1>7
     DEF BillStep, StartPrebill, EndPrebill, RequestPayment, RejectRequest,
         PutAnalyticSplit
<1>8. ASSUME NEW u \in Tables, NEW r, SettleShare(u, r)
      PROVE  roman'[t].paid >= roman[t].paid \/ status'[t] = "FREE"
  <2>1. CASE roman' = [roman EXCEPT ![u].paid = @ + 1]
    <3>1. roman[t] \in [shares : Nat, paid : Nat]
      BY TablePaymentAssumption DEF TypeOK, RomanSplit
    <3>2. roman'[t].paid = roman[t].paid + 1 \/ roman'[t].paid = roman[t].paid
      BY <2>1, <3>1 DEF TypeOK
    <3> QED
      BY <1>1, <3>2
  <2> QED
    BY <1>1, <1>2, <1>3, <1>8, <2>1 DEF SettleShare
<1>9. ASSUME NEW d \in Desks, PaymentStep(d)
      PROVE  roman'[t].paid >= roman[t].paid \/ status'[t] = "FREE"
  <2>1. CASE Settle(d)
    <3>1. desk[d].table \in Tables /\ desk[d].kind \in {"FULL", "ROMAN", "CHECK"}
      BY <2>1 DEF Settle, TypeOK, Handler
    <3>2. \/ SettleShare(desk[d].table, desk[d].request)
          \/ SettleCheck(desk[d].table, desk[d].check, desk[d].bill, desk[d].request)
          \/ SettleFull(desk[d].table, desk[d].request)
      BY <2>1, <3>1 DEF Settle
    <3>3. CASE SettleCheck(desk[d].table, desk[d].check, desk[d].bill, desk[d].request)
      BY <1>1, <1>2, <1>3, <3>1, <3>3 DEF SettleCheck
    <3>4. CASE SettleFull(desk[d].table, desk[d].request)
      BY <1>1, <1>3, <3>1, <3>4 DEF SettleFull
    <3> QED
      BY <1>8, <3>1, <3>2, <3>3, <3>4
  <2>2. Settle(d) \/ roman' = roman
    BY <1>9 DEF PaymentStep, Pay, TriggerReceipt, ConfirmPayment, StartPayment,
                PrinterIssues, PrinterFails, FilingFails, InvoiceEnds
  <2> QED
    BY <1>2, <2>1, <2>2
<1>10. CASE SessionStep
  BY <1>2, <1>10 DEF SessionStep, OpenCashSession, CloseCashSession
<1> QED
  BY <1>4, <1>7, <1>9, <1>10 DEF Next

\* The count of the collected shares of a table grows until the table is
\* freed: no call loses a share that a guest has paid.
THEOREM SharesNeverLost == Spec => CollectedSharesKept
<1> DEFINE Kept == \A t \in Tables :
                     roman'[t].paid < roman[t].paid => status'[t] = "FREE"
<1>1. TypeOK /\ AccountInv /\ [Next]_vars => [Kept]_vars
  <2> SUFFICES ASSUME TypeOK, AccountInv, Next PROVE Kept
    OBVIOUS
  <2>1. ASSUME NEW t \in Tables, roman'[t].paid < roman[t].paid
        PROVE  status'[t] = "FREE"
    <3>1. roman[t].paid \in Nat /\ roman'[t].paid \in Nat
      BY TypeNext, TablePaymentAssumption DEF TypeOK, RomanSplit
    <3> QED
      BY <2>1, <3>1, SharesKept
  <2> QED
    BY <2>1
<1> QED
  BY <1>1, TypeCorrect, AccountInvariant, PTL DEF Spec, CollectedSharesKept

-----------------------------------------------------------------------------
\* One pending request per table

OnlyPending == \A t \in Tables : \A q, r \in PendingOf(t) : q = r

LEMMA OnlyPendingImplies == OnlyPending => OnePendingPerTable
<1> SUFFICES ASSUME OnlyPending, NEW t \in Tables
             PROVE  Cardinality(PendingOf(t)) <= 1
  BY DEF OnePendingPerTable
<1>1. CASE PendingOf(t) = {}
  BY <1>1, FS_EmptySet
<1>2. ASSUME NEW r \in PendingOf(t) PROVE Cardinality(PendingOf(t)) <= 1
  <2>1. PendingOf(t) = {r}
    BY <1>2 DEF OnlyPending
  <2>2. Cardinality({r}) = 1
    BY FS_Singleton
  <2> QED
    BY <2>1, <2>2
<1> QED
  BY <1>1, <1>2

\* Only REQUEST_PAYMENT adds a pending request.
LEMMA PendingShrinks ==
  ASSUME TypeOK, [Next]_vars, ~\E t \in Tables : RequestPayment(t)
  PROVE  \A t \in Tables : PendingOf(t)' \subseteq PendingOf(t)
<1>1. CASE UNCHANGED request
  BY <1>1, PendingUnchanged
<1>2. ASSUME NEW u \in Tables, NEW r,
             request' = Complete(r, RejectPendingOf(u, request))
      PROVE  \A t \in Tables : PendingOf(t)' \subseteq PendingOf(t)
  BY <1>2 DEF Complete, RejectPendingOf, PendingOf, TypeOK
<1>3. ASSUME NEW u \in Tables, CancelCounterOrder(u)
      PROVE  \A t \in Tables : PendingOf(t)' \subseteq PendingOf(t)
  BY <1>3 DEF CancelCounterOrder, RejectPendingOf, PendingOf, TypeOK
<1>4. CASE RoomStep
  BY <1>1, <1>3, <1>4
     DEF RoomStep, RequestLock, ReleaseLock, OpenTable, UpdateGuests, AddLine,
         WithdrawLine, Storno, TransferAll, TransferLines
<1>5. ASSUME NEW r \in Requests, RejectRequest(r)
      PROVE  \A t \in Tables : PendingOf(t)' \subseteq PendingOf(t)
  BY <1>5 DEF RejectRequest, PendingOf, TypeOK
<1>6. CASE BillStep
  BY <1>1, <1>5, <1>6
     DEF BillStep, StartPrebill, EndPrebill, StartRomanSplit, PutAnalyticSplit,
         CancelSplit
<1>7. ASSUME NEW d \in Desks, Settle(d)
      PROVE  \A t \in Tables : PendingOf(t)' \subseteq PendingOf(t)
  <2>1. desk[d].table \in Tables /\ desk[d].kind \in {"FULL", "ROMAN", "CHECK"}
    BY <1>7 DEF Settle, TypeOK, Handler
  <2>2. \/ request' = Complete(desk[d].request, request)
        \/ request' = Complete(desk[d].request,
                               RejectPendingOf(desk[d].table, request))
    BY <1>7, <2>1 DEF Settle, SettleShare, SettleCheck, SettleFull
  <2> QED
    BY <1>2, <2>1, <2>2, CompletePending
<1>8. ASSUME NEW d \in Desks, PaymentStep(d)
      PROVE  \A t \in Tables : PendingOf(t)' \subseteq PendingOf(t)
  <2>1. Settle(d) \/ UNCHANGED request
    BY <1>8 DEF PaymentStep, Pay, TriggerReceipt, ConfirmPayment, StartPayment,
                PrinterIssues, PrinterFails, FilingFails, InvoiceEnds
  <2> QED
    BY <1>1, <1>7, <2>1
<1>9. CASE SessionStep
  BY <1>1, <1>9 DEF SessionStep, OpenCashSession, CloseCashSession
<1> QED
  BY <1>1, <1>4, <1>6, <1>8, <1>9 DEF Next, vars

LEMMA OnlyPendingNext == TypeOK /\ OnlyPending /\ [Next]_vars => OnlyPending'
<1> SUFFICES ASSUME TypeOK, OnlyPending, [Next]_vars PROVE OnlyPending'
  OBVIOUS
<1>1. ASSUME NEW u \in Tables, RequestPayment(u) PROVE OnlyPending'
  <2>1. CASE PendingOf(u) # {}
    BY <1>1, <2>1, PendingUnchanged DEF RequestPayment, OnlyPending
  <2>2. CASE PendingOf(u) = {}
    <3>1. PICK r \in Requests :
            request' = [request EXCEPT ![r] = [table |-> u, state |-> "PENDING"]]
      BY <1>1, <2>2 DEF RequestPayment
    <3>2. \A t \in Tables : PendingOf(t)' \subseteq PendingOf(t) \cup
                              (IF t = u THEN {r} ELSE {})
      BY <3>1 DEF PendingOf, TypeOK
    <3> QED
      BY <2>2, <3>2 DEF OnlyPending
  <2> QED
    BY <2>1, <2>2
<1>2. CASE ~\E t \in Tables : RequestPayment(t)
  BY <1>2, PendingShrinks DEF OnlyPending
<1> QED
  BY <1>1, <1>2

LEMMA OnlyPendingInit == Init => OnlyPending
  BY DEF Init, OnlyPending, PendingOf, NotSent

\* However often the handhelds of a table ask for its bill, the till sees
\* one pending request.
THEOREM OnePending == Spec => []OnePendingPerTable
  BY OnlyPendingInit, OnlyPendingNext, OnlyPendingImplies, TypeCorrect, PTL
     DEF Spec

-----------------------------------------------------------------------------
\* Documents of a closed session

(***************************************************************************)
(* A desk with a payment in flight has no late document of that payment's  *)
(* session yet: it started when the session was open, and one desk has one *)
(* payment at a time.                                                      *)
(***************************************************************************)
LateInv ==
  /\ LateDocumentsBounded
  /\ \A d \in Desks : desk[d].pc # "idle" =>
       \A e \in LateDocuments(desk[d].session) : e.desk # d

\* The variables that LateInv reads.
lateVars == <<session, frozen, archive, desk>>

\* What the room and the bill do moves no money.
LEMMA MoneyKept ==
  ASSUME RoomStep \/ BillStep
  PROVE  UNCHANGED <<session, frozen, desk, issued, ledger, archive, orphans>>
<1> DEFINE Kept == UNCHANGED <<session, frozen, desk, issued, ledger, archive, orphans>>
<1> USE DEF moneyVars, sessionVars, bookVars
<1>1. ASSUME NEW t \in Tables,
             RequestLock(t) \/ ReleaseLock(t) \/ OpenTable(t) \/ UpdateGuests(t)
      PROVE  Kept
  BY <1>1 DEF RequestLock, ReleaseLock, OpenTable, UpdateGuests
<1>2. ASSUME NEW t \in Tables, CancelCounterOrder(t) PROVE Kept
  BY <1>2 DEF CancelCounterOrder
<1>3. ASSUME NEW t \in Tables, NEW l \in Lines,
             AddLine(t, l) \/ WithdrawLine(t, l) \/ Storno(t, l)
      PROVE  Kept
  BY <1>3 DEF AddLine, WithdrawLine, Storno
<1>4. ASSUME NEW t \in Tables, NEW u \in Tables, NEW moved \in SUBSET lines[u],
             TransferAll(u, t) \/ TransferLines(u, t, moved)
      PROVE  Kept
  BY <1>4 DEF TransferAll, TransferLines
<1>5. CASE RoomStep
  <2>1. \A u : {} \in SUBSET lines[u]
    OBVIOUS
  <2> QED
    BY <1>1, <1>2, <1>3, <1>4, <1>5, <2>1 DEF RoomStep
<1>6. ASSUME NEW t \in Tables, NEW n, StartRomanSplit(t, n) PROVE Kept
  BY <1>6 DEF StartRomanSplit
<1>7. ASSUME NEW t \in Tables, NEW ids, NEW of, PutAnalyticSplit(t, ids, of) PROVE Kept
  BY <1>7 DEF PutAnalyticSplit
<1>8. CASE BillStep
  BY <1>6, <1>7, <1>8
     DEF BillStep, StartPrebill, EndPrebill, RequestPayment, RejectRequest, CancelSplit
<1> QED
  BY <1>5, <1>8

\* What a call of a payment is: its start, whoever asks, or its next step.
LEMMA PaymentIs ==
  ASSUME NEW d \in Desks, PaymentStep(d)
  PROVE  \/ \E t, mode, c, r, invoice : StartPayment(d, t, mode, c, r, invoice)
         \/ PrinterIssues(d) \/ PrinterFails(d) \/ FilingFails(d)
         \/ Settle(d) \/ InvoiceEnds(d)
<1>1. ASSUME NEW t, NEW asked, NEW c, NEW r, NEW invoice, Pay(d, t, asked, c, r, invoice)
      PROVE  \E mode : StartPayment(d, t, mode, c, r, invoice)
  BY <1>1 DEF Pay
<1>2. ASSUME NEW r, ConfirmPayment(d, r)
      PROVE  \E t, mode : StartPayment(d, t, mode, NoCheck, r, FALSE)
  BY <1>2 DEF ConfirmPayment
<1>3. ASSUME NEW t, TriggerReceipt(d, t)
      PROVE  \E mode : StartPayment(d, t, mode, NoCheck, NoRequest, FALSE)
  BY <1>3 DEF TriggerReceipt
<1> QED
  BY <1>1, <1>2, <1>3 DEF PaymentStep

LEMMA LateInit == Init => LateInv
  BY DEF Init, LateInv, LateDocumentsBounded, LateDocuments, Idle

LEMMA LateUnchanged == LateInv /\ UNCHANGED lateVars => LateInv'
  BY DEF LateInv, LateDocumentsBounded, LateDocuments, Documents, lateVars

\* A payment starts for an open session, which has no late document.
LEMMA LateStart ==
  ASSUME TypeOK, LateInv, NEW d \in Desks, NEW t, NEW mode, NEW c, NEW r,
         NEW invoice, StartPayment(d, t, mode, c, r, invoice)
  PROVE  LateInv'
<1>1. PICK s \in OpenSessions :
        /\ desk'[d].session = s
        /\ \A e \in Desks \ {d} : desk'[e] = desk[e]
  BY DEF StartPayment, TypeOK
<1>2. UNCHANGED <<session, frozen, archive>>
  BY DEF StartPayment, sessionVars, bookVars
<1>3. \A x : LateDocuments(x)' = LateDocuments(x)
  BY <1>2 DEF LateDocuments, Documents
<1>4. LateDocuments(desk'[d].session) = {}
  BY <1>1 DEF OpenSessions, LateDocuments
<1> QED
  BY <1>1, <1>3, <1>4 DEF LateInv, LateDocumentsBounded

\* The payment of a desk ends, with a document in the archive or without.
LEMMA LateEnd ==
  ASSUME TypeOK, LateInv, NEW d \in Desks, desk[d].pc # "idle",
         UNCHANGED <<session, frozen>>, desk' = [desk EXCEPT ![d] = Idle],
         archive' = archive \/ archive' = archive \cup {ReceiptOf(d)}
  PROVE  LateInv'
<1> PICK own : own = desk[d].session
  OBVIOUS
<1>1. desk'[d].pc = "idle" /\ \A e \in Desks \ {d} : desk'[e] = desk[e]
  BY DEF TypeOK, Idle
<1>2. \A s \in Sessions \ {own} : LateDocuments(s)' = LateDocuments(s)
  BY DEF LateDocuments, Documents, ReceiptOf
<1>3. /\ LateDocuments(own)' \subseteq LateDocuments(own) \cup {ReceiptOf(d)}
      /\ ReceiptOf(d).desk = d
  BY DEF LateDocuments, Documents, ReceiptOf
<1>4. \A e \in LateDocuments(own) : e.desk # d
  BY DEF LateInv
<1>5. LateDocumentsBounded'
  <2> SUFFICES ASSUME NEW s \in Sessions, NEW e1 \in LateDocuments(s)',
                      NEW e2 \in LateDocuments(s)', e1.desk = e2.desk
               PROVE  e1 = e2
    BY DEF LateDocumentsBounded
  <2>1. CASE s = own
    BY <1>3, <1>4, <2>1 DEF LateInv, LateDocumentsBounded
  <2>2. CASE s # own
    BY <1>2, <2>2 DEF LateInv, LateDocumentsBounded
  <2> QED
    BY <2>1, <2>2
<1>6. ASSUME NEW e \in Desks, desk'[e].pc # "idle",
             NEW x \in LateDocuments(desk[e].session)'
      PROVE  x.desk # e
  <2>1. e # d /\ desk'[e] = desk[e]
    BY <1>1, <1>6
  <2>2. desk[e].session \in Sessions
    BY <1>6, <2>1 DEF TypeOK
  <2> QED
    BY <1>2, <1>3, <1>6, <2>1, <2>2 DEF LateInv
<1> QED
  BY <1>5, <1>6 DEF LateInv

\* A step of the payment of a desk that leaves the archive alone.
LEMMA LateOn ==
  ASSUME TypeOK, LateInv, NEW d \in Desks, desk[d].pc # "idle",
         UNCHANGED <<session, frozen, archive>>,
         \A e \in Desks \ {d} : desk'[e] = desk[e],
         desk'[d].session = desk[d].session
  PROVE  LateInv'
<1>1. \A x : LateDocuments(x)' = LateDocuments(x)
  BY DEF LateDocuments, Documents
<1> QED
  BY <1>1 DEF LateInv, LateDocumentsBounded

LEMMA LateSession ==
  ASSUME TypeOK, LateInv, SessionStep
  PROVE  LateInv'
<1> SUFFICES \A s \in Sessions : LateDocuments(s)' \subseteq LateDocuments(s)
  BY DEF SessionStep, OpenCashSession, CloseCashSession, bookVars, LateInv,
         LateDocumentsBounded, TypeOK
<1>1. ASSUME NEW s \in Sessions, OpenCashSession(s), NEW x \in Sessions
      PROVE  LateDocuments(x)' \subseteq LateDocuments(x)
  BY <1>1 DEF OpenCashSession, LateDocuments, Documents, TypeOK, bookVars
<1>2. ASSUME NEW s \in Sessions, CloseCashSession(s), NEW x \in Sessions
      PROVE  LateDocuments(x)' \subseteq LateDocuments(x)
  BY <1>2 DEF CloseCashSession, LateDocuments, Documents, TypeOK, bookVars
<1> QED
  BY <1>1, <1>2 DEF SessionStep

LEMMA LatePayment ==
  ASSUME TypeOK, LateInv, NEW d \in Desks, PaymentStep(d)
  PROVE  LateInv'
<1> USE DEF sessionVars
<1>1. ASSUME NEW t, NEW mode, NEW c, NEW r, NEW invoice,
             StartPayment(d, t, mode, c, r, invoice)
      PROVE  LateInv'
  BY <1>1, LateStart
<1>2. CASE PrinterIssues(d)
  <2>1. desk[d] \in Handler /\ issued + 1 \in Nat
    BY TablePaymentAssumption DEF TypeOK
  <2>2. desk' = [desk EXCEPT ![d] = [desk[d] EXCEPT !.pc = "filing",
                                                    !.id = issued + 1]]
    BY <1>2 DEF PrinterIssues, TypeOK
  <2>3. desk'[d].session = desk[d].session
    BY <2>1, <2>2, FilingType DEF TypeOK
  <2> QED
    BY <1>2, <2>2, <2>3, LateOn DEF PrinterIssues, TypeOK
<1>3. CASE PrinterFails(d)
  BY <1>3, LateEnd DEF PrinterFails, bookVars
<1>4. CASE FilingFails(d)
  BY <1>4, LateEnd DEF FilingFails
<1>5. CASE Settle(d)
  <2>1. CASE desk[d].invoice
    <3>1. desk[d].session \in Sessions /\ desk[d].id \in Nat
      BY <1>5 DEF Settle, TypeOK, Handler
    <3>2. desk' = [desk EXCEPT ![d] = [Idle EXCEPT !.pc = "invoicing",
                     !.session = desk[d].session, !.id = desk[d].id]]
      BY <1>5, <2>1 DEF Settle
    <3>3. desk'[d].session = desk[d].session
      BY <3>1, <3>2, InvoicingType DEF TypeOK
    <3> QED
      BY <1>5, <2>1, <3>2, <3>3, LateOn DEF Settle, TypeOK
  <2>2. CASE ~desk[d].invoice
    BY <1>5, <2>2, LateEnd DEF Settle
  <2> QED
    BY <2>1, <2>2
<1>6. CASE InvoiceEnds(d)
  BY <1>6, LateEnd DEF InvoiceEnds
<1> QED
  BY <1>1, <1>2, <1>3, <1>4, <1>5, <1>6, PaymentIs

LEMMA LateNext == TypeOK /\ LateInv /\ [Next]_vars => LateInv'
<1> SUFFICES ASSUME TypeOK, LateInv, [Next]_vars PROVE LateInv'
  OBVIOUS
<1> USE DEF lateVars, moneyVars, sessionVars, bookVars
<1>1. CASE UNCHANGED vars
  BY <1>1, LateUnchanged DEF vars
<1>2. CASE RoomStep \/ BillStep
  BY <1>2, MoneyKept, LateUnchanged
<1> QED
  BY <1>1, <1>2, LateSession, LatePayment DEF Next

\* However payments and closings interleave, a closed session gains one
\* document per desk at most after its totals were frozen.
THEOREM LateDocumentsAreFew == Spec => []LateDocumentsBounded
<1>1. Spec => []LateInv
  BY LateInit, LateNext, TypeCorrect, PTL DEF Spec
<1>2. LateInv => LateDocumentsBounded
  BY DEF LateInv
<1> QED
  BY <1>1, <1>2, PTL

-----------------------------------------------------------------------------
\* Every receipt is accounted for

\* The receipts whose handler has still to write them in the ledger.
Filing == {desk[d].id : d \in {d \in Desks : desk[d].pc = "filing"}}
Ledgered == {e.id : e \in ledger}

BooksInv ==
  /\ Ledgered \cup Filing \cup orphans = 1..issued
  /\ archive \subseteq ledger
  /\ \A s \in Sessions : frozen[s] \subseteq Documents(s)
  /\ \A d \in Desks : desk[d].pc = "invoicing" => ReceiptOf(d) \in ledger

LEMMA BooksInvImplies == BooksInv => ReceiptsAccounted
  BY DEF BooksInv, ReceiptsAccounted, Ledgered, Filing

LEMMA BooksInit == Init => BooksInv
  BY DEF Init, BooksInv, Ledgered, Filing, Documents, Idle

LEMMA BooksUnchanged ==
  BooksInv /\ UNCHANGED <<session, frozen, desk, issued, ledger, archive, orphans>>
    => BooksInv'
  BY DEF BooksInv, Ledgered, Filing, Documents, ReceiptOf

\* The archive only grows, so that the frozen documents stay in it.
LEMMA FrozenKept ==
  ASSUME BooksInv, frozen' = frozen, archive \subseteq archive'
  PROVE  \A s \in Sessions : frozen'[s] \subseteq Documents(s)'
  BY DEF BooksInv, Documents

LEMMA BooksStart ==
  ASSUME TypeOK, BooksInv, NEW d \in Desks, NEW t, NEW mode, NEW c, NEW r,
         NEW invoice, StartPayment(d, t, mode, c, r, invoice)
  PROVE  BooksInv'
<1>1. /\ desk[d].pc = "idle" /\ desk'[d].pc = "printing"
      /\ \A e \in Desks \ {d} : desk'[e] = desk[e]
      /\ UNCHANGED <<session, frozen, issued, ledger, archive, orphans>>
  BY DEF StartPayment, TypeOK, sessionVars, bookVars
<1>2. Filing' = Filing /\ Ledgered' = Ledgered
  BY <1>1 DEF Filing, Ledgered
<1> QED
  BY <1>1, <1>2, FrozenKept DEF BooksInv, ReceiptOf

LEMMA BooksPayment ==
  ASSUME TypeOK, BooksInv, NEW d \in Desks, PaymentStep(d)
  PROVE  BooksInv'
<1> USE DEF sessionVars
<1>1. ASSUME NEW t, NEW mode, NEW c, NEW r, NEW invoice,
             StartPayment(d, t, mode, c, r, invoice)
      PROVE  BooksInv'
  BY <1>1, BooksStart
<1>2. CASE PrinterIssues(d)
  <2>1. desk[d] \in Handler /\ issued \in Nat
    BY TablePaymentAssumption DEF TypeOK
  <2>2. desk' = [desk EXCEPT ![d] = [desk[d] EXCEPT !.pc = "filing",
                                                    !.id = issued + 1]]
    BY <1>2 DEF PrinterIssues, TypeOK
  <2>3. /\ desk'[d].pc = "filing" /\ desk'[d].id = issued + 1
        /\ \A e \in Desks \ {d} : desk'[e] = desk[e]
    BY <2>1, <2>2 DEF TypeOK, Handler
  <2>4. desk[d].pc = "printing" /\ issued' = issued + 1
    BY <1>2 DEF PrinterIssues
  <2>5. Filing' = Filing \cup {issued + 1}
    BY <2>3, <2>4 DEF Filing
  <2>6. Ledgered' = Ledgered /\ orphans' = orphans
    BY <1>2 DEF PrinterIssues, Ledgered
  <2>7. 1..issued' = (1..issued) \cup {issued + 1}
    BY <2>1, <2>4
  <2>8. Ledgered' \cup Filing' \cup orphans' = 1..issued'
    BY <2>5, <2>6, <2>7 DEF BooksInv
  <2>9. UNCHANGED <<session, frozen, ledger, archive, orphans>>
    BY <1>2 DEF PrinterIssues
  <2> QED
    BY <2>3, <2>8, <2>9, FrozenKept DEF BooksInv, ReceiptOf
<1>3. ASSUME desk' = [desk EXCEPT ![d] = Idle]
      PROVE  desk'[d].pc = "idle" /\ \A e \in Desks \ {d} : desk'[e] = desk[e]
  BY <1>3 DEF TypeOK, Idle
<1>4. CASE PrinterFails(d)
  <2>1. Filing' = Filing /\ Ledgered' = Ledgered
    BY <1>3, <1>4 DEF PrinterFails, Filing, Ledgered, bookVars
  <2> QED
    BY <1>3, <1>4, <2>1, FrozenKept DEF PrinterFails, BooksInv, ReceiptOf, bookVars
<1>5. CASE FilingFails(d)
  <2>1. Filing \cup orphans = Filing' \cup orphans' /\ Ledgered' = Ledgered
    BY <1>3, <1>5 DEF FilingFails, Filing, Ledgered
  <2>2. Ledgered' \cup Filing' \cup orphans' = 1..issued'
    BY <1>5, <2>1 DEF FilingFails, BooksInv
  <2> QED
    BY <1>3, <1>5, <2>2, FrozenKept DEF FilingFails, BooksInv, ReceiptOf
<1>6. CASE Settle(d)
  <2>1. /\ desk[d].pc = "filing" /\ ReceiptOf(d).id = desk[d].id
        /\ ledger' = ledger \cup {ReceiptOf(d)}
        /\ archive' = archive \/ archive' = archive \cup {ReceiptOf(d)}
        /\ UNCHANGED <<session, frozen, issued, orphans>>
    BY <1>6 DEF Settle, DayTransaction, ReceiptOf
  <2>2. \/ desk'[d].pc = "idle"
        \/ /\ desk'[d].pc = "invoicing" /\ desk'[d].session = desk[d].session
           /\ desk'[d].id = desk[d].id
    <3>1. CASE ~desk[d].invoice
      BY <1>3, <1>6, <3>1 DEF Settle
    <3>2. CASE desk[d].invoice
      <4> DEFINE g == [Idle EXCEPT !.pc = "invoicing",
                           !.session = desk[d].session, !.id = desk[d].id]
      <4>1. desk[d].session \in Sessions /\ desk[d].id \in Nat
        BY <2>1 DEF TypeOK, Handler
      <4>2. g.pc = "invoicing" /\ g.session = desk[d].session /\ g.id = desk[d].id
        BY <4>1, InvoicingType, InvoicingId
      <4> HIDE DEF g
      <4>3. desk'[d] = g
        BY <1>6, <3>2 DEF Settle, TypeOK, g
      <4> QED
        BY <4>2, <4>3
    <3> QED
      BY <3>1, <3>2
  <2>3. \A e \in Desks \ {d} : desk'[e] = desk[e]
    BY <1>6 DEF Settle, TypeOK
  <2>4. Filing \cup Ledgered = Filing' \cup Ledgered'
    BY <2>1, <2>2, <2>3 DEF Filing, Ledgered
  <2>5. Ledgered' \cup Filing' \cup orphans' = 1..issued'
    BY <2>1, <2>4 DEF BooksInv
  <2> QED
    BY <2>1, <2>2, <2>3, <2>5, FrozenKept DEF BooksInv, ReceiptOf
<1>7. CASE InvoiceEnds(d)
  <2>1. Filing' = Filing /\ Ledgered' = Ledgered
    BY <1>3, <1>7 DEF InvoiceEnds, Filing, Ledgered
  <2>2. ReceiptOf(d) \in ledger
    BY <1>7 DEF InvoiceEnds, BooksInv
  <2> QED
    BY <1>3, <1>7, <2>1, <2>2, FrozenKept DEF InvoiceEnds, BooksInv, ReceiptOf
<1> QED
  BY <1>1, <1>2, <1>4, <1>5, <1>6, <1>7, PaymentIs

LEMMA BooksNext == TypeOK /\ BooksInv /\ [Next]_vars => BooksInv'
<1> SUFFICES ASSUME TypeOK, BooksInv, [Next]_vars PROVE BooksInv'
  OBVIOUS
<1> USE DEF moneyVars, sessionVars, bookVars
<1>1. CASE UNCHANGED vars
  BY <1>1, BooksUnchanged DEF vars
<1>2. CASE RoomStep \/ BillStep
  BY <1>2, MoneyKept, BooksUnchanged
<1>3. CASE SessionStep
  <2>1. UNCHANGED <<desk, issued, ledger, archive, orphans>>
    BY <1>3 DEF SessionStep, OpenCashSession, CloseCashSession
  <2>2. \A s \in Sessions : frozen'[s] = frozen[s] \/ frozen'[s] = Documents(s)
    BY <1>3 DEF SessionStep, OpenCashSession, CloseCashSession, TypeOK
  <2>3. \A s \in Sessions : Documents(s)' = Documents(s)
    BY <2>1 DEF Documents
  <2>4. Ledgered' = Ledgered /\ Filing' = Filing
    BY <2>1 DEF Ledgered, Filing
  <2> QED
    BY <2>1, <2>2, <2>3, <2>4 DEF BooksInv, ReceiptOf
<1> QED
  BY <1>1, <1>2, <1>3, BooksPayment DEF Next

\* No receipt that the printer issued escapes the books unless its handler
\* failed at once after it, and the archive holds no receipt that the day
\* ledger lacks.
THEOREM EveryReceiptAccounted == Spec => []ReceiptsAccounted
  BY BooksInit, BooksNext, BooksInvImplies, TypeCorrect, PTL DEF Spec
=============================================================================
