----------------------------- MODULE TillScreen -----------------------------
(***************************************************************************)
(* The payment screen of one till against the accounts of the server       *)
(* (apps/edge-web: pages/CassaPage.tsx, components/AnalyticSplitPanel.tsx, *)
(* lib/ws.ts; services/edge-api: POST pay of routes/pos.ts).               *)
(*                                                                         *)
(* The screen has a table, a bill, a payment request and a check, each set *)
(* by its own handlers.  A bill is set by whichever answer comes last, and *)
(* an answer may be about a table that is not selected any more.  What the *)
(* cashier reads and what is sent come from the bill on the screen; where  *)
(* it is sent to is the table selected.                                    *)
(*                                                                         *)
(* Waiters and other tills change the accounts at any time.  An answer     *)
(* holds what the server has when it arrives: what the server has changed  *)
(* since it was written shows as on any bill that was left open.  Amounts  *)
(* are in Till, prints and the steps inside a payment in TablePayment.     *)
(***************************************************************************)
EXTENDS Naturals, FiniteSets

CONSTANTS
  Tables,
  Requests,   \* bound: ids of payment requests alive at one time
  Checks,     \* bound: ids of the checks of an analytic split
  MaxLoads,   \* bound: bills of one table awaited at one time
  NoTable, NoRequest, NoCheck, NoAnswer

ASSUME TillScreenAssumption ==
  /\ NoTable \notin Tables /\ NoRequest \notin Requests
  /\ NoCheck \notin Checks /\ MaxLoads \in Nat

VARIABLES
  account,   \* account[t]: is t open, shares or checks left to pay
  pending,   \* pending[r]: the table of a pending payment request
  \* The screen
  sel,       \* selectedTable
  bill,      \* bill
  space,     \* workspace
  req,       \* paymentRequestId
  chk,       \* analyticCheckId
  \* Between the screen and the server
  loads,     \* loads[t]: answers with the bill of t that are awaited
  answer,    \* the answer to the last button pressed, on its way
  \* History: only properties read these.
  stray,     \* the bill came with an answer about another table than selected
  carried    \* a lock selected another table, the request stayed

server == <<account, pending>>
screen == <<sel, bill, space, req, chk, stray, carried>>
vars == <<server, screen, loads, answer>>

Free == [taken |-> FALSE, shares |-> 0, checks |-> {}, open |-> {}]
Seated == [Free EXCEPT !.taken = TRUE]

NoBill == [table |-> NoTable, account |-> Free]

-----------------------------------------------------------------------------
(* The server *)

Pending == {r \in Requests : pending[r] # NoTable}

\* A table that is freed has no request left.
RejectOf(t, q) == [r \in Requests |-> IF q[r] = t THEN NoTable ELSE q[r]]

\* What a pay request settles of an account: nothing if it is refused.
Whole == "whole"
Share == "share"
Nothing == "nothing"

\* The route chooses the mode anew: a check goes first, then the split there is.
Mode(p, a) ==
  IF p.mode = "ANALYTIC" \/ (a.checks # {} /\ p.check # NoCheck) THEN "ANALYTIC"
  ELSE IF p.mode = "ROMAN" \/ a.shares > 0 THEN "ROMAN" ELSE "FULL"

\* Mutant: a check is taken to be one whatever the account is split into.
SettlesAnyCheck(p, a) ==
  CASE ~a.taken -> Nothing
    [] p.check # NoCheck -> Whole
    [] a.checks # {} -> Nothing
    [] a.shares > 0 -> Share
    [] OTHER -> Whole

\* POST pay with the refusals of the route and of executeTablePayment.
Settles(p, a) ==
  CASE ~a.taken -> Nothing
    [] Mode(p, a) = "ANALYTIC" /\ p.check = NoCheck -> Nothing
    [] a.checks # {} ->
         IF Mode(p, a) = "ANALYTIC" /\ p.check \in a.open THEN p.check ELSE Nothing
    [] a.shares > 0 /\ Mode(p, a) = "ROMAN" -> Share
    [] OTHER -> Whole

\* The account once a part of it is paid; free if nothing is left.
After(a, part) ==
  CASE part = Share /\ a.shares > 1 -> [a EXCEPT !.shares = @ - 1]
    [] part \in Checks /\ a.open # {part} -> [a EXCEPT !.open = @ \ {part}]
    [] OTHER -> Free

\* account and pending once a part of table t is paid, with request r.
Settle(t, part, r) ==
  LET a == After(account[t], part)
      done == [q \in Requests |-> IF q = r THEN NoTable ELSE pending[q]]
  IN /\ account' = [account EXCEPT ![t] = a]
     /\ pending' = IF a = Free THEN RejectOf(t, done) ELSE done

Splits(a) ==
  {[a EXCEPT !.shares = 2], [a EXCEPT !.checks = Checks, !.open = Checks]}

\* A check id is new in each split.
ChecksUnused ==
  /\ \A t \in Tables : account[t].checks = {}
  /\ chk = NoCheck /\ bill.account.checks = {}

MaySplit(a, b) == a = Seated /\ b \in Splits(a) /\ (b.checks # {} => ChecksUnused)

MayCancel(a) == a.shares = 2 \/ (a.checks # {} /\ a.open = a.checks)

-----------------------------------------------------------------------------
(* Waiters and other tills *)

Seat(t) ==
  /\ account[t] = Free
  /\ account' = [account EXCEPT ![t] = Seated]
  /\ UNCHANGED <<pending, screen, loads, answer>>

\* startRomanSplit, PUT of an analytic split
OtherSplits(t) ==
  /\ \E b \in Splits(account[t]) :
       MaySplit(account[t], b) /\ account' = [account EXCEPT ![t] = b]
  /\ UNCHANGED <<pending, screen, loads, answer>>

OtherCancels(t) ==
  /\ MayCancel(account[t])
  /\ account' = [account EXCEPT ![t] = Seated]
  /\ UNCHANGED <<pending, screen, loads, answer>>

\* Another till takes what there is to take.
OtherPays(t) ==
  LET a == account[t] IN
  /\ a.taken
  /\ \E part \in IF a.checks # {} THEN a.open
                 ELSE IF a.shares > 0 THEN {Share} ELSE {Whole} :
        Settle(t, part, NoRequest)
  /\ UNCHANGED <<screen, loads, answer>>

\* REQUEST_PAYMENT: an id is new, a table has one pending request.
Ask(t, r) ==
  /\ account[t].taken /\ \A q \in Pending : pending[q] # t
  /\ r \notin Pending \cup {req}
  /\ pending' = [pending EXCEPT ![r] = t]
  /\ UNCHANGED <<account, screen, loads, answer>>

LoadBill(t) == loads[t] < MaxLoads /\ loads' = [loads EXCEPT ![t] = @ + 1]

\* The account of t to the free table u.  TABLE_ACCOUNT_MOVED may load the bill
\* of one of them: the handler looks at the table that was selected when the
\* effect last ran, which is any.
Move(t, u) ==
  /\ account[u] = Free /\ account[t] = Seated
  /\ \A r \in Requests : pending[r] # t
  /\ account' = [account EXCEPT ![t] = Free, ![u] = account[t]]
  /\ LoadBill(t) \/ LoadBill(u) \/ UNCHANGED loads
  /\ UNCHANGED <<pending, screen, answer>>

-----------------------------------------------------------------------------
(* What arrives *)

Show(t, a) ==
  /\ bill' = [table |-> t, account |-> a]
  /\ stray' = (t # sel')

\* loadBill: the answer is shown, whatever is selected by now.
BillArrives(t) ==
  /\ loads[t] > 0
  /\ sel' = sel
  /\ Show(t, account[t])
  /\ loads' = [loads EXCEPT ![t] = @ - 1]
  /\ UNCHANGED <<server, space, req, chk, carried, answer>>

\* loadBill fails: no bill, whatever is selected.
BillFails(t) ==
  /\ loads[t] > 0
  /\ bill' = NoBill /\ stray' = FALSE
  /\ loads' = [loads EXCEPT ![t] = @ - 1]
  /\ UNCHANGED <<server, sel, space, req, chk, carried, answer>>

-----------------------------------------------------------------------------
(* The cashier selects *)

\* The map is on the screen: with no bill the payment screen is not shown.
MapShown == space = "main" \/ bill = NoBill

\* Mutant: the bill of the table tapped is not loaded.
TapOnly(t) ==
  /\ MapShown
  /\ sel' = t /\ req' = NoRequest
  /\ stray' = FALSE /\ carried' = FALSE
  /\ UNCHANGED <<server, bill, space, chk, loads, answer>>

\* Mutant: the request stays with the screen.
TapKeeps(t) ==
  /\ MapShown
  /\ sel' = t /\ stray' = FALSE
  /\ LoadBill(t)
  /\ UNCHANGED <<server, bill, space, req, chk, carried, answer>>

\* selectTable
Tap(t) ==
  /\ MapShown
  /\ sel' = t /\ req' = NoRequest
  /\ stray' = FALSE /\ carried' = FALSE
  /\ LoadBill(t)
  /\ UNCHANGED <<server, bill, space, chk, answer>>

\* The lock of a table opened, unlocked with the PIN, or whose comanda was
\* entered from the map is answered at any time later: the table is selected,
\* the request stays.
LockAnswers(t) ==
  /\ sel' = t /\ stray' = FALSE
  /\ carried' = (req # NoRequest /\ (carried \/ t # sel))
  /\ LoadBill(t)
  /\ UNCHANGED <<server, bill, space, req, chk, answer>>

\* The button of a request on the banner: openTable, openPayment.  An entry the
\* banner still has of a request that is over closes nothing: it is left out.
Incassa(r, t) ==
  /\ pending[r] = t
  /\ sel' = t /\ req' = r /\ chk' = NoCheck /\ space' = "payment"
  /\ stray' = FALSE /\ carried' = FALSE
  /\ LoadBill(t)
  /\ UNCHANGED <<server, bill, answer>>

ClosePanel ==
  /\ space = "main" /\ sel # NoTable
  /\ sel' = NoTable /\ stray' = FALSE
  /\ UNCHANGED <<server, bill, space, req, chk, carried, loads, answer>>

\* The counter orders are shown: handleChannelFilter.
ChangeChannel ==
  /\ MapShown /\ sel # NoTable
  /\ sel' = NoTable /\ bill' = NoBill /\ stray' = FALSE /\ space' = "main"
  /\ UNCHANGED <<server, req, chk, carried, loads, answer>>

-----------------------------------------------------------------------------
(* The cashier pays *)

\* openPayment, for the bill or for one of its checks
OpenPayment ==
  /\ space = "main" /\ sel # NoTable /\ bill.account.taken
  /\ space' = "payment"
  /\ \/ /\ bill.account.checks = {} /\ answer = NoAnswer
        /\ chk' = NoCheck
        /\ UNCHANGED <<req, carried>>
     \/ /\ chk' \in bill.account.open
        /\ req' = NoRequest /\ carried' = FALSE
  /\ UNCHANGED <<server, sel, bill, stray, loads, answer>>

CancelPayment ==
  /\ space = "payment" /\ bill # NoBill
  /\ space' = "main"
  /\ UNCHANGED <<server, sel, bill, req, chk, stray, carried, loads, answer>>

\* isAnalyticPay, isRomanPay
Asked ==
  IF chk \in bill.account.open THEN "ANALYTIC"
  ELSE IF bill.account.shares > 0 THEN "ROMAN" ELSE "FULL"

\* What the cashier reads to be the amount: payAmount.
Read ==
  IF chk \in bill.account.checks THEN chk
  ELSE IF bill.account.shares > 0 THEN Share ELSE Whole

Answer(op, t, reload) == [op |-> op, table |-> t, reload |-> reload]

\* handlePay and the payment on the server: the mode is that of the bill shown,
\* the table is the one selected.  What the screen does while the request is on
\* its way does not change it, and is taken to happen after; a request that is
\* refused or lost changes nothing.
Pay ==
  /\ space = "payment" /\ bill # NoBill /\ sel # NoTable /\ answer = NoAnswer
  /\ LET part == Settles([mode |-> Asked, check |-> chk], account[sel]) IN
       part # Nothing /\ Settle(sel, part, req)
  /\ answer' = Answer(IF account'[sel] = Free THEN "freed" ELSE "paid", sel, sel)
  /\ UNCHANGED <<screen, loads>>

\* Back to the map if the table was freed.
PaidAnswer ==
  /\ answer # NoAnswer /\ answer.op \in {"freed", "paid"}
  /\ space' = "main" /\ req' = NoRequest /\ chk' = NoCheck /\ carried' = FALSE
  /\ IF answer.op = "freed" THEN sel' = NoTable /\ bill' = NoBill /\ stray' = FALSE
     ELSE sel' = sel /\ Show(answer.table, account[answer.table])
  /\ answer' = NoAnswer
  /\ UNCHANGED <<server, loads>>

PanelShown == space = "main" /\ sel # NoTable /\ bill.account.taken /\ answer = NoAnswer

\* handleStartRomanSplit
StartRoman ==
  /\ PanelShown /\ bill.account = Seated
  /\ \E b \in Splits(account[sel]) :
       /\ b.shares > 0 /\ MaySplit(account[sel], b)
       /\ account' = [account EXCEPT ![sel] = b]
  /\ answer' = Answer("bill", sel, sel)
  /\ UNCHANGED <<pending, screen, loads>>

\* AnalyticSplitPanel: the checks are those of the table of the bill, the bill
\* that is loaded after them is that of the table selected.
StartChecks ==
  /\ PanelShown /\ bill.account = Seated
  /\ \E b \in Splits(account[bill.table]) :
       /\ b.checks # {} /\ MaySplit(account[bill.table], b)
       /\ account' = [account EXCEPT ![bill.table] = b]
  /\ answer' = Answer("checks", bill.table, sel)
  /\ UNCHANGED <<pending, screen, loads>>

\* handleCancelSplit
CancelSplit ==
  /\ PanelShown /\ MayCancel(bill.account) /\ MayCancel(account[sel])
  /\ account' = [account EXCEPT ![sel] = Seated]
  /\ answer' = Answer("cancel", sel, sel)
  /\ UNCHANGED <<pending, screen, loads>>

\* A discount, or the pre-bill: a bill comes back.
Refresh ==
  /\ PanelShown
  /\ answer' = Answer("bill", sel, sel)
  /\ UNCHANGED <<server, screen, loads>>

\* The answer holds a bill, or is followed by a load of the table that was
\* selected when the button was pressed.
OtherAnswer ==
  /\ answer # NoAnswer /\ answer.op \in {"bill", "checks", "cancel"}
  /\ IF answer.op = "checks"
     THEN LoadBill(answer.reload) /\ UNCHANGED <<sel, bill, stray>>
     ELSE UNCHANGED loads /\ sel' = sel /\ Show(answer.table, account[answer.table])
  /\ chk' = IF answer.op = "cancel" THEN NoCheck ELSE chk
  /\ answer' = NoAnswer
  /\ UNCHANGED <<server, space, req, carried>>

AnswerLost ==
  /\ answer # NoAnswer /\ answer' = NoAnswer
  /\ UNCHANGED <<server, screen, loads>>

-----------------------------------------------------------------------------

Init ==
  /\ account = [t \in Tables |-> Free]
  /\ pending = [r \in Requests |-> NoTable]
  /\ sel = NoTable /\ bill = NoBill /\ space = "main"
  /\ req = NoRequest /\ chk = NoCheck
  /\ loads = [t \in Tables |-> 0] /\ answer = NoAnswer
  /\ stray = FALSE /\ carried = FALSE

Others ==
  \E t \in Tables :
    \/ Seat(t) \/ OtherSplits(t) \/ OtherCancels(t) \/ OtherPays(t)
    \/ \E r \in Requests : Ask(t, r)
    \/ \E u \in Tables : Move(t, u)

Arrivals ==
  \E t \in Tables : BillArrives(t) \/ BillFails(t)

Selection ==
  \/ \E t \in Tables :
       Tap(t) \/ LockAnswers(t) \/ \E r \in Requests : Incassa(r, t)
  \/ ClosePanel \/ ChangeChannel

Payment ==
  \/ OpenPayment \/ CancelPayment \/ Pay \/ PaidAnswer
  \/ StartRoman \/ StartChecks \/ CancelSplit \/ Refresh \/ OtherAnswer \/ AnswerLost

Next == Others \/ Arrivals \/ Selection \/ Payment

Spec == Init /\ [][Next]_vars

-----------------------------------------------------------------------------
(* Properties *)

\* A payment that the server takes settles the part the cashier read, whenever
\* the bill read was that of the table and of the moment: the mode the screen
\* asks for (handlePay) and the one the route chooses anew agree, whatever
\* check or split either still has from before.
TakenAsRead ==
  [][Pay /\ bill = [table |-> sel, account |-> account[sel]] =>
       account'[sel] = After(account[sel], Read)]_vars

\* The bill of another table stays under the table selected only while the
\* right one is on its way, or after an answer that came for a table no longer
\* selected (loadBill does not look at what is selected).
ForeignBillOnlyLate ==
  bill # NoBill /\ sel # NoTable /\ bill.table # sel =>
    stray \/ loads[sel] > 0

\* A payment closes the request of another table only if that request was left
\* on the screen by a table that a lock selected in its place (selectTable
\* forgets paymentRequestId, the handlers of locks do not, and
\* completePaymentRequest does not compare the tables).
RequestOfItsTable ==
  [][\A r \in Requests :
       Pay /\ pending[r] \notin {NoTable, sel} /\ pending'[r] = NoTable => carried]_vars
=============================================================================
