-------------------------- MODULE TillScreenProofs --------------------------
(***************************************************************************)
(* Proofs about TillScreen, for every value of its constants: which table  *)
(* the bill and the request on the screen are of, and what a payment takes *)
(* of an account.                                                          *)
(***************************************************************************)
EXTENDS TillScreen, TLAPS

-----------------------------------------------------------------------------
(* The inductive invariant *)

Account == [taken : BOOLEAN, shares : Nat, checks : SUBSET Checks, open : SUBSET Checks]
Bill == [table : Tables, account : Account] \cup {NoBill}
Answers == [op : {"freed", "paid", "bill", "checks", "cancel"},
            table : Tables, reload : Tables] \cup {NoAnswer}

Types ==
  /\ account \in [Tables -> Account]
  /\ pending \in [Requests -> Tables \cup {NoTable}]
  /\ sel \in Tables \cup {NoTable} /\ bill \in Bill
  /\ req \in Requests \cup {NoRequest} /\ chk \in Checks \cup {NoCheck}
  /\ loads \in [Tables -> Nat]
  /\ answer \in Answers

\* An account is split in one way at most, and a free one in none; a check
\* left to pay is one of its checks.
Sound(a) ==
  /\ a.open \subseteq a.checks
  /\ a.checks = {} \/ a.shares = 0
  /\ ~a.taken => a.checks = {} /\ a.shares = 0

\* The request on the screen is of the table selected, or the table came with
\* a lock.
RequestInv ==
  req \in Pending /\ sel # NoTable /\ pending[req] # sel => carried

IInv ==
  /\ Types
  /\ \A t \in Tables : Sound(account[t])
  /\ ForeignBillOnlyLate
  /\ RequestInv

-----------------------------------------------------------------------------
(* Accounts *)

LEMMA FreeIs ==
  /\ Free \in Account /\ Sound(Free) /\ ~Free.taken
  /\ Seated \in Account /\ Sound(Seated) /\ Seated.taken
  /\ NoBill \in Bill /\ NoBill.table = NoTable /\ ~NoBill.account.taken
  BY DEF Free, Seated, Account, Sound, NoBill, Bill

LEMMA AfterIs ==
  ASSUME NEW a \in Account, Sound(a), NEW part
  PROVE  After(a, part) \in Account /\ Sound(After(a, part))
<1> DEFINE less == [a EXCEPT !.shares = @ - 1]
           left == [a EXCEPT !.open = @ \ {part}]
<1>1. ASSUME a.shares > 1 PROVE less \in Account /\ Sound(less)
  <2>1. a.shares - 1 \in Nat /\ a.shares # 0
    BY <1>1 DEF Account
  <2> QED  BY <2>1 DEF Account, Sound
<1>2. left \in Account /\ Sound(left)
  BY DEF Account, Sound
<1> HIDE DEF less, left
<1>3. After(a, part) \in {Free, left} \/ (a.shares > 1 /\ After(a, part) = less)
  BY DEF After, less, left
<1> QED  BY <1>1, <1>2, <1>3, FreeIs

LEMMA SplitsAre ==
  ASSUME NEW a \in Account, NEW b \in Splits(a)
  PROVE  b \in Account /\ (a = Seated => Sound(b) /\ b.taken)
<1> DEFINE roman == [a EXCEPT !.shares = 2]
           analytic == [a EXCEPT !.checks = Checks, !.open = Checks]
<1>1. roman \in Account /\ roman.open = a.open /\ roman.checks = a.checks /\ roman.taken = a.taken
  BY DEF Account
<1>2. /\ analytic \in Account /\ analytic.open = Checks /\ analytic.checks = Checks
      /\ analytic.taken = a.taken /\ analytic.shares = a.shares
  BY DEF Account
<1>3. Seated.checks = {} /\ Seated.open = {} /\ Seated.shares = 0 /\ Seated.taken
  BY DEF Seated, Free
<1> HIDE DEF roman, analytic
<1>4. b \in {roman, analytic}
  BY DEF Splits, roman, analytic
<1> QED  BY <1>1, <1>2, <1>3, <1>4 DEF Sound

-----------------------------------------------------------------------------
(* The server *)

\* A part of an account is paid.
LEMMA SettleIs ==
  ASSUME Types, \A u \in Tables : Sound(account[u]),
         NEW t \in Tables, NEW part, NEW r \in Requests \cup {NoRequest}, Settle(t, part, r)
  PROVE  /\ account' = [account EXCEPT ![t] = After(account[t], part)]
         /\ account' \in [Tables -> Account] /\ \A u \in Tables : Sound(account'[u])
         /\ pending' \in [Requests -> Tables \cup {NoTable}]
         /\ \A q \in Requests : pending'[q] \in {pending[q], NoTable}
         /\ \A q \in Requests :
              q # r /\ pending[q] # t => pending'[q] = pending[q]
<1>1. After(account[t], part) \in Account /\ Sound(After(account[t], part))
  BY AfterIs DEF Types
<1>2. account' = [account EXCEPT ![t] = After(account[t], part)]
  BY DEF Settle
<1>3. \A q \in Requests :
        /\ pending'[q] \in {pending[q], NoTable}
        /\ q # r /\ pending[q] # t => pending'[q] = pending[q]
  BY DEF Settle, RejectOf
<1>4. pending' = [q \in Requests |-> pending'[q]]
  BY DEF Settle, RejectOf
<1> HIDE DEF Settle
<1> QED  BY <1>1, <1>2, <1>3, <1>4 DEF Types

\* The screen as it was, with the accounts and requests changed.
LEMMA ServerStep ==
  ASSUME IInv, UNCHANGED <<sel, bill, req, stray, carried>>,
         \A q \in Requests : pending'[q] \in {pending[q], NoTable} \/ q # req,
         \A t \in Tables : loads'[t] \in Nat /\ loads[t] <= loads'[t]
  PROVE  ForeignBillOnlyLate' /\ RequestInv'
<1>1. ForeignBillOnlyLate'
  BY DEF IInv, Types, ForeignBillOnlyLate
<1>2. RequestInv'
  BY DEF IInv, Types, RequestInv, Pending
<1> QED  BY <1>1, <1>2

LEMMA LoadIs ==
  ASSUME Types, NEW t \in Tables, LoadBill(t)
  PROVE  /\ loads' \in [Tables -> Nat] /\ loads'[t] > 0
         /\ \A u \in Tables : loads[u] <= loads'[u]
  BY DEF Types, LoadBill

LEMMA OthersStep ==
  ASSUME IInv, Others
  PROVE  IInv'
<1> USE DEF server, screen
<1>0. Types /\ \A t \in Tables : Sound(account[t]) /\ account[t] \in Account
  BY DEF IInv, Types
<1>1. ASSUME NEW t \in Tables, Seat(t) \/ OtherSplits(t) \/ OtherCancels(t)
      PROVE  IInv'
  <2>1. PICK b \in Account : Sound(b) /\ account' = [account EXCEPT ![t] = b]
    <3>1. CASE OtherSplits(t)
      BY <1>0, <3>1, SplitsAre DEF OtherSplits, MaySplit
    <3>2. CASE Seat(t) \/ OtherCancels(t)
      BY <3>2, FreeIs DEF Seat, OtherCancels
    <3> QED  BY <1>1, <3>1, <3>2
  <2>2. UNCHANGED <<pending, screen, loads, answer>>
    BY <1>1 DEF Seat, OtherSplits, OtherCancels
  <2>3. ForeignBillOnlyLate' /\ RequestInv'
    BY <1>0, <2>2, ServerStep DEF Types
  <2> QED  BY <1>0, <2>1, <2>2, <2>3 DEF IInv, Types
<1>2. ASSUME NEW t \in Tables, OtherPays(t)
      PROVE  IInv'
  <2>1. PICK part : Settle(t, part, NoRequest)
    BY <1>2 DEF OtherPays
  <2>2. UNCHANGED <<screen, loads, answer>>
    BY <1>2 DEF OtherPays
  <2>3. /\ account' \in [Tables -> Account] /\ \A u \in Tables : Sound(account'[u])
        /\ pending' \in [Requests -> Tables \cup {NoTable}]
        /\ \A q \in Requests : pending'[q] \in {pending[q], NoTable}
    BY <1>0, <2>1, SettleIs
  <2>4. ForeignBillOnlyLate' /\ RequestInv'
    BY <1>0, <2>2, <2>3, ServerStep DEF Types
  <2> QED  BY <1>0, <2>2, <2>3, <2>4 DEF IInv, Types
<1>3. ASSUME NEW t \in Tables, NEW r \in Requests, Ask(t, r)
      PROVE  IInv'
  <2>1. /\ UNCHANGED <<account, screen, loads, answer>>
        /\ r # req /\ pending' = [pending EXCEPT ![r] = t]
    BY <1>3 DEF Ask
  <2>2. ForeignBillOnlyLate' /\ RequestInv'
    BY <1>0, <2>1, ServerStep DEF Types
  <2> QED  BY <1>0, <2>1, <2>2 DEF IInv, Types
<1>4. ASSUME NEW t \in Tables, NEW u \in Tables, Move(t, u)
      PROVE  IInv'
  <2>1. /\ UNCHANGED <<pending, screen, answer>>
        /\ account' = [account EXCEPT ![t] = Free, ![u] = account[t]]
    BY <1>4 DEF Move
  <2>2. /\ loads' \in [Tables -> Nat]
        /\ \A v \in Tables : loads[v] <= loads'[v]
    <3>1. CASE LoadBill(t) \/ LoadBill(u)
      BY <1>0, <3>1, LoadIs
    <3>2. CASE UNCHANGED loads
      BY <1>0, <3>2 DEF Types
    <3> QED  BY <1>4, <3>1, <3>2 DEF Move
  <2>3. ForeignBillOnlyLate' /\ RequestInv'
    BY <2>1, <2>2, ServerStep
  <2> QED  BY <1>0, <2>1, <2>2, <2>3, FreeIs DEF IInv, Types
<1> QED  BY <1>1, <1>2, <1>3, <1>4 DEF Others

-----------------------------------------------------------------------------
(* The screen *)

LEMMA ShowIs ==
  ASSUME NEW t \in Tables, NEW a \in Account, Show(t, a)
  PROVE  bill' \in Bill /\ bill'.table = t /\ stray' = (t # sel')
  BY DEF Show, Bill

LEMMA ArrivalsStep ==
  ASSUME IInv, NEW t \in Tables, BillArrives(t) \/ BillFails(t)
  PROVE  IInv'
<1> USE DEF server
<1>1. Types /\ account[t] \in Account
  BY DEF IInv, Types
<1>2. /\ UNCHANGED <<account, pending, sel, req, chk, carried, answer>>
      /\ loads' = [loads EXCEPT ![t] = @ - 1] /\ loads[t] > 0
  BY DEF BillArrives, BillFails
<1>3. loads' \in [Tables -> Nat]
  BY <1>1, <1>2 DEF Types
<1>4. bill' \in Bill /\ ForeignBillOnlyLate'
  <2>1. CASE BillArrives(t)
    BY <1>1, <2>1, ShowIs DEF BillArrives, ForeignBillOnlyLate
  <2>2. CASE BillFails(t)
    BY <2>2, FreeIs DEF BillFails, ForeignBillOnlyLate
  <2> QED  BY <2>1, <2>2
<1>5. RequestInv'
  BY <1>2 DEF IInv, RequestInv, Pending
<1> QED  BY <1>1, <1>2, <1>3, <1>4, <1>5 DEF IInv, Types

LEMMA SelectionStep ==
  ASSUME IInv, Selection
  PROVE  IInv'
<1> USE DEF server
<1>0. Types
  BY DEF IInv
<1>1. ASSUME NEW t \in Tables, Tap(t) \/ LockAnswers(t) \/ \E r \in Requests : Incassa(r, t)
      PROVE  IInv'
  <2>1. /\ sel' = t /\ LoadBill(t) /\ UNCHANGED <<account, pending, bill, answer>>
        /\ req' \in Requests \cup {NoRequest} /\ chk' \in {chk, NoCheck}
    BY <1>0, <1>1 DEF Tap, LockAnswers, Incassa, Types
  <2>2. loads' \in [Tables -> Nat] /\ loads'[t] > 0
    BY <1>0, <2>1, LoadIs
  <2>3. ForeignBillOnlyLate'
    BY <2>1, <2>2 DEF ForeignBillOnlyLate
  <2>4. RequestInv'
    <3>1. CASE Tap(t)
      BY <3>1, TillScreenAssumption DEF Tap, RequestInv, Pending
    <3>2. CASE LockAnswers(t)
      BY <3>2, <2>1, TillScreenAssumption DEF LockAnswers, IInv, Types, RequestInv, Pending
    <3>3. CASE \E r \in Requests : Incassa(r, t)
      BY <3>3 DEF Incassa, RequestInv, Pending
    <3> QED  BY <1>1, <3>1, <3>2, <3>3
  <2> QED  BY <1>0, <2>1, <2>2, <2>3, <2>4 DEF IInv, Types
<1>2. ASSUME ClosePanel \/ ChangeChannel
      PROVE  IInv'
  <2>1. /\ sel' = NoTable /\ UNCHANGED <<account, pending, req, chk, loads, answer>>
        /\ bill' \in {bill, NoBill}
    BY <1>2 DEF ClosePanel, ChangeChannel
  <2> QED  BY <1>0, <2>1, FreeIs DEF IInv, Types, ForeignBillOnlyLate, RequestInv
<1> QED  BY <1>1, <1>2 DEF Selection

-----------------------------------------------------------------------------
(* A payment *)

LEMMA AnswerIs ==
  ASSUME NEW op \in {"freed", "paid", "bill", "checks", "cancel"},
         NEW t \in Tables, NEW u \in Tables
  PROVE  /\ Answer(op, t, u) \in Answers
         /\ NoAnswer \in Answers
  BY DEF Answer, Answers

\* An answer on its way is about a table.
LEMMA AnswerOf ==
  ASSUME Types, answer # NoAnswer
  PROVE  answer.table \in Tables /\ answer.reload \in Tables
  BY DEF Types, Answers

LEMMA PayStep ==
  ASSUME IInv, Pay
  PROVE  IInv'
<1> USE DEF screen
<1>0. Types /\ \A t \in Tables : Sound(account[t])
  BY DEF IInv
<1>1. sel \in Tables
  BY <1>0 DEF Pay, Types
<1>2. PICK part : Settle(sel, part, req)
  BY DEF Pay
<1>3. /\ account' \in [Tables -> Account] /\ \A u \in Tables : Sound(account'[u])
      /\ pending' \in [Requests -> Tables \cup {NoTable}]
      /\ \A q \in Requests : pending'[q] \in {pending[q], NoTable}
  BY <1>0, <1>1, <1>2, SettleIs DEF Types
<1>4. UNCHANGED <<screen, loads>> /\ answer' \in Answers
  BY <1>1, AnswerIs DEF Pay
<1>5. ForeignBillOnlyLate' /\ RequestInv'
  BY <1>0, <1>3, <1>4, ServerStep DEF Types
<1> QED  BY <1>0, <1>3, <1>4, <1>5 DEF IInv, Types

\* The screens that ask for something and wait for the answer.
LEMMA AskServerStep ==
  ASSUME IInv, StartRoman \/ StartChecks \/ CancelSplit \/ Refresh \/ AnswerLost
  PROVE  IInv'
<1> USE DEF server, screen
<1>0. Types /\ \A t \in Tables : Sound(account[t]) /\ account[t] \in Account
  BY DEF IInv, Types
<1>1. UNCHANGED <<pending, screen, loads>>
  BY DEF StartRoman, StartChecks, CancelSplit, Refresh, AnswerLost
<1>2. answer' \in Answers
  <2>1. CASE StartChecks
    <3>1. bill.table \in Tables /\ sel \in Tables
      BY <1>0, <2>1, FreeIs DEF StartChecks, PanelShown, Types, Bill
    <3> QED  BY <2>1, <3>1, AnswerIs DEF StartChecks
  <2>2. CASE StartRoman \/ CancelSplit \/ Refresh
    <3>1. sel \in Tables
      BY <1>0, <2>2 DEF StartRoman, CancelSplit, Refresh, PanelShown, Types
    <3> QED  BY <2>2, <3>1, AnswerIs DEF StartRoman, CancelSplit, Refresh
  <2>3. CASE AnswerLost
    BY <2>3 DEF AnswerLost, Answers
  <2> QED  BY <2>1, <2>2, <2>3
<1>3. account' \in [Tables -> Account] /\ \A t \in Tables : Sound(account'[t])
  <2>1. CASE StartRoman
    <3>1. PICK b \in Splits(account[sel]) :
            MaySplit(account[sel], b) /\ account' = [account EXCEPT ![sel] = b]
      BY <2>1 DEF StartRoman
    <3>2. sel \in Tables => b \in Account /\ Sound(b)
      BY <1>0, <3>1, SplitsAre DEF MaySplit
    <3> QED  BY <1>0, <3>1, <3>2 DEF Types
  <2>2. CASE StartChecks
    <3>1. PICK b \in Splits(account[bill.table]) :
            MaySplit(account[bill.table], b) /\ account' = [account EXCEPT ![bill.table] = b]
      BY <2>2 DEF StartChecks
    <3>2. bill.table \in Tables => b \in Account /\ Sound(b)
      BY <1>0, <3>1, SplitsAre DEF MaySplit
    <3> QED  BY <1>0, <3>1, <3>2 DEF Types
  <2>3. CASE CancelSplit
    BY <1>0, <2>3, FreeIs DEF CancelSplit, Types
  <2>4. CASE Refresh \/ AnswerLost
    BY <1>0, <2>4 DEF Refresh, AnswerLost, Types
  <2> QED  BY <2>1, <2>2, <2>3, <2>4
<1>4. ForeignBillOnlyLate' /\ RequestInv'
  BY <1>0, <1>1, ServerStep DEF Types
<1> QED  BY <1>0, <1>1, <1>2, <1>3, <1>4 DEF IInv, Types

LEMMA AnsweredStep ==
  ASSUME IInv, PaidAnswer \/ OtherAnswer
  PROVE  IInv'
<1> USE DEF server
<1>0. Types /\ \A t \in Tables : account[t] \in Account
  BY DEF IInv, Types
<1>1. answer.table \in Tables /\ answer.reload \in Tables
  BY <1>0, AnswerOf DEF PaidAnswer, OtherAnswer
<1>2. /\ UNCHANGED <<account, pending>> /\ answer' = NoAnswer
      /\ chk' \in {chk, NoCheck} /\ sel' \in {sel, NoTable}
      /\ \/ req' = req /\ carried' = carried
         \/ req' = NoRequest
  BY DEF PaidAnswer, OtherAnswer
<1>3. CASE PaidAnswer /\ answer.op = "freed"
  BY <1>0, <1>2, <1>3, FreeIs, TillScreenAssumption
     DEF PaidAnswer, IInv, Types, Answers, ForeignBillOnlyLate, RequestInv, Pending
<1>4. CASE OtherAnswer /\ answer.op = "checks"
  <2>1. /\ loads' \in [Tables -> Nat] /\ \A u \in Tables : loads[u] <= loads'[u]
        /\ UNCHANGED <<sel, bill, stray>>
    BY <1>0, <1>1, <1>4, LoadIs DEF OtherAnswer
  <2>2. ForeignBillOnlyLate'
    BY <1>0, <2>1 DEF IInv, Types, ForeignBillOnlyLate
  <2>3. RequestInv'
    BY <1>2, <2>1, TillScreenAssumption DEF IInv, RequestInv, Pending
  <2> QED  BY <1>0, <1>2, <2>1, <2>2, <2>3 DEF IInv, Types, Answers
<1>5. CASE ~(PaidAnswer /\ answer.op = "freed") /\ ~(OtherAnswer /\ answer.op = "checks")
  <2>1. sel' = sel /\ loads' = loads /\ Show(answer.table, account[answer.table])
    BY <1>5 DEF PaidAnswer, OtherAnswer
  <2>2. bill' \in Bill /\ ForeignBillOnlyLate'
    BY <1>0, <1>1, <2>1, ShowIs DEF ForeignBillOnlyLate
  <2>3. RequestInv'
    BY <1>2, <2>1, TillScreenAssumption DEF IInv, RequestInv, Pending
  <2> QED  BY <1>0, <1>2, <2>1, <2>2, <2>3 DEF IInv, Types, Answers
<1> QED  BY <1>3, <1>4, <1>5

LEMMA OpenStep ==
  ASSUME IInv, OpenPayment \/ CancelPayment
  PROVE  IInv'
<1> USE DEF server
<1>0. Types
  BY DEF IInv
<1>1. bill.account.open \subseteq Checks
  BY <1>0 DEF Types, Bill, Account, NoBill, Free
<1>2. /\ UNCHANGED <<account, pending, sel, bill, stray, loads, answer>>
      /\ chk' \in Checks \cup {NoCheck}
      /\ \/ req' = req /\ carried' = carried
         \/ req' = NoRequest
  BY <1>0, <1>1 DEF OpenPayment, CancelPayment, Types
<1> QED  BY <1>0, <1>2, TillScreenAssumption
         DEF IInv, Types, ForeignBillOnlyLate, RequestInv, Pending

-----------------------------------------------------------------------------
(* The invariant holds *)

LEMMA InitInvariant == Init => IInv
  BY FreeIs, TillScreenAssumption
     DEF Init, IInv, Types, Answers, ForeignBillOnlyLate, RequestInv

LEMMA StepInvariant == IInv /\ [Next]_vars => IInv'
<1>1. ASSUME IInv, Next PROVE IInv'
  BY <1>1, OthersStep, ArrivalsStep, SelectionStep, PayStep, AskServerStep, AnsweredStep, OpenStep
     DEF Next, Arrivals, Payment
<1>2. ASSUME IInv, UNCHANGED vars PROVE IInv'
  BY <1>2 DEF vars, server, screen, IInv, Types, ForeignBillOnlyLate, RequestInv, Pending
<1> QED  BY <1>1, <1>2

THEOREM Invariance == Spec => []IInv
  BY InitInvariant, StepInvariant, PTL DEF Spec

-----------------------------------------------------------------------------
(* What it gives *)

\* The bill of a table not selected stays on the screen only while the right
\* one is awaited, or after an answer that came late (loadBill).
THEOREM ForeignBills == Spec => []ForeignBillOnlyLate
<1>1. IInv => ForeignBillOnlyLate
  BY DEF IInv
<1> QED  BY Invariance, <1>1, PTL

\* With the right bill on the screen the server takes the part the cashier
\* read, whatever check or split is left from before (handlePay, and the mode
\* POST pay chooses anew).
THEOREM PaymentsAreAsRead == Spec => TakenAsRead
<1>1. ASSUME IInv, Pay, bill = [table |-> sel, account |-> account[sel]]
      PROVE  account'[sel] = After(account[sel], Read)
  <2> DEFINE a == account[sel]
             part == Settles([mode |-> Asked, check |-> chk], a)
  <2>1. sel \in Tables /\ a \in Account /\ Sound(a)
    BY <1>1 DEF IInv, Types, Pay
  <2>2. part # Nothing /\ Settle(sel, part, req)
    BY <1>1 DEF Pay
  <2>3. bill.account = a
    BY <1>1
  <2>4. part = Read
    <3>1. CASE a.checks # {}
      BY <2>1, <2>2, <2>3, <3>1, TillScreenAssumption
         DEF Settles, Mode, Asked, Read, Sound, Account
    <3>2. CASE a.checks = {}
      <4>1. chk \notin bill.account.open /\ chk \notin bill.account.checks
        BY <2>1, <2>3, <3>2 DEF Sound
      <4> QED  BY <2>1, <2>2, <2>3, <3>2, <4>1 DEF Settles, Mode, Asked, Read, Account
    <3> QED  BY <3>1, <3>2
  <2>5. account' = [account EXCEPT ![sel] = After(a, part)]
    BY <2>2 DEF Settle
  <2> QED  BY <1>1, <2>1, <2>4, <2>5 DEF IInv, Types
<1>2. IInv /\ [Next]_vars =>
        [Pay /\ bill = [table |-> sel, account |-> account[sel]] =>
           account'[sel] = After(account[sel], Read)]_vars
  BY <1>1
<1> QED  BY Invariance, <1>2, PTL DEF Spec, TakenAsRead

\* A payment closes the request of another table only if a lock selected a
\* table while that request was on the screen (completePaymentRequest).
THEOREM RequestsAreOfTheirTable == Spec => RequestOfItsTable
<1>1. ASSUME IInv, Pay, NEW r \in Requests, pending[r] \notin {NoTable, sel},
             pending'[r] = NoTable
      PROVE  carried
  <2>1. sel \in Tables /\ Types
    BY <1>1 DEF IInv, Types, Pay
  <2>2. PICK part : Settle(sel, part, req)
    BY <1>1 DEF Pay
  <2>3. r = req
    BY <1>1, <2>1, <2>2, SettleIs DEF IInv, Types
  <2> QED  BY <1>1, <2>1, <2>3, TillScreenAssumption DEF IInv, Types, RequestInv, Pending
<1>2. IInv /\ [Next]_vars =>
        [\A r \in Requests :
           Pay /\ pending[r] \notin {NoTable, sel} /\ pending'[r] = NoTable => carried]_vars
  BY <1>1
<1> QED  BY Invariance, <1>2, PTL DEF Spec, RequestOfItsTable
=============================================================================
