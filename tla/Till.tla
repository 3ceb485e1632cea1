-------------------------------- MODULE Till --------------------------------
(***************************************************************************)
(* The amounts of one bill, from its lines to the drawer and the books     *)
(* (services/edge-api: lib/bill.ts, lib/payment.ts, lib/runtime.ts,        *)
(* routes/pos.ts, computeCashSessionTheoretical of lib/cash-session.ts,    *)
(* getDayTheoretical of lib/day-report-ledger.ts; packages/fiscal; the     *)
(* payment panel of apps/edge-web/src/pages/CassaPage.tsx).                *)
(*                                                                         *)
(* The cashier reads amounts on a screen; the server takes its own, from   *)
(* the bill as it is when it pays.  A payment leaves a receipt (rounded    *)
(* line by line), a transaction of the day (the amount taken, and its sale *)
(* lines), parts by method, and cash in the drawer; each is rounded on its *)
(* own.  Prints, operators and the order of requests are in TablePayment.  *)
(***************************************************************************)
EXTENDS Cents, Sequences, FiniteSets, Functions

CONSTANTS
  Dishes,      \* what can be ordered: [price, quantity]
  Covers,      \* cover charges: [price, guests]
  Discounts,   \* per cent; 0 clears
  ShareCounts, \* shares of a roman split (2 to 20 in the schema)
  Portions,    \* portions voided at once
  MaxLines     \* bound: lines of the bill

ASSUME TillAssumption ==
  /\ Dishes \subseteq [price : Nat \ {0}, quantity : Nat \ {0}]
  /\ Covers \subseteq [price : Nat, guests : Nat] /\ Discounts \subseteq 0 .. 100
  /\ ShareCounts \subseteq 2 .. 20 /\ Portions \subseteq Nat \ {0} /\ MaxLines \in Nat

VARIABLES
  lines,   \* the lines: [price, quantity, voided, off, check]
  cover,   \* cover charge
  split,   \* the split of the bill
  screen,  \* what the cashier reads: [total, checks]
  paid,    \* amounts taken, as the day's transactions have them
  shown,   \* totals of the receipts
  sales,   \* sale lines of the day's transactions
  parts,   \* parts[m]: documents by method, as the cash session has them
  drawer,  \* cash in the drawer over the opening fund
  freed,   \* the bill is settled; its lines and split stay as they were
  \* History: only properties read these.
  short,   \* cash booked over what the cashier read
  moved    \* the bill or its checks changed after a check was paid

vars == <<lines, cover, split, screen, paid, shown, sales, parts, drawer, freed,
          short, moved>>

Methods == {"CASH", "POS", "MEAL_VOUCHER"}
Checks == {1, 2}
NoSplit == [kind |-> "none", total |-> 0, shares |-> <<>>, paid |-> {}]

-----------------------------------------------------------------------------
(* The bill: consolidateTableBill *)

Quantity(i) == lines[i].quantity - lines[i].voided
Total(i) == CalculateLineTotal(Quantity(i), lines[i].price, lines[i].off)

\* A line all voided is not on the bill.
OnBill == {i \in DOMAIN lines : Quantity(i) > 0}

Sum(S) == SumFunction([i \in S |-> Total(i)])

CoverTotal == cover.price * cover.guests

HasBill == OnBill # {} \/ CoverTotal > 0

\* Lines and cover are rounded up one after the other.
BillTotal == RoundToFiveCents(RoundToFiveCents(Sum(OnBill)) + CoverTotal)

\* Mutant: what is in no check is in every check.
LinesOfLoose(c) == {i \in OnBill : lines[i].check \in {0, c}}

\* billLinesForCheck: the cover is in no check.
LinesOf(c) == {i \in OnBill : lines[i].check = c}

\* What a screen that loads the bill reads; a check is shown to the cent.
Loaded == [total |-> IF split.kind = "roman" THEN split.shares[Cardinality(split.paid) + 1]
                     ELSE BillTotal,
           checks |-> [c \in Checks |-> Sum(LinesOf(c))]]

\* The cashier's screen takes the bill a request of its own answers.
Refreshed == screen' = IF freed' THEN screen ELSE Loaded'

AllPaid(s) == s.kind = "checks" /\ s.paid = Checks

Init ==
  /\ lines = <<>>
  /\ cover \in Covers
  /\ split = NoSplit
  /\ screen = [total |-> 0, checks |-> [c \in Checks |-> 0]]
  /\ paid = 0 /\ shown = 0 /\ sales = 0
  /\ parts = [m \in Methods |-> 0]
  /\ drawer = 0
  /\ freed = FALSE
  /\ short = 0 /\ moved = FALSE

Changed == moved' = (moved \/ split.paid # {})

bookVars == <<paid, shown, sales, parts, drawer, short>>

-----------------------------------------------------------------------------
(* The waiter and the cashier change the bill *)

AddLine(dish) ==
  /\ ~freed /\ Len(lines) < MaxLines
  /\ lines' = Append(lines, [price |-> dish.price, quantity |-> dish.quantity,
                             voided |-> 0, off |-> 0, check |-> 0])
  /\ Changed
  /\ UNCHANGED <<cover, split, screen, freed, bookVars>>

\* Mutant: a void is not checked against what is left.
StornoUnchecked(i, n) ==
  /\ ~freed
  /\ lines' = [lines EXCEPT ![i].voided = @ + n]
  /\ Changed
  /\ UNCHANGED <<cover, split, screen, freed, bookVars>>

\* stornoLine
Storno(i, n) ==
  /\ ~freed
  /\ n <= Quantity(i)
  /\ lines' = [lines EXCEPT ![i].voided = @ + n]
  /\ Changed
  /\ UNCHANGED <<cover, split, screen, freed, bookVars>>

\* applyTableDiscount, clearTableDiscounts: whatever split is active.
TableDiscount(off) ==
  /\ ~freed
  /\ off > 0 => OnBill # {}
  /\ lines' = [i \in DOMAIN lines |->
                 IF off = 0 \/ i \in OnBill THEN [lines[i] EXCEPT !.off = off]
                 ELSE lines[i]]
  /\ Changed
  /\ UNCHANGED <<cover, split, freed, bookVars>>
  /\ Refreshed

StartRomanSplit(n) ==
  /\ ~freed /\ HasBill /\ split.kind = "none"
  /\ split' = [kind |-> "roman", total |-> BillTotal, paid |-> {},
               shares |-> SplitRoundedTotal(BillTotal, n)]
  /\ UNCHANGED <<lines, cover, freed, bookVars, moved>>
  /\ Refreshed

\* Two checks, and the lines of the bill each has; again and again.
UpdateAnalyticSplit(assign) ==
  /\ ~freed /\ HasBill /\ split.kind # "roman"
  /\ split' = [split EXCEPT !.kind = "checks"]
  /\ lines' = [i \in DOMAIN lines |->
                 [lines[i] EXCEPT !.check = IF i \in OnBill THEN assign[i] ELSE 0]]
  /\ Changed
  /\ UNCHANGED <<cover, freed, bookVars>>
  /\ Refreshed

\* cancelActiveSplit
CancelSplit ==
  /\ ~freed /\ split.kind # "none" /\ split.paid = {}
  /\ split' = NoSplit
  /\ lines' = [i \in DOMAIN lines |-> [lines[i] EXCEPT !.check = 0]]
  /\ UNCHANGED <<cover, freed, bookVars, moved>>
  /\ Refreshed

Look ==
  /\ ~freed
  /\ screen' = Loaded
  /\ UNCHANGED <<lines, cover, split, freed, bookVars, moved>>

-----------------------------------------------------------------------------
(* A payment *)

\* A receipt is for lines and, with no check, the cover.
SourceTotal(S, withCover) == Sum(S) + (IF withCover THEN CoverTotal ELSE 0)

Scaled(total, quantity, target, source) ==
  IF quantity = 0 THEN 0
  ELSE quantity * RoundDiv(total * target, source * quantity)

\* Mutant: the lines of the receipt are not scaled to the amount.
ReceiptUnscaled(S, withCover, target, whole) ==
  IF whole THEN target ELSE SourceTotal(S, withCover)

\* billToReceiptLines, createMockReceipt: the price of each unit is scaled to
\* the amount and rounded; a whole meal is one line.  With nothing to scale a
\* share is one line, and there is nothing else to pay.
ReceiptTotal(S, withCover, target, whole) ==
  LET source == SourceTotal(S, withCover) IN
  IF source <= 0 THEN (IF split.kind = "roman" THEN target ELSE 0)
  ELSE IF whole THEN target
  ELSE SumFunction([i \in S |-> Scaled(Total(i), Quantity(i), target, source)])
       + (IF withCover THEN Scaled(CoverTotal, cover.guests, target, source) ELSE 0)

\* Mutant: the sale lines of a check are those of the bill.
SaleLinesOfBill(S, withCover, target) == SourceTotal(OnBill, TRUE)

\* enrichBillLinesForReport: the lines of a share are scaled, the others not.
SaleLines(S, withCover, target) ==
  IF split.kind = "roman" /\ BillTotal > 0
  THEN SumFunction([i \in S |-> RoundDiv(Total(i) * target, BillTotal)])
       + RoundDiv(CoverTotal * target, BillTotal)
  ELSE SourceTotal(S, withCover)

\* Mutant: what the cashier typed is not compared with the amount.
PartsUnchecked(given, target) == TRUE

\* normalizePaymentSplits: a cent is let pass.
PartsMatch(given, target) == given - target \in -1 .. 1

AtLeast(n, low) == IF n > low THEN n ELSE low

\* Mutant: the change of a mixed payment forgets the voucher.
ChangeForgetsVoucher(received, due, target) == AtLeast(received - target, 0)

\* createMockReceipt: what is over the part in cash.
Change(received, due, target) == AtLeast(received - due, 0)

\* What one payment leaves behind.  in[m]: the part paid by m.
Book(S, withCover, target, whole, in, received) ==
  LET total == ReceiptTotal(S, withCover, target, whole)
      mixed == Cardinality(DOMAIN in) > 1
  IN
  /\ paid' = paid + target
  /\ shown' = shown + total
  /\ sales' = sales + SaleLines(S, withCover, target)
  /\ parts' = [m \in Methods |->
                 parts[m] + (IF m \notin DOMAIN in THEN 0
                             ELSE IF mixed THEN in[m] ELSE total)]
  /\ IF "CASH" \in DOMAIN in
     THEN /\ drawer' = drawer + received - Change(received, in["CASH"], target)
          /\ short' = short + AtLeast(in["CASH"] - received, 0)
     ELSE UNCHANGED <<drawer, short>>

\* All in cash or by card: the cashier asks for what the screen says, at least
\* a cent, and the server books its own amount.
PaySingle(S, withCover, target, read, whole) ==
  \E m \in {"CASH", "POS"} :
    Book(S, withCover, target, whole, [x \in {m} |-> target], AtLeast(read, 1))

\* A voucher for half, the rest in cash with a euro too much.  The parts are
\* those of the screen.
PayMixed(target) ==
  LET voucher == screen.total \div 2 IN
  /\ voucher > 0
  /\ PartsMatch(screen.total, target)
  /\ Book(OnBill, TRUE, target, FALSE,
          [x \in {"CASH", "MEAL_VOUCHER"} |->
             IF x = "CASH" THEN screen.total - voucher ELSE voucher],
          screen.total - voucher + 100)

\* executeTablePayment with no split: by any amount of the screen.  A whole
\* meal is for invoices, a mixed payment is not.
PayFull ==
  /\ ~freed /\ HasBill /\ split.kind = "none"
  /\ \/ \E whole \in BOOLEAN : PaySingle(OnBill, TRUE, BillTotal, screen.total, whole)
     \/ PayMixed(BillTotal)
  /\ freed' = TRUE
  /\ UNCHANGED <<lines, cover, split, screen, moved>>

\* Mutant: a share is taken of the bill as it is now.
ShareDueAnew(k) == EvenShare(BillTotal, Len(split.shares))

\* The amount of a share was fixed when the split started.
ShareDue(k) == split.shares[k]

\* The next share.
PayShare ==
  LET k == Cardinality(split.paid) + 1 IN
  /\ ~freed /\ HasBill /\ split.kind = "roman"
  /\ PaySingle(OnBill, TRUE, ShareDue(k), screen.total, FALSE)
  /\ split' = [split EXCEPT !.paid = @ \cup {k}]
  /\ freed' = (k >= Len(split.shares))
  /\ UNCHANGED <<lines, cover, moved>>
  /\ Refreshed

PayCheck(c) ==
  /\ ~freed /\ HasBill /\ split.kind = "checks"
  /\ c \notin split.paid
  /\ LinesOf(c) # {}
  /\ PaySingle(LinesOf(c), FALSE, RoundToFiveCents(Sum(LinesOf(c))),
               screen.checks[c], FALSE)
  /\ split' = [split EXCEPT !.paid = @ \cup {c}]
  /\ freed' = AllPaid(split')
  /\ UNCHANGED <<lines, cover, moved>>
  /\ Refreshed

-----------------------------------------------------------------------------

Next ==
  \/ \E dish \in Dishes : AddLine(dish)
  \/ \E i \in DOMAIN lines, n \in Portions : Storno(i, n)
  \/ \E off \in Discounts : TableDiscount(off)
  \/ \E n \in ShareCounts : StartRomanSplit(n)
  \/ \E assign \in [DOMAIN lines -> Checks \cup {0}] : UpdateAnalyticSplit(assign)
  \/ CancelSplit
  \/ Look
  \/ PayFull
  \/ PayShare
  \/ \E c \in Checks : PayCheck(c)

Spec == Init /\ [][Next]_vars
-----------------------------------------------------------------------------
(* Properties *)

\* Types of the variables; no line is voided more than it was ordered.
TypeOK ==
  /\ lines \in Seq([price : Nat, quantity : Nat, voided : Nat, off : 0 .. 100,
                    check : Checks \cup {0}])
  /\ Len(lines) <= MaxLines
  /\ \A i \in DOMAIN lines : lines[i].voided <= lines[i].quantity
  /\ cover \in Covers
  /\ split.kind \in {"none", "roman", "checks"}
  /\ split.paid \subseteq (IF split.kind = "roman" THEN DOMAIN split.shares ELSE Checks)
  /\ {screen.total, paid, shown, sales, drawer, short} \subseteq Int
  /\ screen.checks \in [Checks -> Nat] /\ parts \in [Methods -> Int]
  /\ freed \in BOOLEAN /\ moved \in BOOLEAN

Near(a, b, halves) == 2 * (a - b) \in -halves .. halves

Documents == IF split.kind = "none" THEN (IF freed THEN 1 ELSE 0)
             ELSE Cardinality(split.paid)

\* Units a receipt of this bill may have.
Units == SumFunction([i \in DOMAIN lines |-> lines[i].quantity]) + cover.guests

\* Whatever the shares and however the bill changes meanwhile, the shares of a
\* roman split take its total at the start (splitRoundedTotal: the last share
\* takes the rest).
RomanTakesItsTotal ==
  split.kind = "roman" /\ freed => paid = split.total

\* Checks take what the bill has but the cover and the lines in no check, and
\* at most four cents more each (billLinesForCheck leaves the cover out).
ChecksLeaveTheCover ==
  split.kind = "checks" /\ freed /\ ~moved =>
    LET owed == BillTotal - CoverTotal - Sum({i \in OnBill : lines[i].check = 0})
    IN  paid - owed \in -8 .. 8

\* The receipts add up to the amounts taken but for half a cent a unit, line
\* by line, document by document (billToReceiptLines rounds prices of units).
ReceiptsNearAmounts == Near(shown, paid, Documents * Units)

\* The sale lines the reports are made of are never more than the amounts
\* taken, and at most a rounding to five cents less.  A share's are scaled and
\* rounded line by line: they add up if all shares are paid of the bill the
\* split started from, and may not if it changes and changes back between two
\* (enrichBillLinesForReport).
SalesBelowAmounts ==
  CASE split.kind = "roman" ->
         freed /\ ~moved /\ BillTotal = split.total =>
           Near(sales, paid, 16 + Documents * (Len(lines) + 1))
    [] split.kind = "checks" -> paid - sales \in 0 .. 4 * Documents
    [] OTHER -> paid - sales \in 0 .. 8

\* What the cash session has by method adds up to its receipts, but for the
\* cent and the roundings of a mixed payment (computeCashSessionTheoretical).
PartsAddUp ==
  LET sum == parts["CASH"] + parts["POS"] + parts["MEAL_VOUCHER"]
  IN  IF split.kind = "none" THEN Near(sum, shown, 2 + Units) ELSE sum = shown

\* A drawer counted right differs from the cash the session expects by the
\* roundings of the receipts and what cashiers asked too little
\* (closeCashSession).
DrawerNearBooks == Near(drawer + short, parts["CASH"], Documents * Units)

\* A cashier who has the bill as it is asks for what the server books, but for
\* the rounding of a check (CassaPage shows a check to the cent,
\* executeTablePayment rounds it up).
ShortOnlyIfStale ==
  [][short' > short =>
       screen # Loaded \/ (split.kind = "checks" /\ short' - short <= 4)]_vars
=============================================================================
