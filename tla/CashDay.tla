------------------------------ MODULE CashDay ------------------------------
(***************************************************************************)
(* The accounting day of the on-site server: cash sessions, the day        *)
(* ledger, the fiscal archive, the Z report and the daily closure          *)
(* (services/edge-api: lib/cash-session.ts, lib/day-report-ledger.ts,      *)
(* lib/fiscal-document-archive.ts, lib/fiscal-document-actions.ts,         *)
(* lib/closure-state.ts, lib/closure-archive.ts, routes/closure.ts,        *)
(* lib/runtime-persistence.ts).                                            *)
(*                                                                         *)
(* One action is one stretch of code between two awaits.  A bill is the    *)
(* table it hangs on; what a payment does to the bill is in TablePayment.  *)
(* Sessions, documents, ledger and closures are rows of SQLite and survive *)
(* a crash; the tables and the Z report are in memory and come back as     *)
(* they were last saved.                                                   *)
(*                                                                         *)
(* Time is a tick: an odd tick is the day, the even tick after it the      *)
(* small hours, when the local date is already the next one and the UTC    *)
(* date is not.                                                            *)
(***************************************************************************)
EXTENDS Naturals, Sequences, FiniteSets

CONSTANTS
  Services,      \* LUNCH and DINNER
  Tables,        \* tables and counter orders
  Desks,         \* tills and handhelds, one payment in flight each
  Closers,       \* requests of the closure page, one in flight each
  FirstTick,     \* the tick the history starts at
  MaxTick,       \* bound: the last tick
  MaxReceipts,   \* bound: receipts issued
  MaxZ,          \* bound: Z reports printed
  MaxClosures,   \* bound: closures archived or under way
  MaxCrashes,    \* bound: crashes of the process
  NoKey

ASSUME CashDayAssumption ==
  /\ FirstTick \in Nat \ {0}
  /\ MaxTick \in Nat /\ FirstTick <= MaxTick
  /\ MaxReceipts \in Nat
  /\ MaxZ \in Nat
  /\ MaxClosures \in Nat
  /\ MaxCrashes \in Nat
  /\ NoKey \notin Nat \X Services

VARIABLES
  clock,      \* the tick
  session,    \* session[k]: status of the cash session k = <<date, service>>
  last,       \* the session opened last
  busy,       \* tables that are not FREE
  desk,       \* desk[d]: the payment handler that runs for d
  issued,     \* number of receipts recorded, in the order of their ids
  ledger,     \* ledger[date]: receipts in dayReportTransactions
  docs,       \* docs[r]: row of fiscal_documents for receipt r
  zReport,    \* zReportToday: its number, 0 for null
  zCount,     \* number of Z reports the fiscal printer has issued
  closer,     \* closer[c]: the closure handler that runs for c
  closures,   \* closure_archive, in the order the rows were inserted
  saved,      \* runtime_state: what memory comes back to
  crashes,    \* number of crashes
  \* History: only properties read these.
  window,     \* receipts recorded while a closure was writing its report
  cut         \* receipts cleared by a closure that crashed before its row

moneyVars == <<session, last, busy, desk, issued, docs>>
zVars == <<zReport, zCount, closer, closures>>
faultVars == <<saved, crashes>>
history == <<window, cut>>
vars == <<clock, moneyVars, ledger, zVars, faultVars, history>>

LocalDateOf(tick) == tick \div 2
UtcDateOf(tick) == (tick - 1) \div 2
Dates == UtcDateOf(FirstTick) .. LocalDateOf(MaxTick)
Keys == Dates \X Services
Receipts == 1 .. MaxReceipts

\* Date of an accounting key.
DateOf(k) == k[1]

NoDoc == [state |-> "NONE", key |-> NoKey, number |-> 0]
IdleDesk == [pc |-> "idle"]
IdleCloser == [pc |-> "idle"]

----------------------------------------------------------------------------
(* What the handlers read. *)

LocalDate == LocalDateOf(clock)

OpenKeys == {k \in Keys : session[k] = "OPEN"}

ArchivedDates == {closures[i].date : i \in DOMAIN closures}

\* Mutant: the date of now is the UTC one.
UtcBusinessDate ==
  IF OpenKeys # {} THEN DateOf(CHOOSE k \in OpenKeys : TRUE)
  ELSE IF last # NoKey /\ DateOf(last) \notin ArchivedDates THEN DateOf(last)
  ELSE UtcDateOf(clock)

\* The date of the open session; else that of the last session, if that day
\* has no closure; else today.
CurrentBusinessDate ==
  IF OpenKeys # {} THEN DateOf(CHOOSE k \in OpenKeys : TRUE)
  ELSE IF last # NoKey /\ DateOf(last) \notin ArchivedDates THEN DateOf(last)
  ELSE LocalDate

Filed == {r \in Receipts : docs[r].state # "NONE"}

\* Mutant: the greatest number of the documents still in force plus one.
NextNumberInForce ==
  1 + Cardinality({r \in Receipts : docs[r].state = "ISSUED"})

\* nextDocumentNumber: the greatest number filed plus one.
NextDocumentNumber ==
  CHOOSE n \in 1 .. MaxReceipts + 1 :
    /\ \A r \in Filed : docs[r].number < n
    /\ n = 1 \/ \E r \in Filed : docs[r].number = n - 1

\* Closure requests that may still archive a closure.
Completing == {c \in Closers : closer[c].pc \in {"precheck", "write"}}

\* The pre-check of the closure page.
CanClose == OpenKeys = {} /\ busy = {}

----------------------------------------------------------------------------
Init ==
  /\ clock = FirstTick
  /\ session = [k \in Keys |-> "NEW"]
  /\ last = NoKey
  /\ busy = {}
  /\ desk = [d \in Desks |-> IdleDesk]
  /\ issued = 0
  /\ ledger = [date \in Dates |-> {}]
  /\ docs = [r \in Receipts |-> NoDoc]
  /\ zReport = 0
  /\ zCount = 0
  /\ closer = [c \in Closers |-> IdleCloser]
  /\ closures = <<>>
  /\ saved = [busy |-> {}, z |-> 0]
  /\ crashes = 0
  /\ window = {}
  /\ cut = {}

Tick ==
  /\ clock < MaxTick
  /\ clock' = clock + 1
  /\ UNCHANGED <<moneyVars, ledger, zVars, faultVars, history>>

----------------------------------------------------------------------------
(* Cash sessions. *)

\* One session is open at a time, and a service is opened once a day.
OpenCashSession(service) ==
  LET k == <<LocalDate, service>> IN
    /\ OpenKeys = {}
    /\ session[k] = "NEW"
    /\ session' = [session EXCEPT ![k] = "OPEN"]
    /\ last' = k
    /\ UNCHANGED <<clock, busy, desk, issued, docs, ledger,
                   zVars, faultVars, history>>

\* A payment at the printer does not stop it: only requests of handhelds do,
\* and those are in TablePayment, as are the figures a session is closed with.
CloseCashSession(k) ==
  /\ session[k] = "OPEN"
  /\ session' = [session EXCEPT ![k] = "CLOSED"]
  /\ UNCHANGED <<clock, last, busy, desk, issued, docs, ledger,
                 zVars, faultVars, history>>

----------------------------------------------------------------------------
(* Tables and payments. *)

\* An order is submitted for a table; the server wants an open session.
Seat(t) ==
  /\ OpenKeys # {}
  /\ t \notin busy
  /\ busy' = busy \cup {t}
  /\ UNCHANGED <<clock, session, last, desk, issued, docs, ledger,
                 zVars, faultVars, history>>

\* executeTablePayment up to the fiscal printer: the session is captured.
PayStart(d, t) ==
  /\ desk[d].pc = "idle"
  /\ t \in busy
  /\ issued < MaxReceipts
  /\ \E k \in OpenKeys :
       desk' = [desk EXCEPT ![d] = [pc |-> "printing", table |-> t, key |-> k]]
  /\ UNCHANGED <<clock, session, last, busy, issued, docs, ledger,
                 zVars, faultVars, history>>

\* The printer or the receipt files fail.
PayFail(d) ==
  /\ desk[d].pc = "printing"
  /\ desk' = [desk EXCEPT ![d] = IdleDesk]
  /\ UNCHANGED <<clock, session, last, busy, issued, docs, ledger,
                 zVars, faultVars, history>>

\* Mutant: the receipt enters the ledger of today.
RecordPaymentToday(d) ==
  LET r == issued + 1 IN
    /\ desk[d].pc = "printing"
    /\ issued < MaxReceipts
    /\ issued' = r
    /\ ledger' = [ledger EXCEPT ![LocalDate] = @ \cup {r}]
    /\ busy' = busy \ {desk[d].table}
    /\ desk' = [desk EXCEPT ![d] =
                  [pc |-> "filing", key |-> @.key, receipt |-> r]]
    /\ window' = IF \E c \in Closers : closer[c].pc = "write"
                 THEN window \cup {r} ELSE window
    /\ UNCHANGED <<clock, session, last, docs, zVars, faultVars, cut>>

\* After the receipt files: the receipt the printer issued enters the ledger
\* of the date of the session the handler captured, and the table is free.
RecordPayment(d) ==
  LET r == issued + 1 IN
    /\ desk[d].pc = "printing"
    /\ issued < MaxReceipts
    /\ issued' = r
    /\ ledger' = [ledger EXCEPT ![DateOf(desk[d].key)] = @ \cup {r}]
    /\ busy' = busy \ {desk[d].table}
    /\ desk' = [desk EXCEPT ![d] =
                  [pc |-> "filing", key |-> @.key, receipt |-> r]]
    /\ window' = IF \E c \in Closers : closer[c].pc = "write"
                 THEN window \cup {r} ELSE window
    /\ UNCHANGED <<clock, session, last, docs, zVars, faultVars, cut>>

\* persistFiscalDocument, after the invoice if there is one.
FileDocument(d) ==
  /\ desk[d].pc = "filing"
  /\ docs' = [docs EXCEPT ![desk[d].receipt] =
                [state |-> "ISSUED", key |-> desk[d].key,
                 number |-> NextDocumentNumber]]
  /\ desk' = [desk EXCEPT ![d] = IdleDesk]
  /\ UNCHANGED <<clock, session, last, busy, issued, ledger,
                 zVars, faultVars, history>>

\* The invoice could not be issued: the handler throws before the document.
FileFail(d) ==
  /\ desk[d].pc = "filing"
  /\ desk' = [desk EXCEPT ![d] = IdleDesk]
  /\ UNCHANGED <<clock, session, last, busy, issued, docs, ledger,
                 zVars, faultVars, history>>

----------------------------------------------------------------------------
(* Documents are voided: the ledger keeps their receipts. *)

VoidDocument(r) ==
  /\ docs[r].state = "ISSUED"
  /\ docs' = [docs EXCEPT ![r].state = "VOIDED"]
  /\ UNCHANGED <<clock, session, last, busy, desk, issued, ledger,
                 zVars, faultVars, history>>

\* The lines of the document become a draft of its table, which must be free.
VoidAndRestore(r, t) ==
  /\ docs[r].state = "ISSUED"
  /\ t \notin busy
  /\ docs' = [docs EXCEPT ![r].state = "VOIDED"]
  /\ busy' = busy \cup {t}
  /\ UNCHANGED <<clock, session, last, desk, issued, ledger,
                 zVars, faultVars, history>>

----------------------------------------------------------------------------
(* Z report and daily closure. *)

\* The pre-check passes and the printer is asked for the Z report.
ZReportStart(c) ==
  /\ closer[c].pc = "idle"
  /\ CanClose
  /\ closer' = [closer EXCEPT ![c] = [pc |-> "zprint"]]
  /\ UNCHANGED <<clock, moneyVars, ledger, zReport, zCount, closures,
                 faultVars, history>>

ZReportIssued(c) ==
  /\ closer[c].pc = "zprint"
  /\ zCount < MaxZ
  /\ zCount' = zCount + 1
  /\ zReport' = zCount + 1
  /\ closer' = [closer EXCEPT ![c] = IdleCloser]
  /\ UNCHANGED <<clock, moneyVars, ledger, closures, faultVars, history>>

ZReportFails(c) ==
  /\ closer[c].pc = "zprint"
  /\ closer' = [closer EXCEPT ![c] = IdleCloser]
  /\ UNCHANGED <<clock, moneyVars, ledger, zReport, zCount, closures,
                 faultVars, history>>

\* POST complete reads the Z report, then awaits the pre-check.
CompleteStart(c) ==
  /\ closer[c].pc = "idle"
  /\ zReport # 0
  /\ Len(closures) + Cardinality(Completing) < MaxClosures
  /\ closer' = [closer EXCEPT ![c] = [pc |-> "precheck", z |-> zReport,
                                      zAt |-> Len(closures)]]
  /\ UNCHANGED <<clock, moneyVars, ledger, zReport, zCount, closures,
                 faultVars, history>>

\* The pre-check refuses the closure.
CompleteRefused(c) ==
  /\ closer[c].pc = "precheck"
  /\ ~CanClose
  /\ closer' = [closer EXCEPT ![c] = IdleCloser]
  /\ UNCHANGED <<clock, moneyVars, ledger, zReport, zCount, closures, faultVars,
                 history>>

\* The pre-check passes; in the same turn of the event loop the date and its
\* totals are read, then the report files are written.
CompleteRead(c) ==
  /\ closer[c].pc = "precheck"
  /\ CanClose
  /\ closer' = [closer EXCEPT ![c] =
                  [pc |-> "write", z |-> @.z, zAt |-> @.zAt,
                   date |-> CurrentBusinessDate,
                   total |-> ledger[CurrentBusinessDate],
                   readAt |-> Len(closures)]]
  /\ UNCHANGED <<clock, moneyVars, ledger, zReport, zCount, closures,
                 faultVars, history>>

\* Mutant: the rows of every date are deleted.
ClearLedgerWhole(date) == ledger' = [other \in Dates |-> {}]

\* Mutant: no row is deleted.
ClearLedgerNot(date) == ledger' = ledger

\* clearDayReportLedger.
ClearLedger(date) == ledger' = [ledger EXCEPT ![date] = {}]

\* Mutant: saveClosure does not reset the Z report.
CompleteClearKeepsZ(c) ==
  /\ closer[c].pc = "write"
  /\ busy' = {}
  /\ ClearLedger(closer[c].date)
  /\ closures' = Append(closures,
                   [date |-> closer[c].date, z |-> closer[c].z,
                    total |-> closer[c].total, zAt |-> closer[c].zAt,
                    readAt |-> closer[c].readAt])
  /\ closer' = [closer EXCEPT ![c] = [pc |-> "send"]]
  /\ UNCHANGED <<clock, session, last, desk, issued, docs, zReport, zCount,
                 faultVars, history>>

\* All tables are freed, the ledger is cleared and the closure archived, with
\* what the handler read before it wrote the files.
CompleteClear(c) ==
  /\ closer[c].pc = "write"
  /\ busy' = {}
  /\ ClearLedger(closer[c].date)
  /\ zReport' = 0
  /\ closures' = Append(closures,
                   [date |-> closer[c].date, z |-> closer[c].z,
                    total |-> closer[c].total, zAt |-> closer[c].zAt,
                    readAt |-> closer[c].readAt])
  /\ closer' = [closer EXCEPT ![c] = [pc |-> "send"]]
  /\ UNCHANGED <<clock, session, last, desk, issued, docs, zCount,
                 faultVars, history>>

\* The closure file is written and the closure sent or queued; the Z report is
\* reset once more, whichever it is by now.
CompleteSend(c) ==
  /\ closer[c].pc = "send"
  /\ zReport' = 0
  /\ closer' = [closer EXCEPT ![c] = IdleCloser]
  /\ UNCHANGED <<clock, moneyVars, ledger, zCount, closures,
                 faultVars, history>>

\* A file cannot be written: the handler throws.
CompleteFail(c) ==
  /\ closer[c].pc \in {"write", "send"}
  /\ closer' = [closer EXCEPT ![c] = IdleCloser]
  /\ UNCHANGED <<clock, moneyVars, ledger, zReport, zCount, closures,
                 faultVars, history>>

----------------------------------------------------------------------------
(* Persistence and crashes. *)

\* saveRuntimeState, after every response that is not a GET and every 30 s.
\* Once no crash is left to come, nothing reads what is saved.
Save ==
  /\ crashes < MaxCrashes
  /\ saved' = [busy |-> busy, z |-> zReport]
  /\ UNCHANGED <<clock, moneyVars, ledger, zVars, crashes, history>>

\* What a restart makes of the process: handlers are gone, memory is restored.
Restart ==
  /\ crashes < MaxCrashes
  /\ crashes' = crashes + 1
  /\ busy' = saved.busy
  /\ zReport' = saved.z
  /\ desk' = [d \in Desks |-> IdleDesk]
  /\ closer' = [c \in Closers |-> IdleCloser]

\* A crash that finds no handler under way and memory as saved changes nothing.
Crash ==
  /\ \/ \E d \in Desks : desk[d].pc # "idle"
     \/ \E c \in Closers : closer[c].pc # "idle"
     \/ saved # [busy |-> busy, z |-> zReport]
  /\ Restart
  /\ UNCHANGED <<clock, session, last, issued, ledger, docs,
                 zCount, closures, saved, history>>

\* The power fails between clearDayReportLedger and persistClosureArchive.
CrashWhileClosing(c) ==
  /\ closer[c].pc = "write"
  /\ ClearLedger(closer[c].date)
  /\ cut' = cut \cup ledger[closer[c].date]
  /\ Restart
  /\ UNCHANGED <<clock, session, last, issued, docs, zCount, closures,
                 saved, window>>

----------------------------------------------------------------------------
Next ==
  \/ Tick
  \/ \E service \in Services : OpenCashSession(service)
  \/ \E k \in Keys : CloseCashSession(k)
  \/ \E t \in Tables : Seat(t)
  \/ \E d \in Desks, t \in Tables : PayStart(d, t)
  \/ \E d \in Desks : PayFail(d) \/ RecordPayment(d) \/ FileDocument(d) \/ FileFail(d)
  \/ \E r \in Receipts : VoidDocument(r)
  \/ \E r \in Receipts, t \in Tables : VoidAndRestore(r, t)
  \/ \E c \in Closers :
       \/ ZReportStart(c) \/ ZReportIssued(c) \/ ZReportFails(c)
       \/ CompleteStart(c) \/ CompleteRefused(c) \/ CompleteRead(c)
       \/ CompleteClear(c) \/ CompleteSend(c) \/ CompleteFail(c)
       \/ CrashWhileClosing(c)
  \/ Save
  \/ Crash

Spec == Init /\ [][Next]_vars

----------------------------------------------------------------------------
(* Types. *)

Printing == [pc : {"printing"}, table : Tables, key : Keys]
Filing == [pc : {"filing"}, key : Keys, receipt : Receipts]
Checking == [pc : {"precheck"}, z : 1 .. MaxZ, zAt : Nat]
Writing == [pc : {"write"}, z : 1 .. MaxZ, zAt : Nat, date : Dates,
            total : SUBSET Receipts, readAt : Nat]
Closure == [date : Dates, z : 1 .. MaxZ, total : SUBSET Receipts,
            zAt : Nat, readAt : Nat]

\* Every variable has its type.
TypeOK ==
  /\ clock \in FirstTick .. MaxTick
  /\ session \in [Keys -> {"NEW", "OPEN", "CLOSED"}]
  /\ last \in Keys \cup {NoKey}
  /\ busy \subseteq Tables
  /\ desk \in [Desks -> Printing \cup Filing \cup {IdleDesk}]
  /\ issued \in 0 .. MaxReceipts
  /\ ledger \in [Dates -> SUBSET Receipts]
  /\ docs \in [Receipts -> [state : {"NONE", "ISSUED", "VOIDED"},
                            key : Keys \cup {NoKey}, number : 0 .. MaxReceipts]]
  /\ zReport \in 0 .. MaxZ
  /\ zCount \in 0 .. MaxZ
  /\ closer \in [Closers -> {IdleCloser} \cup [pc : {"zprint", "send"}]
                              \cup Checking \cup Writing]
  /\ closures \in Seq(Closure)
  /\ saved \in [busy : SUBSET Tables, z : 0 .. MaxZ]
  /\ crashes \in 0 .. MaxCrashes
  /\ window \subseteq Receipts
  /\ cut \subseteq Receipts

----------------------------------------------------------------------------
(* Properties. *)

\* Receipts a payment handler has put in the ledger.
Recorded ==
  Filed \cup {desk[d].receipt : d \in {x \in Desks : desk[x].pc = "filing"}}

Archived == UNION {closures[i].total : i \in DOMAIN closures}

\* A receipt that was recorded is in the day ledger or in a closure.  Only two
\* things lose one: it was recorded while a closure, which had read its totals
\* already, wrote the report files; or the power failed between the clearing
\* of the ledger and the insertion of the closure.
TakingsLostOnlyWhileClosing ==
  Recorded \subseteq (UNION {ledger[date] : date \in Dates})
                       \cup Archived \cup window \cup cut

\* A closure counts only receipts of sessions of its own date, whenever they
\* were paid: after midnight too, and after their session was closed.
ClosureCountsItsSessions ==
  \A i \in DOMAIN closures : \A r \in closures[i].total \cap Filed :
    DateOf(docs[r].key) = closures[i].date

\* No receipt is counted twice, but by two closures that overlapped: the later
\* one had read its totals before the earlier one was archived.
CountedTwiceOnlyByOverlap ==
  \A i, j \in DOMAIN closures :
    (i < j /\ closures[i].total \cap closures[j].total # {})
      => closures[j].readAt < i

\* A Z report closes one day, but for two closures that overlapped (the later
\* one read the Z report before the earlier one was archived) and for a crash,
\* which brings the Z report last saved back.
ZClosesOneDay ==
  \A i, j \in DOMAIN closures :
    (i < j /\ closures[i].z = closures[j].z)
      => (closures[j].zAt < i \/ crashes > 0)

\* Documents are numbered 1, 2, 3, ... without a gap or a repetition, in the
\* order they were filed, whichever order their receipts were printed in.
DocumentNumbersDense ==
  /\ {docs[r].number : r \in Filed} = 1 .. Cardinality(Filed)
  /\ \A r \in Receipts \ Filed : docs[r].number = 0

\* The business date never goes back: not when a session is closed after
\* midnight, when a day is archived, nor across a restart.
BusinessDateNeverGoesBack ==
  [][CurrentBusinessDate' >= CurrentBusinessDate]_vars
=============================================================================
