--------------------------- MODULE CashDayProofs ---------------------------
(***************************************************************************)
(* Theorems about CashDay, for any number of tables, tills, closures and   *)
(* crashes.                                                                *)
(***************************************************************************)
EXTENDS CashDay, FiniteSetTheorems, TLAPS

-----------------------------------------------------------------------------
(* Records and dates *)

Desk == Printing \cup Filing \cup {IdleDesk}
Closer == {IdleCloser} \cup [pc : {"zprint", "send"}] \cup Checking \cup Writing
Doc == [state : {"NONE", "ISSUED", "VOIDED"}, key : Keys \cup {NoKey},
        number : 0 .. MaxReceipts]

LEMMA DeskFields ==
  ASSUME NEW x \in Desk
  PROVE  /\ x.pc = "printing" => x.table \in Tables /\ x.key \in Keys
         /\ x.pc = "filing" => x.key \in Keys /\ x.receipt \in Receipts
         /\ x.pc \in {"idle", "printing", "filing"}
  BY DEF Desk, Printing, Filing, IdleDesk

LEMMA DeskMakes ==
  /\ IdleDesk \in Desk /\ IdleDesk.pc = "idle"
  /\ \A t \in Tables, k \in Keys :
       /\ [pc |-> "printing", table |-> t, key |-> k] \in Desk
       /\ [pc |-> "printing", table |-> t, key |-> k].pc = "printing"
  /\ \A k \in Keys, r \in Receipts :
       [pc |-> "filing", key |-> k, receipt |-> r] \in Desk
  BY DEF Desk, Printing, Filing, IdleDesk

LEMMA CloserFields ==
  ASSUME NEW x \in Closer
  PROVE  /\ x.pc = "precheck" => x.z \in 1 .. MaxZ /\ x.zAt \in Nat
         /\ x.pc = "write" => /\ x.z \in 1 .. MaxZ /\ x.zAt \in Nat
                              /\ x.date \in Dates /\ x.total \subseteq Receipts
                              /\ x.readAt \in Nat
         /\ x.pc \in {"idle", "zprint", "send", "precheck", "write"}
  BY DEF Closer, IdleCloser, Checking, Writing

LEMMA CloserMakes ==
  /\ IdleCloser \in Closer /\ IdleCloser.pc = "idle"
  /\ [pc |-> "zprint"] \in Closer /\ [pc |-> "send"] \in Closer
  /\ \A z \in 1 .. MaxZ, n \in Nat :
       [pc |-> "precheck", z |-> z, zAt |-> n] \in Closer
  /\ \A z \in 1 .. MaxZ, n \in Nat, date \in Dates, total \in SUBSET Receipts, m \in Nat :
       /\ [pc |-> "write", z |-> z, zAt |-> n, date |-> date, total |-> total,
           readAt |-> m] \in Closer
       /\ [date |-> date, z |-> z, total |-> total, zAt |-> n, readAt |-> m] \in Closure
<1>1. /\ IdleCloser \in Closer /\ IdleCloser.pc = "idle"
      /\ [pc |-> "zprint"] \in Closer /\ [pc |-> "send"] \in Closer
  BY DEF Closer, IdleCloser
<1>2. \A z \in 1 .. MaxZ, n \in Nat :
        [pc |-> "precheck", z |-> z, zAt |-> n] \in Closer
  BY DEF Closer, Checking
<1>3. ASSUME NEW z \in 1 .. MaxZ, NEW n \in Nat, NEW date \in Dates,
             NEW total \in SUBSET Receipts, NEW m \in Nat
      PROVE  /\ [pc |-> "write", z |-> z, zAt |-> n, date |-> date, total |-> total,
                 readAt |-> m] \in Closer
             /\ [date |-> date, z |-> z, total |-> total, zAt |-> n, readAt |-> m] \in Closure
  BY DEF Closer, Writing, Closure
<1> QED  BY <1>1, <1>2, <1>3

LEMMA DocMakes ==
  /\ NoDoc \in Doc /\ NoDoc.state = "NONE" /\ NoDoc.number = 0
  /\ \A k \in Keys, n \in 0 .. MaxReceipts :
       [state |-> "ISSUED", key |-> k, number |-> n] \in Doc
  /\ \A x \in Doc : [x EXCEPT !.state = "VOIDED"] \in Doc
<1>1. MaxReceipts \in Nat /\ 0 \in 0 .. MaxReceipts
  BY CashDayAssumption
<1>2. NoDoc \in Doc /\ NoDoc.state = "NONE" /\ NoDoc.number = 0
  BY <1>1 DEF NoDoc, Doc
<1>3. \A k \in Keys, n \in 0 .. MaxReceipts :
        [state |-> "ISSUED", key |-> k, number |-> n] \in Doc
  BY DEF Doc
<1>4. \A x \in Doc : [x EXCEPT !.state = "VOIDED"] \in Doc
  BY DEF Doc
<1> QED  BY <1>2, <1>3, <1>4

\* Dates are integers, and a key has one.
LEMMA KeyDate ==
  /\ Dates \subseteq Int
  /\ \A k \in Keys : DateOf(k) \in Dates
  /\ \A date \in Dates, s \in Services : <<date, s>> \in Keys /\ DateOf(<<date, s>>) = date
<1>1. UtcDateOf(FirstTick) \in Int /\ LocalDateOf(MaxTick) \in Int
  BY CashDayAssumption DEF UtcDateOf, LocalDateOf
<1> QED  BY <1>1 DEF Dates, Keys, DateOf

\* The local date of every tick is a date, and never goes back.
LEMMA LocalDates ==
  ASSUME NEW tick \in FirstTick .. MaxTick
  PROVE  /\ LocalDateOf(tick) \in Dates
         /\ tick \in Nat /\ LocalDateOf(tick) <= LocalDateOf(tick + 1)
<1>1. /\ FirstTick \in Nat \ {0} /\ MaxTick \in Nat /\ tick \in Nat
      /\ FirstTick <= tick /\ tick <= MaxTick
  BY CashDayAssumption
<1>2. /\ LocalDateOf(tick) \in Int
      /\ UtcDateOf(FirstTick) <= LocalDateOf(tick)
      /\ LocalDateOf(tick) <= LocalDateOf(MaxTick)
      /\ LocalDateOf(tick) <= LocalDateOf(tick + 1)
  BY <1>1 DEF LocalDateOf, UtcDateOf
<1> QED  BY <1>1, <1>2 DEF Dates

-----------------------------------------------------------------------------
(* Types and document numbers *)

Memory == [busy : SUBSET Tables, z : 0 .. MaxZ]

\* TypeOK, with the record types named.
Types ==
  /\ clock \in FirstTick .. MaxTick
  /\ session \in [Keys -> {"NEW", "OPEN", "CLOSED"}]
  /\ last \in Keys \cup {NoKey}
  /\ busy \subseteq Tables
  /\ desk \in [Desks -> Desk]
  /\ issued \in 0 .. MaxReceipts
  /\ ledger \in [Dates -> SUBSET Receipts]
  /\ docs \in [Receipts -> Doc]
  /\ zReport \in 0 .. MaxZ
  /\ zCount \in 0 .. MaxZ
  /\ closer \in [Closers -> Closer]
  /\ closures \in Seq(Closure)
  /\ saved \in Memory
  /\ crashes \in 0 .. MaxCrashes
  /\ window \subseteq Receipts
  /\ cut \subseteq Receipts

LEMMA NamedTypes == Types <=> TypeOK
  BY DEF Types, TypeOK, Desk, Doc, Closer, Memory

LEMMA MemoryMakes ==
  /\ \A b \in SUBSET Tables, z \in 0 .. MaxZ : [busy |-> b, z |-> z] \in Memory
  /\ \A x \in Memory : x.busy \subseteq Tables /\ x.z \in 0 .. MaxZ
  BY DEF Memory

\* A handler that files a document holds a receipt of its own, which has none.
FileInv ==
  /\ \A d \in Desks : desk[d].pc = "filing" =>
       desk[d].receipt <= issued /\ docs[desk[d].receipt].state = "NONE"
  /\ \A d, e \in Desks :
       (desk[d].pc = "filing" /\ desk[e].pc = "filing" /\ d # e)
         => desk[d].receipt # desk[e].receipt
  /\ \A r \in Receipts : issued < r => docs[r].state = "NONE"
  /\ DocumentNumbersDense

LEMMA Sizes ==
  ASSUME Types
  PROVE  /\ IsFiniteSet(Filed) /\ Cardinality(Filed) \in 0 .. MaxReceipts
         /\ \A r \in Receipts \ Filed :
              /\ Cardinality(Filed \cup {r}) = Cardinality(Filed) + 1
              /\ Cardinality(Filed) + 1 \in 1 .. MaxReceipts
<1>1. IsFiniteSet(Receipts) /\ Cardinality(Receipts) = MaxReceipts
  BY FS_Interval, CashDayAssumption DEF Receipts
<1>2. Filed \subseteq Receipts
  BY DEF Filed
<1>3. IsFiniteSet(Filed) /\ Cardinality(Filed) <= MaxReceipts
  BY <1>1, <1>2, FS_Subset
<1>4. Cardinality(Filed) \in Nat
  BY <1>3, FS_CardinalityType
<1>5. ASSUME NEW r \in Receipts \ Filed
      PROVE  /\ Cardinality(Filed \cup {r}) = Cardinality(Filed) + 1
             /\ Cardinality(Filed \cup {r}) <= MaxReceipts
  <2>1. Cardinality(Filed \cup {r}) = Cardinality(Filed) + 1
    BY <1>3, <1>5, FS_AddElement
  <2>2. Filed \cup {r} \subseteq Receipts
    BY <1>2
  <2> QED  BY <2>1, <2>2, <1>1, FS_Subset
<1> QED  BY <1>3, <1>4, <1>5, CashDayAssumption

\* The next number is the number of documents filed plus one.
LEMMA NextNumber ==
  ASSUME Types, FileInv
  PROVE  NextDocumentNumber = Cardinality(Filed) + 1
<1> DEFINE size == Cardinality(Filed)
           Next1(n) == /\ \A r \in Filed : docs[r].number < n
                       /\ n = 1 \/ \E r \in Filed : docs[r].number = n - 1
<1>1. size \in 0 .. MaxReceipts /\ MaxReceipts \in Nat
  BY Sizes, CashDayAssumption
<1>2. {docs[r].number : r \in Filed} = 1 .. size
  BY DEF FileInv, DocumentNumbersDense
<1>3. size + 1 \in 1 .. MaxReceipts + 1
  BY <1>1
<1> HIDE DEF size
<1>4. \A r \in Filed : docs[r].number \in 1 .. size
  BY <1>2
<1>5. size # 0 => \E r \in Filed : docs[r].number = size
  <2>1. size # 0 => size \in 1 .. size
    BY <1>1
  <2> QED  BY <2>1, <1>2
<1>6. Next1(size + 1)
  <2>1. \A r \in Filed : docs[r].number < size + 1
    BY <1>4, <1>1
  <2> QED  BY <2>1, <1>5, <1>1
<1>7. ASSUME NEW n \in 1 .. MaxReceipts + 1, Next1(n)
      PROVE  n = size + 1
  <2>1. n - 1 <= size
    BY <1>7, <1>4, <1>1
  <2>2. size # 0 => size < n
    BY <1>5, <1>7
  <2> QED  BY <2>1, <2>2, <1>1, <1>7
<1> HIDE DEF Next1
<1>8. NextDocumentNumber = CHOOSE n \in 1 .. MaxReceipts + 1 : Next1(n)
  BY DEF NextDocumentNumber, Next1
<1> QED  BY <1>3, <1>6, <1>7, <1>8 DEF size

\* A step that leaves the documents alone, and lets no handler start to file.
LEMMA FilesKept ==
  ASSUME FileInv, docs' = docs, issued' = issued,
         \A d \in Desks : desk'[d].pc = "filing" => desk'[d] = desk[d]
  PROVE  FileInv'
<1>1. Filed' = Filed
  BY DEF Filed
<1>2. DocumentNumbersDense'
  BY <1>1 DEF FileInv, DocumentNumbersDense
<1> QED  BY <1>2 DEF FileInv

\* A step that voids a document.
LEMMA FilesVoided ==
  ASSUME Types, FileInv, NEW r \in Receipts, docs[r].state = "ISSUED",
         docs' = [docs EXCEPT ![r].state = "VOIDED"],
         issued' = issued, desk' = desk
  PROVE  FileInv' /\ docs' \in [Receipts -> Doc]
<1>1. docs \in [Receipts -> Doc]
  BY DEF Types
<1>2. \A q \in Receipts : docs'[q] = IF q = r THEN [docs[r] EXCEPT !.state = "VOIDED"] ELSE docs[q]
  BY <1>1
<1>3. \A q \in Receipts : docs'[q] \in Doc
  BY <1>1, <1>2, DocMakes
<1>4. docs' \in [Receipts -> Doc]
  BY <1>1, <1>3
<1>5. docs[r] \in Doc
  BY <1>1
<1>6. \A x \in Doc : [x EXCEPT !.state = "VOIDED"].state = "VOIDED"
                     /\ [x EXCEPT !.state = "VOIDED"].number = x.number
  BY DEF Doc
<1>7. \A q \in Receipts : /\ docs'[q].number = docs[q].number
                          /\ docs'[q].state = "NONE" <=> docs[q].state = "NONE"
  BY <1>2, <1>5, <1>6
<1>8. Filed' = Filed
  BY <1>7 DEF Filed
<1>9. DocumentNumbersDense'
  <2>1. Filed \subseteq Receipts
    BY DEF Filed
  <2>2. {docs'[q].number : q \in Filed} = {docs[q].number : q \in Filed}
    BY <2>1, <1>7
  <2>3. \A q \in Receipts \ Filed : docs'[q].number = 0
    BY <1>7 DEF FileInv, DocumentNumbersDense
  <2> QED  BY <1>8, <2>2, <2>3 DEF FileInv, DocumentNumbersDense
<1>10. \A d \in Desks : desk[d].pc = "filing" => desk[d].receipt \in Receipts
  BY DeskFields DEF Types
<1> QED  BY <1>4, <1>7, <1>9, <1>10 DEF FileInv

\* A receipt enters the ledger, and its handler goes on to file it.
LEMMA FilesRecorded ==
  ASSUME Types, FileInv, NEW d \in Desks, RecordPayment(d)
  PROVE  FileInv' /\ issued + 1 \in Receipts
                  /\ desk' \in [Desks -> Desk] /\ desk[d].key \in Keys
<1> DEFINE r == issued + 1
           new == [pc |-> "filing", key |-> desk[d].key, receipt |-> r]
<1>1. r \in Receipts /\ issued \in Nat
  BY CashDayAssumption DEF RecordPayment, Types, Receipts
<1>2. desk \in [Desks -> Desk] /\ desk[d].pc = "printing" /\ desk[d].key \in Keys
  BY DeskFields DEF RecordPayment, Types
<1>3. desk' = [desk EXCEPT ![d] = new] /\ issued' = issued + 1 /\ docs' = docs
  BY DEF RecordPayment
<1>4. new \in Desk
  BY <1>1, <1>2, DeskMakes
<1> HIDE DEF r
<1>5. desk' \in [Desks -> Desk] /\ desk'[d] = new /\ \A e \in Desks \ {d} : desk'[e] = desk[e]
  BY <1>2, <1>3, <1>4
<1>6. new.pc = "filing" /\ new.receipt = r
  OBVIOUS
<1> HIDE DEF new
<1>7. docs[r].state = "NONE"
  BY <1>1 DEF FileInv, r
<1>8. \A e \in Desks : desk[e].pc = "filing" => desk[e].receipt < r /\ desk[e].receipt \in Nat
  BY <1>1, DeskFields DEF FileInv, r, Types, Receipts
<1>9. \A e \in Desks : desk'[e].pc = "filing" =>
         desk'[e].receipt <= issued' /\ docs'[desk'[e].receipt].state = "NONE"
  BY <1>1, <1>3, <1>5, <1>6, <1>7, <1>8 DEF FileInv, r
<1>10. \A e, f \in Desks :
         (desk'[e].pc = "filing" /\ desk'[f].pc = "filing" /\ e # f)
           => desk'[e].receipt # desk'[f].receipt
  BY <1>1, <1>5, <1>6, <1>8 DEF FileInv, r
<1>11. DocumentNumbersDense'
  BY <1>3 DEF FileInv, DocumentNumbersDense, Filed
<1>12. \A q \in Receipts : issued' < q => docs'[q].state = "NONE"
  BY <1>1, <1>3 DEF FileInv, Receipts
<1> QED  BY <1>1, <1>2, <1>5, <1>9, <1>10, <1>11, <1>12 DEF FileInv, r

\* A document is filed: it takes the next number.
LEMMA FilesFiled ==
  ASSUME Types, FileInv, NEW d \in Desks, FileDocument(d)
  PROVE  FileInv' /\ docs' \in [Receipts -> Doc] /\ desk' \in [Desks -> Desk]
<1> DEFINE r == desk[d].receipt
           n == Cardinality(Filed) + 1
           new == [state |-> "ISSUED", key |-> desk[d].key, number |-> n]
<1>1. r \in Receipts /\ desk[d].key \in Keys /\ r <= issued /\ docs[r].state = "NONE"
  BY DeskFields DEF FileDocument, Types, FileInv
<1>2. desk' = [desk EXCEPT ![d] = IdleDesk] /\ docs' = [docs EXCEPT ![r] = new] /\ issued' = issued
  BY NextNumber DEF FileDocument
<1>3. desk \in [Desks -> Desk] /\ docs \in [Receipts -> Doc] /\ desk[d].pc = "filing"
  BY DEF FileDocument, Types
<1>4. r \in Receipts \ Filed
  BY <1>1 DEF Filed
<1>5. /\ Cardinality(Filed \cup {r}) = n /\ n \in 1 .. MaxReceipts
      /\ Cardinality(Filed) \in Nat
  BY <1>4, Sizes
<1>6. new \in Doc
  BY <1>1, <1>5, DocMakes
<1>7. new.state = "ISSUED" /\ new.number = n
  OBVIOUS
<1> HIDE DEF new, r
<1>8. /\ docs' \in [Receipts -> Doc] /\ docs'[r] = new
      /\ \A q \in Receipts \ {r} : docs'[q] = docs[q]
  BY <1>1, <1>2, <1>3, <1>6
<1>9. /\ desk' \in [Desks -> Desk] /\ desk'[d].pc = "idle"
      /\ \A e \in Desks \ {d} : desk'[e] = desk[e]
  BY <1>2, <1>3, DeskMakes
<1>10. Filed' = Filed \cup {r}
  BY <1>1, <1>7, <1>8 DEF Filed
<1>11. DocumentNumbersDense'
  <2>1. Filed \subseteq Receipts \ {r}
    BY <1>4 DEF Filed
  <2>2. {docs[q].number : q \in Filed} = 1 .. Cardinality(Filed)
    BY DEF FileInv, DocumentNumbersDense
  <2>3. {docs'[q].number : q \in Filed \cup {r}} = {docs[q].number : q \in Filed} \cup {n}
    BY <2>1, <1>7, <1>8
  <2>4. (1 .. Cardinality(Filed)) \cup {Cardinality(Filed) + 1} = 1 .. Cardinality(Filed) + 1
    BY <1>5
  <2>5. \A q \in Receipts \ (Filed \cup {r}) : docs'[q].number = 0
    BY <1>8 DEF FileInv, DocumentNumbersDense
  <2> QED  BY <2>2, <2>3, <2>4, <2>5, <1>5, <1>10 DEF DocumentNumbersDense
<1>12. \A e \in Desks : desk'[e].pc = "filing" =>
         desk'[e].receipt <= issued' /\ docs'[desk'[e].receipt].state = "NONE"
  <2> SUFFICES ASSUME NEW e \in Desks, desk'[e].pc = "filing"
               PROVE  desk'[e].receipt <= issued' /\ docs'[desk'[e].receipt].state = "NONE"
    OBVIOUS
  <2>1. e # d /\ desk'[e] = desk[e] /\ desk[e].pc = "filing"
    BY <1>9
  <2>2. desk[e].receipt \in Receipts /\ desk[e].receipt # r
    BY <2>1, <1>3, DeskFields DEF FileInv, r
  <2> QED  BY <2>1, <2>2, <1>2, <1>8 DEF FileInv
<1>13. \A e, f \in Desks :
         (desk'[e].pc = "filing" /\ desk'[f].pc = "filing" /\ e # f)
           => desk'[e].receipt # desk'[f].receipt
  BY <1>9 DEF FileInv
<1>14. \A q \in Receipts : issued' < q => docs'[q].state = "NONE"
  <2>1. issued \in Nat /\ r \in Nat
    BY <1>1, CashDayAssumption DEF Types, Receipts
  <2>2. \A q \in Receipts : issued' < q => q # r
    BY <2>1, <1>1, <1>2 DEF r
  <2> QED  BY <2>2, <1>2, <1>8 DEF FileInv
<1> QED  BY <1>8, <1>9, <1>11, <1>12, <1>13, <1>14 DEF FileInv

LEMMA TypesInit == Init => Types /\ FileInv
<1> SUFFICES ASSUME Init PROVE Types /\ FileInv
  OBVIOUS
<1>1. /\ FirstTick \in FirstTick .. MaxTick /\ 0 \in 0 .. MaxReceipts
      /\ 0 \in 0 .. MaxZ /\ 0 \in 0 .. MaxCrashes
  BY CashDayAssumption
<1>2. desk \in [Desks -> Desk] /\ \A d \in Desks : desk[d].pc = "idle"
  BY DeskMakes DEF Init
<1>3. closer \in [Closers -> Closer]
  BY CloserMakes DEF Init
<1>4. docs \in [Receipts -> Doc] /\ \A r \in Receipts : docs[r].state = "NONE" /\ docs[r].number = 0
  BY DocMakes DEF Init
<1>5. saved \in Memory
  BY <1>1, MemoryMakes DEF Init
<1>6. Types
  BY <1>1, <1>2, <1>3, <1>4, <1>5 DEF Init, Types
<1>7. Filed = {}
  BY <1>4 DEF Filed
<1>8. DocumentNumbersDense
  <2>1. Cardinality({}) = 0
    BY FS_EmptySet
  <2>2. 1 .. 0 = {}
    OBVIOUS
  <2> QED  BY <1>4, <1>7, <2>1, <2>2 DEF DocumentNumbersDense
<1> QED  BY <1>2, <1>4, <1>6, <1>8 DEF FileInv

\* A step of a payment handler that only changes where the handler is.
LEMMA DeskStep ==
  ASSUME Types, FileInv, NEW d \in Desks, NEW x \in Desk, x.pc # "filing",
         desk' = [desk EXCEPT ![d] = x],
         UNCHANGED <<clock, session, last, busy, issued, docs, ledger,
                     zVars, faultVars, history>>
  PROVE  Types' /\ FileInv'
<1>1. desk \in [Desks -> Desk]
  BY DEF Types
<1>2. desk' \in [Desks -> Desk] /\ \A e \in Desks : desk'[e].pc = "filing" => desk'[e] = desk[e]
  BY <1>1
<1> QED  BY <1>2, FilesKept DEF Types, zVars, faultVars, history

\* A step of a closure request that only changes where the request is.
LEMMA CloserStep ==
  ASSUME Types, FileInv, NEW c \in Closers, NEW x \in Closer,
         closer' = [closer EXCEPT ![c] = x],
         UNCHANGED <<clock, moneyVars, ledger, zCount, closures, faultVars, history>>,
         zReport' \in 0 .. MaxZ
  PROVE  Types' /\ FileInv'
<1>1. closer' \in [Closers -> Closer]
  BY DEF Types
<1>2. FileInv'
  BY FilesKept DEF moneyVars
<1> QED  BY <1>1, <1>2 DEF Types, moneyVars, faultVars, history

\* What a restart leaves of the handlers and of memory.
LEMMA RestartStep ==
  ASSUME Types, FileInv, Restart, docs' = docs, issued' = issued
  PROVE  /\ FileInv' /\ desk' \in [Desks -> Desk] /\ closer' \in [Closers -> Closer]
         /\ busy' \subseteq Tables /\ zReport' \in 0 .. MaxZ
         /\ crashes' \in 0 .. MaxCrashes
<1>1. desk' \in [Desks -> Desk] /\ \A d \in Desks : desk'[d].pc = "idle"
  BY DeskMakes DEF Restart
<1>2. closer' \in [Closers -> Closer]
  BY CloserMakes DEF Restart
<1>3. busy' \subseteq Tables /\ zReport' \in 0 .. MaxZ
  BY MemoryMakes DEF Restart, Types
<1>4. crashes' \in 0 .. MaxCrashes
  BY CashDayAssumption DEF Restart, Types
<1>5. FileInv'
  BY <1>1, FilesKept
<1> QED  BY <1>1, <1>2, <1>3, <1>4, <1>5

\* The business date is a date, and so is every date a closure may clear.
LEMMA DateIsADate ==
  ASSUME Types
  PROVE  LocalDate \in Dates /\ CurrentBusinessDate \in Dates
<1>1. LocalDate \in Dates
  BY LocalDates DEF LocalDate, Types
<1>2. OpenKeys # {} => (CHOOSE k \in OpenKeys : TRUE) \in Keys
  BY DEF OpenKeys
<1>3. (last # NoKey) => last \in Keys
  BY DEF Types
<1> QED  BY <1>1, <1>2, <1>3, KeyDate DEF CurrentBusinessDate

LEMMA TypesStep == Types /\ FileInv /\ [Next]_vars => Types' /\ FileInv'
<1> SUFFICES ASSUME Types, FileInv, [Next]_vars PROVE Types' /\ FileInv'
  OBVIOUS
<1> USE DEF moneyVars, zVars, faultVars, history
<1>1. CASE Tick
  <2>1. clock' \in FirstTick .. MaxTick
    BY <1>1, CashDayAssumption DEF Tick, Types
  <2>2. FileInv'
    BY <1>1, FilesKept DEF Tick
  <2> QED  BY <1>1, <2>1, <2>2 DEF Tick, Types
<1>2. ASSUME NEW service \in Services, OpenCashSession(service) PROVE Types' /\ FileInv'
  <2>1. <<LocalDate, service>> \in Keys
    BY DateIsADate, KeyDate
  <2>2. FileInv'
    BY <1>2, FilesKept DEF OpenCashSession
  <2> QED  BY <1>2, <2>1, <2>2 DEF OpenCashSession, Types
<1>3. ASSUME NEW k \in Keys, CloseCashSession(k) PROVE Types' /\ FileInv'
  <2>1. FileInv'
    BY <1>3, FilesKept DEF CloseCashSession
  <2> QED  BY <1>3, <2>1 DEF CloseCashSession, Types
<1>4. ASSUME NEW t \in Tables, Seat(t) PROVE Types' /\ FileInv'
  <2>1. FileInv'
    BY <1>4, FilesKept DEF Seat
  <2> QED  BY <1>4, <2>1 DEF Seat, Types
<1>5. ASSUME NEW d \in Desks, NEW t \in Tables, PayStart(d, t) PROVE Types' /\ FileInv'
  <2>1. PICK k \in OpenKeys :
          desk' = [desk EXCEPT ![d] = [pc |-> "printing", table |-> t, key |-> k]]
    BY <1>5 DEF PayStart
  <2>2. k \in Keys
    BY DEF OpenKeys
  <2>3. /\ [pc |-> "printing", table |-> t, key |-> k] \in Desk
        /\ [pc |-> "printing", table |-> t, key |-> k].pc # "filing"
    BY <2>2, DeskMakes
  <2> QED  BY <1>5, <2>1, <2>3, DeskStep DEF PayStart
<1>6. ASSUME NEW d \in Desks, PayFail(d) \/ FileFail(d) PROVE Types' /\ FileInv'
  <2>1. IdleDesk \in Desk /\ IdleDesk.pc # "filing"
    BY DeskMakes
  <2> QED  BY <1>6, <2>1, DeskStep DEF PayFail, FileFail
<1>7. ASSUME NEW d \in Desks, RecordPayment(d) PROVE Types' /\ FileInv'
  <2>1. /\ FileInv' /\ issued + 1 \in Receipts /\ desk' \in [Desks -> Desk]
        /\ desk[d].key \in Keys
    BY <1>7, FilesRecorded
  <2>2. ledger' \in [Dates -> SUBSET Receipts]
    <3>1. DateOf(desk[d].key) \in Dates
      BY <2>1, KeyDate
    <3>2. ledger[DateOf(desk[d].key)] \cup {issued + 1} \in SUBSET Receipts
      BY <2>1, <3>1 DEF Types
    <3> QED  BY <1>7, <3>1, <3>2 DEF RecordPayment, Types
  <2>3. issued' \in 0 .. MaxReceipts /\ window' \subseteq Receipts /\ busy' \subseteq Tables
    BY <1>7, <2>1, CashDayAssumption DEF RecordPayment, Types, Receipts
  <2> QED  BY <1>7, <2>1, <2>2, <2>3 DEF RecordPayment, Types
<1>8. ASSUME NEW d \in Desks, FileDocument(d) PROVE Types' /\ FileInv'
  <2>1. FileInv' /\ docs' \in [Receipts -> Doc] /\ desk' \in [Desks -> Desk]
    BY <1>8, FilesFiled
  <2> QED  BY <1>8, <2>1 DEF FileDocument, Types
<1>9. ASSUME NEW r \in Receipts, VoidDocument(r) \/ \E t \in Tables : VoidAndRestore(r, t)
      PROVE  Types' /\ FileInv'
  <2>1. FileInv' /\ docs' \in [Receipts -> Doc]
    BY <1>9, FilesVoided DEF VoidDocument, VoidAndRestore
  <2>2. busy' \subseteq Tables
    BY <1>9 DEF VoidDocument, VoidAndRestore, Types
  <2> QED  BY <1>9, <2>1, <2>2 DEF VoidDocument, VoidAndRestore, Types
<1>10. ASSUME NEW c \in Closers, ZReportStart(c) \/ ZReportFails(c) \/ CompleteRefused(c)
       PROVE  Types' /\ FileInv'
  <2>1. zReport' \in 0 .. MaxZ
    BY <1>10 DEF ZReportStart, ZReportFails, CompleteRefused, Types
  <2> QED  BY <1>10, <2>1, CloserMakes, CloserStep
             DEF ZReportStart, ZReportFails, CompleteRefused
<1>11. ASSUME NEW c \in Closers, ZReportIssued(c) PROVE Types' /\ FileInv'
  <2>1. zCount' \in 0 .. MaxZ /\ zReport' \in 0 .. MaxZ
    BY <1>11, CashDayAssumption DEF ZReportIssued, Types
  <2>2. closer' \in [Closers -> Closer]
    BY <1>11, CloserMakes DEF ZReportIssued, Types
  <2>3. FileInv'
    BY <1>11, FilesKept DEF ZReportIssued
  <2> QED  BY <1>11, <2>1, <2>2, <2>3 DEF ZReportIssued, Types
<1>12. ASSUME NEW c \in Closers, CompleteStart(c) PROVE Types' /\ FileInv'
  <2>1. zReport \in 1 .. MaxZ /\ zReport' \in 0 .. MaxZ /\ Len(closures) \in Nat
    BY <1>12, CashDayAssumption DEF CompleteStart, Types
  <2>2. [pc |-> "precheck", z |-> zReport, zAt |-> Len(closures)] \in Closer
    BY <2>1, CloserMakes
  <2> QED  BY <1>12, <2>1, <2>2, CloserStep DEF CompleteStart
<1>13. ASSUME NEW c \in Closers, CompleteRead(c) PROVE Types' /\ FileInv'
  <2> DEFINE new == [pc |-> "write", z |-> closer[c].z, zAt |-> closer[c].zAt,
                     date |-> CurrentBusinessDate, total |-> ledger[CurrentBusinessDate],
                     readAt |-> Len(closures)]
  <2>1. closer[c].z \in 1 .. MaxZ /\ closer[c].zAt \in Nat
    BY <1>13, CloserFields DEF CompleteRead, Types
  <2>2. /\ CurrentBusinessDate \in Dates /\ ledger[CurrentBusinessDate] \in SUBSET Receipts
        /\ Len(closures) \in Nat /\ zReport' \in 0 .. MaxZ
    BY <1>13, DateIsADate DEF CompleteRead, Types
  <2>3. new \in Closer
    BY <2>1, <2>2, CloserMakes
  <2>4. closer' = [closer EXCEPT ![c] = new]
    BY <1>13 DEF CompleteRead
  <2> HIDE DEF new
  <2> QED  BY <1>13, <2>2, <2>3, <2>4, CloserStep DEF CompleteRead
<1>14. ASSUME NEW c \in Closers, CompleteClear(c) PROVE Types' /\ FileInv'
  <2> DEFINE new == [date |-> closer[c].date, z |-> closer[c].z,
                     total |-> closer[c].total, zAt |-> closer[c].zAt,
                     readAt |-> closer[c].readAt]
  <2>1. new \in Closure
    BY <1>14, CloserFields, CloserMakes DEF CompleteClear, Types
  <2>2. closures' = Append(closures, new)
    BY <1>14 DEF CompleteClear
  <2> HIDE DEF new
  <2>3. closures' \in Seq(Closure)
    BY <2>1, <2>2 DEF Types
  <2>4. closer' \in [Closers -> Closer]
    BY <1>14, CloserMakes DEF CompleteClear, Types
  <2>5. ledger' \in [Dates -> SUBSET Receipts]
    BY <1>14 DEF CompleteClear, ClearLedger, Types
  <2>6. zReport' \in 0 .. MaxZ
    BY <1>14, CashDayAssumption DEF CompleteClear
  <2>7. FileInv'
    BY <1>14, FilesKept DEF CompleteClear
  <2> QED  BY <1>14, <2>3, <2>4, <2>5, <2>6, <2>7 DEF CompleteClear, Types
<1>15. ASSUME NEW c \in Closers, CompleteSend(c) \/ CompleteFail(c) PROVE Types' /\ FileInv'
  <2>1. zReport' \in 0 .. MaxZ
    BY <1>15, CashDayAssumption DEF CompleteSend, CompleteFail, Types
  <2> QED  BY <1>15, <2>1, CloserMakes, CloserStep DEF CompleteSend, CompleteFail
<1>16. ASSUME NEW c \in Closers, CrashWhileClosing(c) PROVE Types' /\ FileInv'
  <2>1. /\ FileInv' /\ desk' \in [Desks -> Desk] /\ closer' \in [Closers -> Closer]
        /\ busy' \subseteq Tables /\ zReport' \in 0 .. MaxZ
        /\ crashes' \in 0 .. MaxCrashes
    BY <1>16, RestartStep DEF CrashWhileClosing
  <2>2. closer[c].date \in Dates
    BY <1>16, CloserFields DEF CrashWhileClosing, Types
  <2>3. ledger' \in [Dates -> SUBSET Receipts] /\ cut' \subseteq Receipts
    BY <1>16, <2>2 DEF CrashWhileClosing, ClearLedger, Types
  <2> QED  BY <1>16, <2>1, <2>3 DEF CrashWhileClosing, Types
<1>17. CASE Save
  <2>1. saved' \in Memory
    BY <1>17, MemoryMakes DEF Save, Types
  <2>2. FileInv'
    BY <1>17, FilesKept DEF Save
  <2> QED  BY <1>17, <2>1, <2>2 DEF Save, Types
<1>18. CASE Crash
  <2>1. /\ FileInv' /\ desk' \in [Desks -> Desk] /\ closer' \in [Closers -> Closer]
        /\ busy' \subseteq Tables /\ zReport' \in 0 .. MaxZ
        /\ crashes' \in 0 .. MaxCrashes
    BY <1>18, RestartStep DEF Crash
  <2> QED  BY <1>18, <2>1 DEF Crash, Types
<1>19. CASE UNCHANGED vars
  <2>1. FileInv'
    BY <1>19, FilesKept DEF vars
  <2> QED  BY <1>19, <2>1 DEF vars, Types
<1> QED
  BY <1>1, <1>2, <1>3, <1>4, <1>5, <1>6, <1>7, <1>8, <1>9, <1>10, <1>11, <1>12, <1>13,
     <1>14, <1>15, <1>16, <1>17, <1>18, <1>19 DEF Next

\* Every variable of the accounting day always has its type: a handler never
\* holds the date, the session or the Z report of nothing.
THEOREM TypeCorrect == Spec => []TypeOK
<1>1. Init => Types /\ FileInv
  BY TypesInit
<1>2. Types /\ FileInv /\ [Next]_vars => (Types /\ FileInv)'
  BY TypesStep
<1>3. Types => TypeOK
  BY NamedTypes
<1> QED  BY <1>1, <1>2, <1>3, PTL DEF Spec

\* Documents are numbered 1, 2, 3, ... in the order they are filed: two tills
\* that file at once never take one number (nextDocumentNumber).
THEOREM NumbersAreDense == Spec => []DocumentNumbersDense
<1>1. Init => Types /\ FileInv
  BY TypesInit
<1>2. Types /\ FileInv /\ [Next]_vars => (Types /\ FileInv)'
  BY TypesStep
<1>3. FileInv => DocumentNumbersDense
  BY DEF FileInv
<1> QED  BY <1>1, <1>2, <1>3, PTL DEF Spec

-----------------------------------------------------------------------------
(* The business date *)

\* The open session is the last one, and no session is of a day to come.
DayInv ==
  /\ OpenKeys \subseteq {last}
  /\ last # NoKey => DateOf(last) <= LocalDate

\* What every step does to what the business date is made of.
DayStep ==
  \/ /\ clock' = clock + 1 /\ clock < MaxTick
     /\ UNCHANGED <<last, session, closures>>
  \/ /\ clock' = clock /\ OpenKeys = {}
     /\ \E s \in Services :
          last' = <<LocalDate, s>> /\ session' = [session EXCEPT ![last'] = "OPEN"]
     /\ closures' = closures
  \/ /\ clock' = clock /\ last' = last
     /\ \E k \in Keys : session[k] = "OPEN" /\ session' = [session EXCEPT ![k] = "CLOSED"]
     /\ closures' = closures
  \/ /\ UNCHANGED <<clock, last, session>>
     /\ \E x : closures' = Append(closures, x)
  \/ UNCHANGED <<clock, last, session, closures>>

LEMMA EveryStepIsADayStep == [Next]_vars => DayStep
<1> USE DEF DayStep, moneyVars, zVars, faultVars, history
<1> SUFFICES ASSUME [Next]_vars PROVE DayStep
  OBVIOUS
<1>1. CASE Tick
  BY <1>1 DEF Tick
<1>2. ASSUME NEW service \in Services, OpenCashSession(service) PROVE DayStep
  BY <1>2 DEF OpenCashSession
<1>3. ASSUME NEW k \in Keys, CloseCashSession(k) PROVE DayStep
  BY <1>3 DEF CloseCashSession
<1>4. ASSUME NEW t \in Tables, Seat(t) PROVE DayStep
  BY <1>4 DEF Seat
<1>5. ASSUME NEW d \in Desks, NEW t \in Tables, PayStart(d, t) PROVE DayStep
  BY <1>5 DEF PayStart
<1>6. ASSUME NEW d \in Desks,
             PayFail(d) \/ RecordPayment(d) \/ FileDocument(d) \/ FileFail(d)
      PROVE  DayStep
  BY <1>6 DEF PayFail, RecordPayment, FileDocument, FileFail
<1>7. ASSUME NEW r \in Receipts, VoidDocument(r) \/ \E t \in Tables : VoidAndRestore(r, t)
      PROVE  DayStep
  BY <1>7 DEF VoidDocument, VoidAndRestore
<1>8. ASSUME NEW c \in Closers,
             \/ ZReportStart(c) \/ ZReportIssued(c) \/ ZReportFails(c)
             \/ CompleteStart(c) \/ CompleteRefused(c) \/ CompleteRead(c)
             \/ CompleteSend(c) \/ CompleteFail(c)
      PROVE  DayStep
  BY <1>8 DEF ZReportStart, ZReportIssued, ZReportFails, CompleteStart, CompleteRefused,
              CompleteRead, CompleteSend, CompleteFail
<1>9. ASSUME NEW c \in Closers, CompleteClear(c) PROVE DayStep
  BY <1>9 DEF CompleteClear
<1>10. ASSUME NEW c \in Closers, CrashWhileClosing(c) PROVE DayStep
  BY <1>10 DEF CrashWhileClosing
<1>11. CASE Save \/ Crash
  BY <1>11 DEF Save, Crash
<1>12. CASE UNCHANGED vars
  BY <1>12 DEF vars
<1> QED  BY <1>1, <1>2, <1>3, <1>4, <1>5, <1>6, <1>7, <1>8, <1>9, <1>10, <1>11, <1>12 DEF Next

LEMMA NoKeyIsNone == Dates \subseteq Nat /\ NoKey \notin Keys
<1>1. UtcDateOf(FirstTick) \in Nat /\ LocalDateOf(MaxTick) \in Nat
  BY CashDayAssumption DEF UtcDateOf, LocalDateOf
<1>2. Dates \subseteq Nat
  BY <1>1 DEF Dates
<1> QED  BY <1>2, CashDayAssumption DEF Keys

\* The business date when there is at most one open session, the last one.
LEMMA DateNow ==
  ASSUME Types, DayInv
  PROVE  /\ OpenKeys = {} \/ (OpenKeys = {last} /\ last # NoKey)
         /\ last # NoKey => DateOf(last) \in Int /\ DateOf(last) <= LocalDate
         /\ OpenKeys # {} => CurrentBusinessDate = DateOf(last)
         /\ OpenKeys = {} /\ last # NoKey /\ DateOf(last) \notin ArchivedDates
              => CurrentBusinessDate = DateOf(last)
         /\ OpenKeys = {} /\ (last = NoKey \/ DateOf(last) \in ArchivedDates)
              => CurrentBusinessDate = LocalDate
         /\ LocalDate \in Int
<1>1. OpenKeys = {} \/ (OpenKeys = {last} /\ last # NoKey)
  BY NoKeyIsNone DEF DayInv, OpenKeys
<1>2. last # NoKey => DateOf(last) \in Int /\ DateOf(last) <= LocalDate
  BY KeyDate DEF Types, DayInv
<1>3. OpenKeys = {last} => (CHOOSE k \in OpenKeys : TRUE) = last
  OBVIOUS
<1>4. LocalDate \in Int
  BY DateIsADate, KeyDate
<1> QED  BY <1>1, <1>2, <1>3, <1>4 DEF CurrentBusinessDate

\* A day step keeps the invariant, and never takes the business date back.
LEMMA DayGoesOn ==
  ASSUME Types, Types', DayInv, DayStep
  PROVE  DayInv' /\ CurrentBusinessDate' >= CurrentBusinessDate
<1>1. CASE clock' = clock + 1 /\ clock < MaxTick /\ UNCHANGED <<last, session, closures>>
  <2>1. LocalDate \in Int /\ LocalDate' \in Int /\ LocalDate <= LocalDate'
    BY <1>1, LocalDates, KeyDate DEF Types, LocalDate
  <2>2. OpenKeys' = OpenKeys /\ ArchivedDates' = ArchivedDates
    BY <1>1 DEF OpenKeys, ArchivedDates
  <2>3. DayInv'
    BY <1>1, <2>1, <2>2, DateNow DEF DayInv
  <2>4. \/ CurrentBusinessDate' = CurrentBusinessDate
        \/ CurrentBusinessDate' = LocalDate' /\ CurrentBusinessDate = LocalDate
    BY <1>1, <2>2 DEF CurrentBusinessDate
  <2>5. CurrentBusinessDate \in Int
    BY DateIsADate, KeyDate
  <2> QED  BY <2>1, <2>3, <2>4, <2>5
<1>2. ASSUME NEW s \in Services, clock' = clock, OpenKeys = {}, closures' = closures,
             last' = <<LocalDate, s>>, session' = [session EXCEPT ![last'] = "OPEN"]
      PROVE  DayInv' /\ CurrentBusinessDate' >= CurrentBusinessDate
  <2>1. LocalDate' = LocalDate /\ LocalDate \in Int /\ LocalDate \in Dates
    BY <1>2, DateIsADate, KeyDate DEF LocalDate
  <2>2. last' \in Keys /\ DateOf(last') = LocalDate /\ last' # NoKey
    BY <1>2, <2>1, KeyDate, NoKeyIsNone
  <2>3. OpenKeys' = {last'}
    BY <1>2, <2>2 DEF OpenKeys, Types
  <2>4. (CHOOSE k \in OpenKeys' : TRUE) = last'
    BY <2>3
  <2>5. CurrentBusinessDate' = LocalDate
    BY <2>2, <2>3, <2>4 DEF CurrentBusinessDate
  <2>6. CurrentBusinessDate <= LocalDate
    BY <1>2, <2>1, DateNow
  <2>7. DayInv'
    BY <2>1, <2>2, <2>3 DEF DayInv, DateOf
  <2>8. CurrentBusinessDate \in Int
    BY DateIsADate, KeyDate
  <2> QED  BY <2>1, <2>5, <2>6, <2>7, <2>8
<1>3. ASSUME NEW k \in Keys, session[k] = "OPEN", clock' = clock, last' = last,
             closures' = closures, session' = [session EXCEPT ![k] = "CLOSED"]
      PROVE  DayInv' /\ CurrentBusinessDate' >= CurrentBusinessDate
  <2>1. k \in OpenKeys
    BY <1>3 DEF OpenKeys
  <2>2. OpenKeys = {k} /\ last = k /\ last # NoKey
    BY <2>1, DateNow
  <2>3. OpenKeys' = {}
    BY <1>3, <2>2 DEF OpenKeys, Types
  <2>4. LocalDate' = LocalDate
    BY <1>3 DEF LocalDate
  <2>5. DayInv'
    BY <1>3, <2>3, <2>4 DEF DayInv
  <2>6. CurrentBusinessDate = DateOf(last)
    BY <2>2, DateNow
  <2>7. CurrentBusinessDate' \in {DateOf(last), LocalDate}
    BY <1>3, <2>3, <2>4 DEF CurrentBusinessDate
  <2> QED  BY <2>2, <2>5, <2>6, <2>7, DateNow
<1>4. ASSUME NEW x, UNCHANGED <<clock, last, session>>, closures' = Append(closures, x)
      PROVE  DayInv' /\ CurrentBusinessDate' >= CurrentBusinessDate
  <2>1. LocalDate' = LocalDate /\ OpenKeys' = OpenKeys
    BY <1>4 DEF LocalDate, OpenKeys
  <2>2. DayInv'
    BY <1>4, <2>1 DEF DayInv
  <2>3. ArchivedDates \subseteq ArchivedDates'
    <3>1. /\ DOMAIN closures \subseteq DOMAIN closures'
          /\ \A i \in DOMAIN closures : closures'[i] = closures[i]
      BY <1>4 DEF Types
    <3> QED  BY <3>1 DEF ArchivedDates
  <2>4. \/ CurrentBusinessDate' = CurrentBusinessDate
        \/ CurrentBusinessDate' = LocalDate
    BY <1>4, <2>1, <2>3 DEF CurrentBusinessDate
  <2>5. CurrentBusinessDate <= LocalDate /\ CurrentBusinessDate \in Int
    BY DateNow, DateIsADate, KeyDate
  <2> QED  BY <2>2, <2>4, <2>5, DateNow
<1>5. CASE UNCHANGED <<clock, last, session, closures>>
  <2>1. DayInv'
    BY <1>5 DEF DayInv, OpenKeys, LocalDate
  <2>2. CurrentBusinessDate' = CurrentBusinessDate
    BY <1>5 DEF CurrentBusinessDate, OpenKeys, ArchivedDates, LocalDate
  <2>3. CurrentBusinessDate \in Int
    BY DateIsADate, KeyDate
  <2> QED  BY <2>1, <2>2, <2>3
<1> QED  BY <1>1, <1>2, <1>3, <1>4, <1>5 DEF DayStep

\* The business date never goes back: not when a session is closed after
\* midnight, not when a day is archived, not across a restart
\* (currentBusinessDate).
THEOREM TheDayGoesOn == Spec => BusinessDateNeverGoesBack
<1>1. Init => Types /\ FileInv /\ DayInv
  <2>1. Init => DayInv
    BY DEF Init, DayInv, OpenKeys
  <2> QED  BY <2>1, TypesInit
<1>2. Types /\ FileInv /\ DayInv /\ [Next]_vars
        => /\ (Types /\ FileInv /\ DayInv)'
           /\ CurrentBusinessDate' >= CurrentBusinessDate
  BY TypesStep, EveryStepIsADayStep, DayGoesOn
<1>3. Types /\ FileInv /\ DayInv /\ [Next]_vars
        => [CurrentBusinessDate' >= CurrentBusinessDate]_vars
  BY <1>2
<1> QED  BY <1>1, <1>2, <1>3, PTL DEF Spec, BusinessDateNeverGoesBack

-----------------------------------------------------------------------------
(* The books: day ledger, closures under way, closures archived *)

Writers == {c \in Closers : closer[c].pc = "write"}

\* The receipts that are of a date: whoever has filed one, or is about to, does
\* so under a session of the date.
OfDate ==
  [date \in Dates |->
     {r \in Receipts :
        /\ r <= issued
        /\ docs[r].state # "NONE" => DateOf(docs[r].key) = date
        /\ \A d \in Desks :
             (desk[d].pc = "filing" /\ desk[d].receipt = r) => DateOf(desk[d].key) = date}]

\* Whatever is counted for a date is of the date.
BelongInv ==
  /\ \A date \in Dates : ledger[date] \subseteq OfDate[date]
  /\ \A c \in Writers : closer[c].total \subseteq OfDate[closer[c].date]
  /\ \A i \in DOMAIN closures : closures[i].total \subseteq OfDate[closures[i].date]

\* Nothing is lost: what a closure under way has not read is in the window.
KeptInv ==
  /\ TakingsLostOnlyWhileClosing
  /\ \A c \in Writers : ledger[closer[c].date] \subseteq closer[c].total \cup window

\* Nothing is counted twice: the ledger holds no archived receipt, and a closure
\* under way holds none that was archived before it read its totals.
ApartInv ==
  /\ \A a, b \in Dates : a # b => ledger[a] \cap ledger[b] = {}
  /\ \A date \in Dates : \A i \in DOMAIN closures : closures[i].total \cap ledger[date] = {}
  /\ \A c \in Writers : \A date \in Dates \ {closer[c].date} :
       closer[c].total \cap ledger[date] = {}
  /\ \A c \in Writers :
       /\ closer[c].readAt <= Len(closures)
       /\ \A i \in DOMAIN closures :
            i <= closer[c].readAt => closures[i].total \cap closer[c].total = {}
  /\ CountedTwiceOnlyByOverlap

BooksInv == BelongInv /\ KeptInv /\ ApartInv

\* A step that leaves the books alone, and starts neither a filing nor a report.
Quiet ==
  /\ UNCHANGED <<issued, ledger, docs, closures, window, cut>>
  /\ \A d \in Desks : desk'[d].pc = "filing" => desk'[d] = desk[d]
  /\ \A c \in Closers : closer'[c].pc = "write" => closer'[c] = closer[c]

LEMMA BooksSteps ==
  ASSUME Types, [Next]_vars
  PROVE  \/ Quiet
         \/ \E d \in Desks : RecordPayment(d) \/ FileDocument(d)
         \/ \E r \in Receipts : VoidDocument(r) \/ \E t \in Tables : VoidAndRestore(r, t)
         \/ \E c \in Closers : CompleteRead(c) \/ CompleteClear(c) \/ CrashWhileClosing(c)
<1> USE DEF moneyVars, zVars, faultVars, history
<1>1. desk \in [Desks -> Desk] /\ closer \in [Closers -> Closer]
  BY DEF Types
<1>2. ASSUME \/ Tick
             \/ \E service \in Services : OpenCashSession(service)
             \/ \E k \in Keys : CloseCashSession(k)
             \/ \E t \in Tables : Seat(t)
             \/ Save \/ UNCHANGED vars
      PROVE  Quiet
  BY <1>2 DEF Quiet, Tick, OpenCashSession, CloseCashSession, Seat, Save, vars
<1>3. ASSUME NEW d \in Desks, NEW t \in Tables, PayStart(d, t) PROVE Quiet
  BY <1>1, <1>3 DEF Quiet, PayStart
<1>4. ASSUME NEW d \in Desks, PayFail(d) \/ FileFail(d) PROVE Quiet
  BY <1>1, <1>4, DeskMakes DEF Quiet, PayFail, FileFail
<1>5. ASSUME NEW c \in Closers,
             \/ ZReportStart(c) \/ ZReportIssued(c) \/ ZReportFails(c)
             \/ CompleteStart(c) \/ CompleteRefused(c)
             \/ CompleteSend(c) \/ CompleteFail(c)
      PROVE  Quiet
  BY <1>1, <1>5, CloserMakes
     DEF Quiet, ZReportStart, ZReportIssued, ZReportFails, CompleteStart, CompleteRefused,
         CompleteSend, CompleteFail
<1>6. CASE Crash
  BY <1>1, <1>6, DeskMakes, CloserMakes DEF Quiet, Crash, Restart
<1> QED  BY <1>2, <1>3, <1>4, <1>5, <1>6 DEF Next

LEMMA PotDates ==
  ASSUME Types
  PROVE  /\ \A c \in Writers : closer[c].date \in Dates /\ closer[c].readAt \in Nat
         /\ \A i \in DOMAIN closures : closures[i].date \in Dates
<1>1. \A x \in Closure : x.date \in Dates
  BY DEF Closure
<1> QED  BY <1>1, CloserFields DEF Writers, Types

LEMMA QuietBooks ==
  ASSUME Types, BooksInv, Quiet
  PROVE  BooksInv'
<1>1. Writers' \subseteq Writers /\ \A c \in Writers' : closer'[c] = closer[c]
  BY DEF Quiet, Writers
<1>2. \A date \in Dates : OfDate[date] \subseteq OfDate'[date]
  BY DEF Quiet, OfDate
<1>3. BelongInv'
  BY <1>1, <1>2, PotDates DEF BooksInv, BelongInv, Quiet
<1>4. Recorded' \subseteq Recorded
  BY DEF Quiet, Recorded, Filed
<1>5. KeptInv'
  BY <1>1, <1>4 DEF BooksInv, KeptInv, TakingsLostOnlyWhileClosing, Archived, Quiet
<1>6. ApartInv'
  BY <1>1 DEF BooksInv, ApartInv, CountedTwiceOnlyByOverlap, Quiet
<1> QED  BY <1>3, <1>5, <1>6 DEF BooksInv

\* A receipt enters the ledger of its date: it was nowhere before.
LEMMA RecordBooks ==
  ASSUME Types, FileInv, BooksInv, NEW d \in Desks, RecordPayment(d)
  PROVE  BooksInv'
<1> DEFINE r == issued + 1
           day == DateOf(desk[d].key)
<1>1. /\ r \in Receipts /\ desk[d].key \in Keys /\ desk' \in [Desks -> Desk]
      /\ issued \in Nat
  BY FilesRecorded, CashDayAssumption DEF Types
<1>2. day \in Dates
  BY <1>1, KeyDate
<1>3. /\ ledger' = [ledger EXCEPT ![day] = @ \cup {r}] /\ issued' = r
      /\ UNCHANGED <<docs, closer, closures, cut>>
      /\ desk' = [desk EXCEPT ![d] = [pc |-> "filing", key |-> desk[d].key, receipt |-> r]]
      /\ window' = IF Writers # {} THEN window \cup {r} ELSE window
  BY DEF RecordPayment, zVars, Writers
<1>4. /\ ledger'[day] = ledger[day] \cup {r}
      /\ \A date \in Dates \ {day} : ledger'[date] = ledger[date]
  BY <1>2, <1>3 DEF Types
<1>5. /\ desk'[d].pc = "filing" /\ desk'[d].key = desk[d].key /\ desk'[d].receipt = r
      /\ \A e \in Desks \ {d} : desk'[e] = desk[e]
  BY <1>3 DEF Types
<1>6. Writers' = Writers
  BY <1>3 DEF Writers
<1>7. \A date \in Dates : r \notin OfDate[date]
  BY <1>1 DEF OfDate
<1>8. ASSUME NEW date \in Dates, NEW q \in OfDate[date] PROVE q \in OfDate'[date]
  <2>1. q \in Receipts /\ q <= issued /\ q # r /\ q \in Nat
    BY <1>1, <1>8 DEF OfDate, Receipts
  <2> HIDE DEF r
  <2>2. q <= issued'
    BY <1>1, <1>3, <2>1 DEF r
  <2>3. \A e \in Desks : (desk'[e].pc = "filing" /\ desk'[e].receipt = q)
                            => DateOf(desk'[e].key) = date
    BY <1>5, <1>8, <2>1 DEF OfDate
  <2> QED  BY <1>3, <1>8, <2>1, <2>2, <2>3 DEF OfDate
<1>9. r \in OfDate'[day]
  <2>1. docs[r].state = "NONE"
    BY <1>1 DEF FileInv
  <2>2. \A e \in Desks \ {d} : desk[e].pc = "filing" => desk[e].receipt # r
    BY <1>1, DeskFields DEF FileInv, Types, Receipts
  <2>3. \A e \in Desks : (desk'[e].pc = "filing" /\ desk'[e].receipt = r)
                            => DateOf(desk'[e].key) = day
    BY <1>5, <2>2
  <2> QED  BY <1>1, <1>2, <1>3, <2>1, <2>3 DEF OfDate
<1> HIDE DEF r, day
<1>10. BelongInv'
  BY <1>2, <1>3, <1>4, <1>6, <1>8, <1>9, PotDates DEF BooksInv, BelongInv
<1>11. /\ \A date \in Dates : r \notin ledger[date]
       /\ \A c \in Writers : r \notin closer[c].total
       /\ \A i \in DOMAIN closures : r \notin closures[i].total
  BY <1>7, PotDates DEF BooksInv, BelongInv
<1>12. ApartInv'
  BY <1>2, <1>3, <1>4, <1>6, <1>11 DEF BooksInv, ApartInv, CountedTwiceOnlyByOverlap
<1>13. Recorded' \subseteq Recorded \cup {r}
  BY <1>3, <1>5 DEF Recorded, Filed
<1>14. TakingsLostOnlyWhileClosing'
  <2>1. Archived' = Archived /\ cut' = cut /\ window \subseteq window'
    BY <1>3 DEF Archived
  <2>2. (UNION {ledger[date] : date \in Dates}) \cup {r}
          \subseteq UNION {ledger'[date] : date \in Dates}
    BY <1>2, <1>4
  <2>3. Recorded \subseteq (UNION {ledger[date] : date \in Dates})
                             \cup Archived \cup window \cup cut
    BY DEF BooksInv, KeptInv, TakingsLostOnlyWhileClosing
  <2> QED  BY <1>13, <2>1, <2>2, <2>3 DEF TakingsLostOnlyWhileClosing
<1>15. KeptInv'
  BY <1>3, <1>4, <1>6, <1>14, CloserFields DEF BooksInv, KeptInv, Writers, Types
<1> QED  BY <1>10, <1>12, <1>15 DEF BooksInv

\* A document is filed, under the session its handler captured.
LEMMA FileBooks ==
  ASSUME Types, FileInv, BooksInv, NEW d \in Desks, FileDocument(d)
  PROVE  BooksInv'
<1> DEFINE r == desk[d].receipt
<1>1. /\ UNCHANGED <<issued, ledger, closer, closures, window, cut>>
      /\ desk[d].pc = "filing" /\ r \in Receipts
  BY DeskFields DEF FileDocument, zVars, history, Types
<1>2. /\ docs'[r].state = "ISSUED" /\ docs'[r].key = desk[d].key
      /\ \A q \in Receipts \ {r} : docs'[q] = docs[q]
  BY <1>1 DEF FileDocument, Types
<1>3. /\ desk'[d].pc = "idle"
      /\ \A e \in Desks \ {d} : desk'[e] = desk[e]
  BY DeskMakes DEF FileDocument, Types
<1>4. Writers' = Writers
  BY <1>1 DEF Writers
<1>5. \A date \in Dates : OfDate[date] \subseteq OfDate'[date]
  BY <1>1, <1>2, <1>3 DEF OfDate
<1>6. BelongInv'
  BY <1>1, <1>4, <1>5, PotDates DEF BooksInv, BelongInv
<1>7. Recorded' \subseteq Recorded
  BY <1>1, <1>2, <1>3 DEF Recorded, Filed
<1>8. KeptInv'
  BY <1>1, <1>4, <1>7 DEF BooksInv, KeptInv, TakingsLostOnlyWhileClosing, Archived
<1>9. ApartInv'
  BY <1>1, <1>4 DEF BooksInv, ApartInv, CountedTwiceOnlyByOverlap
<1> QED  BY <1>6, <1>8, <1>9 DEF BooksInv

\* A document is voided: it keeps its session.
LEMMA VoidBooks ==
  ASSUME Types, BooksInv, NEW r \in Receipts,
         VoidDocument(r) \/ \E t \in Tables : VoidAndRestore(r, t)
  PROVE  BooksInv'
<1>1. /\ UNCHANGED <<issued, ledger, closer, closures, window, cut, desk>>
      /\ docs[r].state = "ISSUED" /\ docs' = [docs EXCEPT ![r].state = "VOIDED"]
  BY DEF VoidDocument, VoidAndRestore, zVars, history
<1>2. \A x \in Doc : [x EXCEPT !.state = "VOIDED"].key = x.key
                     /\ [x EXCEPT !.state = "VOIDED"].state = "VOIDED"
  BY DEF Doc
<1>3. docs'[r] = [docs[r] EXCEPT !.state = "VOIDED"] /\ docs[r] \in Doc
  BY <1>1 DEF Types
<1>4. \A q \in Receipts : /\ docs'[q].key = docs[q].key
                          /\ docs'[q].state = "NONE" <=> docs[q].state = "NONE"
  BY <1>1, <1>2, <1>3 DEF Types
<1>5. Writers' = Writers
  BY <1>1 DEF Writers
<1>6. \A date \in Dates : OfDate[date] \subseteq OfDate'[date]
  BY <1>1, <1>4 DEF OfDate
<1>7. BelongInv'
  BY <1>1, <1>5, <1>6, PotDates DEF BooksInv, BelongInv
<1>8. Recorded' = Recorded
  BY <1>1, <1>4 DEF Recorded, Filed
<1>9. KeptInv'
  BY <1>1, <1>5, <1>8 DEF BooksInv, KeptInv, TakingsLostOnlyWhileClosing, Archived
<1>10. ApartInv'
  BY <1>1, <1>5 DEF BooksInv, ApartInv, CountedTwiceOnlyByOverlap
<1> QED  BY <1>7, <1>9, <1>10 DEF BooksInv

\* A closure reads the totals of the business date.
LEMMA ReadBooks ==
  ASSUME Types, BooksInv, NEW c \in Closers, CompleteRead(c)
  PROVE  BooksInv'
<1> DEFINE day == CurrentBusinessDate
<1>1. /\ UNCHANGED <<issued, ledger, docs, desk, closures, window, cut>>
      /\ day \in Dates
  BY DateIsADate DEF CompleteRead, moneyVars, history
<1>2. /\ closer'[c].date = day /\ closer'[c].total = ledger[day]
      /\ closer'[c].readAt = Len(closures)
      /\ \A e \in Closers \ {c} : closer'[e] = closer[e]
  BY DEF CompleteRead, Types
<1> HIDE DEF day
<1>3. Writers' \subseteq Writers \cup {c} /\ Writers' \subseteq Closers
  BY <1>2 DEF Writers
<1>4. \A date \in Dates : OfDate[date] \subseteq OfDate'[date]
  BY <1>1 DEF OfDate
<1>5. BelongInv'
  <2>1. ASSUME NEW e \in Writers' PROVE closer'[e].total \subseteq OfDate'[closer'[e].date]
    <3>1. CASE e = c
      BY <1>1, <1>2, <1>4, <3>1 DEF BooksInv, BelongInv
    <3>2. CASE e # c
      BY <1>2, <1>3, <1>4, <3>2, PotDates DEF BooksInv, BelongInv
    <3> QED  BY <3>1, <3>2
  <2> QED  BY <1>1, <1>4, <2>1, PotDates DEF BooksInv, BelongInv
<1>6. Recorded' = Recorded
  BY <1>1 DEF Recorded, Filed
<1>7. KeptInv'
  <2>1. ASSUME NEW e \in Writers'
        PROVE  ledger[closer'[e].date] \subseteq closer'[e].total \cup window
    <3>1. CASE e = c
      BY <1>2, <3>1
    <3>2. CASE e # c
      BY <1>2, <1>3, <3>2 DEF BooksInv, KeptInv
    <3> QED  BY <3>1, <3>2
  <2> QED  BY <1>1, <1>6, <2>1 DEF BooksInv, KeptInv, TakingsLostOnlyWhileClosing, Archived
<1>8. ApartInv'
  <2>1. ASSUME NEW e \in Writers'
        PROVE  /\ \A date \in Dates \ {closer'[e].date} :
                    closer'[e].total \cap ledger[date] = {}
               /\ closer'[e].readAt <= Len(closures)
               /\ \A i \in DOMAIN closures :
                    i <= closer'[e].readAt => closures[i].total \cap closer'[e].total = {}
    <3>1. CASE e = c
      <4>1. Len(closures) \in Nat
        BY DEF Types
      <4> QED  BY <1>1, <1>2, <3>1, <4>1 DEF BooksInv, ApartInv
    <3>2. CASE e # c
      BY <1>2, <1>3, <3>2 DEF BooksInv, ApartInv
    <3> QED  BY <3>1, <3>2
  <2> QED  BY <1>1, <2>1 DEF BooksInv, ApartInv, CountedTwiceOnlyByOverlap
<1> QED  BY <1>5, <1>7, <1>8 DEF BooksInv

\* A closure clears the ledger of its date and is archived with what it read.
LEMMA ClearBooks ==
  ASSUME Types, BooksInv, NEW c \in Closers, CompleteClear(c)
  PROVE  BooksInv'
<1> DEFINE row == [date |-> closer[c].date, z |-> closer[c].z,
                   total |-> closer[c].total, zAt |-> closer[c].zAt,
                   readAt |-> closer[c].readAt]
           n == Len(closures) + 1
<1>1. /\ UNCHANGED <<issued, docs, desk, window, cut>>
      /\ closures' = Append(closures, row)
      /\ ledger' = [ledger EXCEPT ![closer[c].date] = {}]
  BY DEF CompleteClear, ClearLedger, history
<1>2. c \in Writers /\ closer[c].date \in Dates
  BY CloserFields DEF CompleteClear, Writers, Types
<1>3. /\ row.date = closer[c].date /\ row.total = closer[c].total
      /\ row.readAt = closer[c].readAt
  OBVIOUS
<1> HIDE DEF row
<1>4. /\ n \in Nat /\ n = Len(closures) + 1 /\ DOMAIN closures = 1 .. Len(closures)
      /\ DOMAIN closures' = DOMAIN closures \cup {n} /\ closures'[n] = row
      /\ \A i \in DOMAIN closures : closures'[i] = closures[i] /\ i < n
      /\ Len(closures) \in Nat /\ Len(closures') = n
  BY <1>1 DEF Types
<1> HIDE DEF n
<1>5. /\ ledger'[closer[c].date] = {}
      /\ \A date \in Dates \ {closer[c].date} : ledger'[date] = ledger[date]
  BY <1>1, <1>2 DEF Types
<1>6. Writers' \subseteq Writers /\ \A e \in Writers' : closer'[e] = closer[e]
  BY DEF CompleteClear, Writers, Types
<1>7. \A date \in Dates : OfDate[date] \subseteq OfDate'[date]
  BY <1>1 DEF OfDate
<1>8. BelongInv'
  <2>1. \A date \in Dates : ledger'[date] \subseteq OfDate'[date]
    BY <1>5, <1>7 DEF BooksInv, BelongInv
  <2>2. \A e \in Writers' : closer'[e].total \subseteq OfDate'[closer'[e].date]
    BY <1>6, <1>7, PotDates DEF BooksInv, BelongInv
  <2>3. row.total \subseteq OfDate'[row.date]
    BY <1>2, <1>3, <1>7 DEF BooksInv, BelongInv
  <2>4. \A i \in DOMAIN closures' : closures'[i].total \subseteq OfDate'[closures'[i].date]
    BY <1>4, <1>7, <2>3, PotDates DEF BooksInv, BelongInv
  <2> QED  BY <2>1, <2>2, <2>4 DEF BelongInv
<1>9. Archived' = Archived \cup closer[c].total
  BY <1>3, <1>4 DEF Archived
<1>10. KeptInv'
  <2>1. Recorded' = Recorded
    BY <1>1 DEF Recorded, Filed
  <2>2. ledger[closer[c].date] \subseteq closer[c].total \cup window
    BY <1>2 DEF BooksInv, KeptInv
  <2>3. \A date \in Dates : ledger[date] \subseteq ledger'[date] \cup closer[c].total \cup window
    BY <1>5, <2>2
  <2>4. TakingsLostOnlyWhileClosing'
    BY <1>1, <1>9, <2>1, <2>3 DEF BooksInv, KeptInv, TakingsLostOnlyWhileClosing
  <2>5. \A e \in Writers' : closer'[e].date \in Dates
    BY <1>6, CloserFields DEF Writers, Types
  <2>6. \A e \in Writers' : ledger'[closer'[e].date] \subseteq closer'[e].total \cup window'
    BY <1>1, <1>5, <1>6, <2>5 DEF BooksInv, KeptInv
  <2> QED  BY <2>4, <2>6 DEF KeptInv
<1>11. ApartInv'
  <2>1. \A a, b \in Dates : a # b => ledger'[a] \cap ledger'[b] = {}
    BY <1>5 DEF BooksInv, ApartInv
  <2>2. \A date \in Dates : row.total \cap ledger'[date] = {}
    BY <1>2, <1>3, <1>5 DEF BooksInv, ApartInv
  <2>3. \A date \in Dates : \A i \in DOMAIN closures' : closures'[i].total \cap ledger'[date] = {}
    BY <1>4, <1>5, <2>2 DEF BooksInv, ApartInv
  <2>4. \A e \in Writers' : \A date \in Dates \ {closer'[e].date} :
          closer'[e].total \cap ledger'[date] = {}
    BY <1>5, <1>6 DEF BooksInv, ApartInv
  <2>5. ASSUME NEW e \in Writers'
        PROVE  /\ closer'[e].readAt <= Len(closures')
               /\ \A i \in DOMAIN closures' :
                    i <= closer'[e].readAt => closures'[i].total \cap closer'[e].total = {}
    <3>1. closer'[e] = closer[e] /\ e \in Writers /\ closer[e].readAt \in Nat
      BY <1>6, CloserFields DEF Writers, Types
    <3>2. closer[e].readAt <= Len(closures) /\ ~(n <= closer[e].readAt)
      BY <1>4, <3>1 DEF BooksInv, ApartInv
    <3> QED  BY <1>4, <3>1, <3>2 DEF BooksInv, ApartInv
  <2>6. CountedTwiceOnlyByOverlap'
    <3> SUFFICES ASSUME NEW i \in DOMAIN closures', NEW j \in DOMAIN closures',
                        i < j, closures'[i].total \cap closures'[j].total # {}
                 PROVE  closures'[j].readAt < i
      BY DEF CountedTwiceOnlyByOverlap
    <3>1. i \in DOMAIN closures /\ closures'[i] = closures[i] /\ i \in Nat
      BY <1>4
    <3>2. CASE j = n
      <4>1. closer[c].readAt \in Nat /\ closures[i].total \cap closer[c].total # {}
        BY <1>2, <1>3, <1>4, <3>1, <3>2, CloserFields DEF Writers, Types
      <4>2. ~(i <= closer[c].readAt)
        BY <1>2, <3>1, <4>1 DEF BooksInv, ApartInv
      <4> QED  BY <1>3, <1>4, <3>1, <3>2, <4>1, <4>2
    <3>3. CASE j # n
      BY <1>4, <3>1, <3>3 DEF BooksInv, ApartInv, CountedTwiceOnlyByOverlap
    <3> QED  BY <3>2, <3>3
  <2> QED  BY <2>1, <2>3, <2>4, <2>5, <2>6 DEF ApartInv
<1> QED  BY <1>8, <1>10, <1>11 DEF BooksInv

\* The power fails when the ledger is cleared and the closure is not archived.
LEMMA CutBooks ==
  ASSUME Types, BooksInv, NEW c \in Closers, CrashWhileClosing(c)
  PROVE  BooksInv'
<1>1. /\ UNCHANGED <<issued, docs, closures, window>>
      /\ ledger' = [ledger EXCEPT ![closer[c].date] = {}]
      /\ cut' = cut \cup ledger[closer[c].date]
      /\ \A d \in Desks : desk'[d].pc = "idle"
      /\ Writers' = {}
  BY DeskMakes, CloserMakes DEF CrashWhileClosing, ClearLedger, Restart, Writers
<1>2. closer[c].date \in Dates
  BY CloserFields DEF CrashWhileClosing, Types
<1>3. /\ ledger'[closer[c].date] = {}
      /\ \A date \in Dates \ {closer[c].date} : ledger'[date] = ledger[date]
  BY <1>1, <1>2 DEF Types
<1>4. \A date \in Dates : OfDate[date] \subseteq OfDate'[date]
  BY <1>1 DEF OfDate
<1>5. BelongInv'
  BY <1>1, <1>3, <1>4, PotDates DEF BooksInv, BelongInv
<1>6. KeptInv'
  <2>1. Recorded' \subseteq Recorded
    BY <1>1 DEF Recorded, Filed
  <2>2. \A date \in Dates : ledger[date] \subseteq ledger'[date] \cup cut'
    BY <1>1, <1>3
  <2>3. TakingsLostOnlyWhileClosing'
    BY <1>1, <2>1, <2>2 DEF BooksInv, KeptInv, TakingsLostOnlyWhileClosing, Archived
  <2> QED  BY <1>1, <2>3 DEF KeptInv
<1>7. ApartInv'
  BY <1>1, <1>3 DEF BooksInv, ApartInv, CountedTwiceOnlyByOverlap
<1> QED  BY <1>5, <1>6, <1>7 DEF BooksInv

LEMMA BooksInit == Init => BooksInv
<1> SUFFICES ASSUME Init PROVE BooksInv
  OBVIOUS
<1>1. /\ \A date \in Dates : ledger[date] = {}
      /\ closures = <<>> /\ DOMAIN closures = {} /\ Writers = {}
  BY CloserMakes DEF Init, Writers
<1>2. Recorded = {}
  BY DeskMakes, DocMakes DEF Init, Recorded, Filed
<1> QED
  BY <1>1, <1>2 DEF BooksInv, BelongInv, KeptInv, ApartInv, TakingsLostOnlyWhileClosing,
                    CountedTwiceOnlyByOverlap

LEMMA BooksStep == Types /\ FileInv /\ BooksInv /\ [Next]_vars => BooksInv'
  BY BooksSteps, QuietBooks, RecordBooks, FileBooks, VoidBooks, ReadBooks, ClearBooks, CutBooks

LEMMA BooksAlways == Spec => [](Types /\ FileInv /\ BooksInv)
<1>1. Init => Types /\ FileInv /\ BooksInv
  BY TypesInit, BooksInit
<1>2. Types /\ FileInv /\ BooksInv /\ [Next]_vars => (Types /\ FileInv /\ BooksInv)'
  BY TypesStep, BooksStep
<1> QED  BY <1>1, <1>2, PTL DEF Spec

\* No receipt that was recorded leaves the books, but in the two ways
\* closure.ts has of losing one: recorded while the report is written, or a
\* power failure between the clearing and the archive.
THEOREM NothingElseIsLost == Spec => []TakingsLostOnlyWhileClosing
<1>1. BooksInv => TakingsLostOnlyWhileClosing
  BY DEF BooksInv, KeptInv
<1> QED  BY <1>1, BooksAlways, PTL

\* No receipt is counted by two closures, unless the later one had read its
\* totals before the earlier one was archived.
THEOREM NothingElseIsCountedTwice == Spec => []CountedTwiceOnlyByOverlap
<1>1. BooksInv => CountedTwiceOnlyByOverlap
  BY DEF BooksInv, ApartInv
<1> QED  BY <1>1, BooksAlways, PTL

\* A closure counts only receipts of sessions of its own date.
THEOREM ClosuresAreOfOneDay == Spec => []ClosureCountsItsSessions
<1>1. Types /\ BooksInv => ClosureCountsItsSessions
  BY PotDates DEF BooksInv, BelongInv, OfDate, ClosureCountsItsSessions, Filed
<1> QED  BY <1>1, BooksAlways, PTL

-----------------------------------------------------------------------------
(* The Z report *)

\* Until the process crashes: the Z report in memory has closed no day yet, nor
\* had, when it was read, the one of a closure under way.
ZInv ==
  crashes = 0 =>
    /\ zReport <= zCount
    /\ \A i \in DOMAIN closures : closures[i].z <= zCount
    /\ zReport # 0 => \A i \in DOMAIN closures : closures[i].z # zReport
    /\ \A c \in Closers : closer[c].pc \in {"precheck", "write"} =>
         /\ closer[c].z <= zCount /\ closer[c].zAt <= Len(closures)
         /\ \A i \in DOMAIN closures : i <= closer[c].zAt => closures[i].z # closer[c].z
    /\ ZClosesOneDay

LEMMA ZFields ==
  ASSUME Types
  PROVE  /\ zReport \in Nat /\ zCount \in Nat /\ crashes \in Nat
         /\ Len(closures) \in Nat /\ DOMAIN closures = 1 .. Len(closures)
         /\ \A i \in DOMAIN closures : closures[i].z \in Nat
         /\ \A c \in Closers : closer[c].pc \in {"precheck", "write"} =>
              closer[c].z \in Nat /\ closer[c].zAt \in Nat
<1>1. \A x \in Closure : x.z \in Nat
  BY CashDayAssumption DEF Closure
<1>2. \A x \in Closer : x.pc \in {"precheck", "write"} => x.z \in Nat /\ x.zAt \in Nat
  BY CloserFields, CashDayAssumption
<1> QED  BY <1>1, <1>2, CashDayAssumption DEF Types

\* A step that reads no Z report, archives nothing and can only drop one.
LEMMA ZQuiet ==
  ASSUME Types, ZInv, closures' = closures, zCount' = zCount, crashes' = crashes,
         zReport' \in {0, zReport},
         \A c \in Closers : closer'[c].pc \in {"precheck", "write"} =>
           /\ closer[c].pc \in {"precheck", "write"}
           /\ closer'[c].z = closer[c].z /\ closer'[c].zAt = closer[c].zAt
  PROVE  ZInv'
  BY ZFields DEF ZInv, ZClosesOneDay

LEMMA ZStep ==
  ASSUME Types, ZInv, [Next]_vars
  PROVE  ZInv'
<1> USE DEF moneyVars, zVars, faultVars, history
<1>1. closer \in [Closers -> Closer]
  BY DEF Types
<1>2. ASSUME \/ Tick
             \/ \E service \in Services : OpenCashSession(service)
             \/ \E k \in Keys : CloseCashSession(k)
             \/ \E t \in Tables : Seat(t)
             \/ \E d \in Desks, t \in Tables : PayStart(d, t)
             \/ \E d \in Desks : PayFail(d) \/ RecordPayment(d) \/ FileDocument(d) \/ FileFail(d)
             \/ \E r \in Receipts : VoidDocument(r)
             \/ \E r \in Receipts, t \in Tables : VoidAndRestore(r, t)
             \/ Save \/ UNCHANGED vars
      PROVE  ZInv'
  <2>1. UNCHANGED <<closures, zCount, crashes, zReport, closer>>
    BY <1>2 DEF Tick, OpenCashSession, CloseCashSession, Seat, PayStart, PayFail,
         RecordPayment, FileDocument, FileFail, VoidDocument, VoidAndRestore, Save, vars
  <2> QED  BY <2>1, ZQuiet
<1>3. ASSUME NEW c \in Closers,
             \/ ZReportStart(c) \/ ZReportFails(c) \/ CompleteRefused(c)
             \/ CompleteSend(c) \/ CompleteFail(c)
      PROVE  ZInv'
  <2>1. /\ UNCHANGED <<closures, zCount, crashes>> /\ zReport' \in {0, zReport}
        /\ closer'[c].pc \notin {"precheck", "write"}
        /\ \A e \in Closers \ {c} : closer'[e] = closer[e]
    BY <1>1, <1>3, CloserMakes
       DEF ZReportStart, ZReportFails, CompleteRefused, CompleteSend, CompleteFail
  <2> QED  BY <2>1, ZQuiet
<1>4. ASSUME NEW c \in Closers, ZReportIssued(c) PROVE ZInv'
  <2>1. /\ UNCHANGED <<closures, crashes>> /\ zCount' = zCount + 1 /\ zReport' = zCount + 1
        /\ closer'[c].pc \notin {"precheck", "write"}
        /\ \A e \in Closers \ {c} : closer'[e] = closer[e]
    BY <1>1, <1>4, CloserMakes DEF ZReportIssued
  <2>2. crashes = 0 => \A i \in DOMAIN closures :
          closures[i].z # zCount + 1 /\ closures[i].z <= zCount + 1
    BY ZFields DEF ZInv
  <2>3. crashes = 0 => \A e \in Closers : closer'[e].pc \in {"precheck", "write"} =>
          closer'[e].z <= zCount + 1
    BY <2>1, ZFields DEF ZInv
  <2> QED  BY <2>1, <2>2, <2>3, ZFields DEF ZInv, ZClosesOneDay
<1>5. ASSUME NEW c \in Closers, CompleteStart(c) PROVE ZInv'
  <2>1. /\ UNCHANGED <<closures, crashes, zCount, zReport>> /\ zReport # 0
        /\ closer'[c].z = zReport /\ closer'[c].zAt = Len(closures)
        /\ \A e \in Closers \ {c} : closer'[e] = closer[e]
    BY <1>1, <1>5 DEF CompleteStart
  <2> QED  BY <2>1, ZFields DEF ZInv, ZClosesOneDay
<1>6. ASSUME NEW c \in Closers, CompleteRead(c) PROVE ZInv'
  <2>1. /\ UNCHANGED <<closures, crashes, zCount, zReport>> /\ closer[c].pc = "precheck"
        /\ closer'[c].z = closer[c].z /\ closer'[c].zAt = closer[c].zAt
        /\ \A e \in Closers \ {c} : closer'[e] = closer[e]
    BY <1>1, <1>6 DEF CompleteRead
  <2> QED  BY <2>1, ZQuiet
<1>7. ASSUME NEW c \in Closers, CompleteClear(c) PROVE ZInv'
  <2> DEFINE row == [date |-> closer[c].date, z |-> closer[c].z,
                     total |-> closer[c].total, zAt |-> closer[c].zAt,
                     readAt |-> closer[c].readAt]
             n == Len(closures) + 1
  <2>1. /\ UNCHANGED <<crashes, zCount>> /\ zReport' = 0
        /\ closures' = Append(closures, row) /\ closer[c].pc = "write"
        /\ closer'[c].pc \notin {"precheck", "write"}
        /\ \A e \in Closers \ {c} : closer'[e] = closer[e]
    BY <1>1, <1>7, CloserMakes DEF CompleteClear
  <2>2. row.z = closer[c].z /\ row.zAt = closer[c].zAt
    OBVIOUS
  <2> HIDE DEF row
  <2>3. /\ n \in Nat /\ n = Len(closures) + 1 /\ Len(closures) \in Nat
        /\ DOMAIN closures = 1 .. Len(closures)
        /\ DOMAIN closures' = DOMAIN closures \cup {n} /\ closures'[n] = row
        /\ \A i \in DOMAIN closures : closures'[i] = closures[i] /\ i < n
        /\ Len(closures') = n
    BY <2>1 DEF Types
  <2> HIDE DEF n
  <2> SUFFICES ASSUME crashes = 0 PROVE ZInv'
    BY <2>1 DEF ZInv
  <2>4. /\ closer[c].z \in Nat /\ closer[c].zAt \in Nat /\ closer[c].z <= zCount
        /\ \A i \in DOMAIN closures : i <= closer[c].zAt => closures[i].z # closer[c].z
    BY <2>1, ZFields DEF ZInv
  <2>5. \A i \in DOMAIN closures' : closures'[i].z <= zCount
    BY <2>2, <2>3, <2>4 DEF ZInv
  <2>6. ASSUME NEW e \in Closers, closer'[e].pc \in {"precheck", "write"}
        PROVE  /\ closer'[e].z <= zCount /\ closer'[e].zAt <= Len(closures')
               /\ \A i \in DOMAIN closures' :
                    i <= closer'[e].zAt => closures'[i].z # closer'[e].z
    <3>1. closer'[e] = closer[e] /\ closer[e].zAt \in Nat
      BY <2>1, <2>6, ZFields
    <3>2. closer[e].zAt <= Len(closures) /\ ~(n <= closer[e].zAt)
      BY <2>3, <2>6, <3>1 DEF ZInv
    <3> QED  BY <2>3, <2>6, <3>1, <3>2 DEF ZInv
  <2>7. ZClosesOneDay'
    <3> SUFFICES ASSUME NEW i \in DOMAIN closures', NEW j \in DOMAIN closures',
                        i < j, closures'[i].z = closures'[j].z
                 PROVE  closures'[j].zAt < i
      BY DEF ZClosesOneDay
    <3>1. i \in DOMAIN closures /\ closures'[i] = closures[i] /\ i \in Nat
      BY <2>3
    <3>2. CASE j = n
      BY <2>2, <2>3, <2>4, <3>1, <3>2
    <3>3. CASE j # n
      BY <2>1, <2>3, <3>1, <3>3 DEF ZInv, ZClosesOneDay
    <3> QED  BY <3>2, <3>3
  <2> QED  BY <2>1, <2>3, <2>5, <2>6, <2>7, ZFields DEF ZInv
<1>8. ASSUME Crash \/ \E c \in Closers : CrashWhileClosing(c) PROVE ZInv'
  <2>1. crashes' = crashes + 1
    BY <1>8 DEF Crash, CrashWhileClosing, Restart
  <2> QED  BY <2>1, ZFields DEF ZInv
<1> QED  BY <1>2, <1>3, <1>4, <1>5, <1>6, <1>7, <1>8 DEF Next

\* A Z report closes one day, but for two closures that overlap and for a crash,
\* which brings the Z report last saved back (closure-state.ts).
THEOREM ZReportsAreUsedOnce == Spec => []ZClosesOneDay
<1>1. Init => Types /\ FileInv /\ ZInv
  <2>1. Init => ZInv
    BY CloserMakes DEF Init, ZInv, ZClosesOneDay
  <2> QED  BY <2>1, TypesInit
<1>2. Types /\ FileInv /\ ZInv /\ [Next]_vars => (Types /\ FileInv /\ ZInv)'
  BY TypesStep, ZStep
<1>3. Types /\ ZInv => ZClosesOneDay
  BY ZFields DEF ZInv, ZClosesOneDay
<1> QED  BY <1>1, <1>2, <1>3, PTL DEF Spec
=============================================================================
