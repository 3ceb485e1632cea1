---------------------------- MODULE TableRuntime ----------------------------
(***************************************************************************)
(* The tables of the room as every device shares them: locks, guests,      *)
(* unions of tables, accounts moved from table to table (services/edge-api:*)
(* lib/runtime.ts, routes/table-transfer.ts, the table handlers of         *)
(* routes/orders.ts and ws.ts, openTableWithGuests of lib/reservations.ts, *)
(* the deletion of tables and rooms of routes/sala.ts, the tables a daily  *)
(* closure sets free in routes/closure.ts).                                *)
(*                                                                         *)
(* One action is one handler: none of them awaits between its first read   *)
(* of the room and its last write, but the closure, which checks the room, *)
(* writes the report of the day, and clears the room.  A draft and the     *)
(* orders sent are sets of lines; prints and the devices' copies of a      *)
(* draft are in OrderFlow, splits and payments of part of a bill in        *)
(* TablePayment.  A pending payment request stands here for everything     *)
(* that blocks a transfer.                                                 *)
(*                                                                         *)
(* The whole state is in the snapshot that lib/runtime-persistence.ts      *)
(* writes, so a crash leads to a state a Restart of some earlier state     *)
(* leads to: Restart covers both.                                          *)
(***************************************************************************)
EXTENDS Naturals, FiniteSets

CONSTANTS
  Tables,     \* physical tables
  Operators,  \* waiters and tills
  Lines,      \* bound: order lines alive at one time
  MaxOpen,    \* bound: tables in use when one more is opened
  MaxMerges,  \* bound: requests to unite tables
  MaxGone,    \* bound: tables deleted
  Nobody,
  NoTable

ASSUME TableRuntimeAssumption ==
  /\ MaxOpen \in Nat
  /\ MaxMerges \in Nat
  /\ MaxGone \in Nat
  /\ Nobody \notin Operators
  /\ NoTable \notin Tables

VARIABLES
  rt,      \* rt[t]: the TableRuntime record of t
  draft,   \* draft[t]: lines of the order not yet sent
  sent,    \* sent[t]: lines of the orders sent
  asked,   \* tables with a pending payment request
  merges,  \* number of requests to unite tables
  gone,    \* tables deleted; what the runtime holds of them stays
  closing, \* a daily closure passed its pre-check and writes its report
  placed,  \* History: lines ordered and neither withdrawn, paid nor wiped
  loose    \* History: those of them a payment of the table's host left hidden,
           \*   or that were ordered on a deleted table or while closing

orderVars == <<draft, sent, placed, loose>>
roomVars == <<gone, closing>>
vars == <<rt, orderVars, asked, merges, roomVars>>

Statuses == {"FREE", "LOCKED", "OCCUPIED", "BILL_REQUESTED"}

\* by: lockedBy; guests: some guests are seated (guests, chargedGuests);
\* into: mergedIntoTableId; linked: linkedTableIds.
Record == [status : Statuses, by : Operators \cup {Nobody}, guests : BOOLEAN,
           into : Tables \cup {NoTable}, linked : SUBSET Tables]

\* What { tableId, status: "FREE" } leaves of a record.
FreeTable == [status |-> "FREE", by |-> Nobody, guests |-> FALSE,
              into |-> NoTable, linked |-> {}]

-----------------------------------------------------------------------------
(* What the handlers read and the records they write. *)

LinesOf(t) == draft[t] \cup sent[t]

\* Bound: a table in use, or one that may be opened.
MayOpen(t) ==
  Cardinality({u \in Tables : rt[u].status # "FREE"} \cup {t}) <= MaxOpen

HostOf(t) == IF rt[t].into # NoTable THEN rt[t].into ELSE t

\* unionMemberIds
Members(t) == {HostOf(t)} \cup rt[HostOf(t)].linked

Unlocked(r, st) == [r EXCEPT !.status = st, !.by = Nobody]

\* setTableOccupied: the lock goes with it, a requested bill stays.
Occupied(r) ==
  IF r.status = "BILL_REQUESTED" THEN r ELSE Unlocked(r, "OCCUPIED")

Locked(r, o) == [r EXCEPT !.status = "LOCKED", !.by = o]

Seated(r, seated) == [r EXCEPT !.guests = @ \/ seated]

\* Mutant: only guests keep a table open.
ReleasedByGuests(r, hasLines) ==
  IF r.guests THEN Unlocked(r, "OCCUPIED") ELSE FreeTable

\* releaseLock of a table that has lines (or guests), and of one that has not.
Released(r, hasLines) ==
  IF hasLines \/ r.guests THEN Unlocked(r, "OCCUPIED") ELSE FreeTable

\* mergeRuntimeGuests: the record of the target; its lock stays.
WithGuestsOf(source, target) ==
  [target EXCEPT !.guests = @ \/ source.guests,
                 !.status = IF @ = "BILL_REQUESTED" THEN @ ELSE "OCCUPIED"]

\* assertLockOverride: a table held by somebody else needs the PIN, and the
\* PIN takes its lock.
NeedsPin(o, t) == rt[t].by \notin {o, Nobody}
LockTaken(o, t, r) == IF NeedsPin(o, t) THEN Locked(r, o) ELSE r

\* What transferTableAccount asks of the two tables first.
MayMove(u, t) == u # t /\ {u, t} \cap asked = {}

\* assertPhysicalTable
Exist(tables) == tables \cap gone = {}

Init ==
  /\ rt = [t \in Tables |-> FreeTable]
  /\ draft = [t \in Tables |-> {}]
  /\ sent = [t \in Tables |-> {}]
  /\ asked = {}
  /\ merges = 0
  /\ gone = {}
  /\ closing = FALSE
  /\ placed = {} /\ loose = {}

-----------------------------------------------------------------------------
(* Locks and guests *)

\* requestLock, with or without guests: granted on a table nobody holds, to
\* its holder, after the timeout, or with a PIN.
RequestLock(o, t, seated) ==
  /\ MayOpen(t)
  /\ rt' = [rt EXCEPT ![t] = Seated(Locked(@, o), seated)]
  /\ UNCHANGED <<orderVars, asked, merges, roomVars>>

ReleaseLock(o, t) ==
  /\ rt[t].by \in {o, Nobody}
  /\ rt' = [rt EXCEPT ![t] = Released(@, LinesOf(t) # {})]
  /\ UNCHANGED <<orderVars, asked, merges, roomVars>>

\* openTableWithGuests: a reservation arrives on a table that is FREE, which
\* a table united to another one is too.
OpenTable(t) ==
  /\ MayOpen(t)
  /\ rt[t].status = "FREE"
  /\ rt' = [rt EXCEPT ![t] = [FreeTable EXCEPT !.status = "OCCUPIED",
                                               !.guests = TRUE]]
  /\ UNCHANGED <<orderVars, asked, merges, roomVars>>

\* PATCH /tables/:id/guests, for t or a table of its group (guests given for
\* several tables at once are as many of these steps).
UpdateGuests(t, u) ==
  /\ t \notin gone
  /\ rt[t].status # "FREE" \/ rt[t].into # NoTable
  /\ u \in Members(t) \cup {t}
  /\ rt' = [rt EXCEPT ![u].guests = TRUE]
  /\ UNCHANGED <<orderVars, asked, merges, roomVars>>

-----------------------------------------------------------------------------
(* Orders and payment *)

\* The history of the lines that stay.
Keep(lines) ==
  /\ placed' = placed \cap lines
  /\ loose' = loose \cap lines

\* POST /api/orders with one more line: nobody asks who holds the table, nor
\* whether there is one.
AddLine(t, l) ==
  /\ MayOpen(t)
  /\ l \notin placed
  /\ draft' = [draft EXCEPT ![t] = @ \cup {l}]
  /\ placed' = placed \cup {l}
  /\ loose' = IF closing \/ t \in gone THEN loose \cup {l} ELSE loose
  /\ rt' = [rt EXCEPT ![t] = Occupied(@)]
  /\ UNCHANGED <<sent, asked, merges, roomVars>>

\* POST /api/orders with one line less; a draft has at least one.
WithdrawLine(t, l) ==
  /\ l \in draft[t] /\ draft[t] # {l}
  /\ draft' = [draft EXCEPT ![t] = @ \ {l}]
  /\ Keep(Lines \ {l})
  /\ rt' = [rt EXCEPT ![t] = Occupied(@)]
  /\ UNCHANGED <<sent, asked, merges, roomVars>>

\* POST /orders/:id/submit: o, who wrote the draft, takes the table.
Submit(o, t) ==
  /\ draft[t] # {}
  /\ sent' = [sent EXCEPT ![t] = @ \cup draft[t]]
  /\ draft' = [draft EXCEPT ![t] = {}]
  /\ rt' = [rt EXCEPT ![t] = Locked(Occupied(@), o)]
  /\ UNCHANGED <<placed, loose, asked, merges, roomVars>>

HasBill(t) == LinesOf(t) # {} \/ \E u \in Members(t) : rt[u].guests

\* Bound: requests pending on one table at a time.
MayAsk(t) == asked \subseteq {t}

RequestPayment(t) ==
  /\ t \notin gone
  /\ HasBill(t)
  /\ MayAsk(t)
  /\ asked' = asked \cup {t}
  /\ rt' = [rt EXCEPT ![t] = Unlocked(@, "BILL_REQUESTED")]
  /\ UNCHANGED <<orderVars, merges, roomVars>>

RejectRequest(t) ==
  /\ t \in asked
  /\ asked' = asked \ {t}
  /\ UNCHANGED <<rt, orderVars, merges, roomVars>>

\* clearTableOrders, setTableFree: the tables united to t become FREE, their
\* orders stay.
Pay(t) ==
  /\ HasBill(t)
  /\ draft' = [draft EXCEPT ![t] = {}]
  /\ sent' = [sent EXCEPT ![t] = {}]
  /\ placed' = placed \ LinesOf(t)
  /\ loose' = (loose \cup UNION {LinesOf(u) : u \in rt[t].linked}) \ LinesOf(t)
  /\ asked' = asked \ {t}
  /\ rt' = [u \in Tables |-> IF u \in {t} \cup rt[t].linked THEN FreeTable
                             ELSE rt[u]]
  /\ UNCHANGED <<merges, roomVars>>

-----------------------------------------------------------------------------
(* Transfers and unions *)

\* Mutant: the guests stay on the source, as in a union.
TransferAllKeepsGuests(o, u, t) ==
  /\ Exist({u, t})
  /\ MayMove(u, t)
  /\ LinesOf(u) # {} \/ rt[u].guests
  /\ draft' = [draft EXCEPT ![u] = {}, ![t] = @ \cup draft[u]]
  /\ sent' = [sent EXCEPT ![u] = {}, ![t] = @ \cup sent[u]]
  /\ rt' = [rt EXCEPT ![u] = [FreeTable EXCEPT !.guests = rt[u].guests],
                      ![t] = Occupied(@)]
  /\ UNCHANGED <<placed, loose, asked, merges, roomVars>>

\* transferTableAccount, all the account, or the guests of a table that has
\* no lines: then the lock of the target stays on an OCCUPIED table.
TransferAll(o, u, t) ==
  /\ Exist({u, t})
  /\ MayMove(u, t)
  /\ LinesOf(u) # {} \/ rt[u].guests
  /\ draft' = [draft EXCEPT ![u] = {}, ![t] = @ \cup draft[u]]
  /\ sent' = [sent EXCEPT ![u] = {}, ![t] = @ \cup sent[u]]
  /\ LET target == WithGuestsOf(rt[u], rt[t])
     IN  rt' = [rt EXCEPT ![u] = FreeTable,
                          ![t] = IF LinesOf(u) = {} THEN target
                                 ELSE Occupied(target)]
  /\ UNCHANGED <<placed, loose, asked, merges, roomVars>>

\* transferTableAccount of some of the lines; the guests stay.
TransferLines(o, u, t, moved) ==
  /\ Exist({u, t})
  /\ MayMove(u, t)
  /\ moved # {} /\ moved \subseteq LinesOf(u) /\ moved # LinesOf(u)
  /\ draft' = [draft EXCEPT ![u] = @ \ moved, ![t] = @ \cup (moved \cap draft[u])]
  /\ sent' = [sent EXCEPT ![u] = @ \ moved, ![t] = @ \cup (moved \cap sent[u])]
  /\ rt' = [rt EXCEPT ![u] = Occupied(LockTaken(o, u, @)), ![t] = Occupied(@)]
  /\ UNCHANGED <<placed, loose, asked, merges, roomVars>>

\* A transfer refused after the PIN: the lock of the source is taken.
TransferRefused(o, u, t) ==
  /\ Exist({u, t})
  /\ NeedsPin(o, u)
  /\ ~MayMove(u, t) \/ (LinesOf(u) = {} /\ ~rt[u].guests)
  /\ rt' = [rt EXCEPT ![u] = Locked(@, o)]
  /\ UNCHANGED <<orderVars, asked, merges, roomVars>>

\* The records once the accounts of the tables moved are on t: the guests
\* stay on their tables, a table without lines keeps even its lock.
Gathered(o, sources, moved, t) ==
  LET taken(u) == IF u \in sources THEN LockTaken(o, u, rt[u]) ELSE rt[u]
      isMoved(u) == IF LinesOf(u) = {} /\ rt[u].guests THEN taken(u)
                    ELSE [FreeTable EXCEPT !.guests = rt[u].guests]
      withLines == \E u \in moved : LinesOf(u) # {}
  IN  [u \in Tables |->
         CASE u \in moved -> isMoved(u)
           [] u = t /\ moved # {} /\ (withLines \/ rt[t].status = "FREE") ->
                Occupied(rt[t])
           [] OTHER -> taken(u)]

\* Mutant: a draft that comes takes the place of the draft of t.
OrdersReplaced(moved, t) ==
  LET come(of) == UNION {of[m] : m \in moved}
  IN  /\ draft' = [u \in Tables |->
                     IF u \in moved THEN {}
                     ELSE IF u = t /\ come(draft) # {} THEN come(draft)
                     ELSE draft[u]]
      /\ sent' = [u \in Tables |->
                    IF u \in moved THEN {}
                    ELSE IF u = t THEN sent[t] \cup come(sent) ELSE sent[u]]

\* The orders of the tables moved are orders of t.
OrdersGathered(moved, t) ==
  LET gather(of) == [u \in Tables |->
                       IF u \in moved THEN {}
                       ELSE IF u = t THEN of[t] \cup UNION {of[m] : m \in moved}
                       ELSE of[u]]
  IN  draft' = gather(draft) /\ sent' = gather(sent)

\* Mutant: the host is counted among the tables united on it.
UnitedInvolved(records, sources, t) ==
  [u \in Tables |->
     CASE u = t -> [records[t] EXCEPT !.linked = @ \cup sources \cup {t}]
       [] u \in sources -> [FreeTable EXCEPT !.into = t,
                                             !.guests = records[u].guests]
       [] OTHER -> records[u]]

\* registerTableUnion after the moves.
United(records, sources, t) ==
  [u \in Tables |->
     CASE u = t -> [records[t] EXCEPT !.linked = @ \cup sources]
       [] u \in sources -> [FreeTable EXCEPT !.into = t,
                                             !.guests = records[u].guests]
       [] OTHER -> records[u]]

\* POST /tables/merge, with the guests of every table or without.
Merge(o, sources, t, seated) ==
  /\ merges < MaxMerges /\ merges' = merges + 1
  /\ sources # {} /\ t \notin sources /\ Exist(sources \cup {t})
  /\ \A u \in sources : MayMove(u, t)
  /\ LET records == United(Gathered(o, sources, sources, t), sources, t)
     IN  rt' = [u \in Tables |->
                  IF seated /\ u \in sources \cup {t}
                  THEN [records[u] EXCEPT !.guests = TRUE] ELSE records[u]]
  /\ OrdersGathered(sources, t)
  /\ UNCHANGED <<placed, loose, asked, roomVars>>

\* A merge that stops at a table that cannot move: those before it have
\* moved, no union is registered, and the locks taken stay taken.
MergeStops(o, sources, moved, t) ==
  /\ merges < MaxMerges /\ merges' = merges + 1
  /\ sources # {} /\ t \notin sources /\ Exist(sources \cup {t})
  /\ moved \subseteq {u \in sources : MayMove(u, t)}
  /\ moved # sources
  /\ {u \in sources : MayMove(u, t)} # sources
  /\ rt' = Gathered(o, sources, moved, t)
  /\ OrdersGathered(moved, t)
  /\ UNCHANGED <<placed, loose, asked, roomVars>>

\* A merge refused at a source that is not there any more: the locks of
\* those before it are taken.
MergeRefused(o, before, t) ==
  /\ gone # {} /\ Exist(before \cup {t}) /\ t \notin before
  /\ \E u \in before : NeedsPin(o, u)
  /\ rt' = [u \in Tables |-> IF u \in before THEN LockTaken(o, u, rt[u])
                             ELSE rt[u]]
  /\ UNCHANGED <<orderVars, asked, merges, roomVars>>

-----------------------------------------------------------------------------
(* The room and the day *)

\* Mutant: a table in a waiter's hands may go.
DeleteUnlessOpen(doomed) ==
  /\ doomed # {} /\ Exist(doomed)
  /\ Cardinality(gone \cup doomed) <= MaxGone
  /\ \A t \in doomed : rt[t].status \in {"FREE", "LOCKED"}
  /\ gone' = gone \cup doomed
  /\ UNCHANGED <<rt, orderVars, asked, merges, closing>>

\* DELETE /api/tables/:id, or /api/rooms/:id with the tables of the room: a
\* table united to another one is FREE too.
DeleteTables(doomed) ==
  /\ doomed # {} /\ Exist(doomed)
  /\ Cardinality(gone \cup doomed) <= MaxGone
  /\ \A t \in doomed : rt[t].status = "FREE"
  /\ gone' = gone \cup doomed
  /\ UNCHANGED <<rt, orderVars, asked, merges, closing>>

\* Mutant: only OCCUPIED tables block the closure.
StartClosureUnlessOccupied ==
  /\ ~closing
  /\ \A t \in Tables : rt[t].status # "OCCUPIED"
  /\ asked = {}
  /\ closing' = TRUE
  /\ UNCHANGED <<rt, orderVars, asked, merges, gone>>

\* POST /closure/complete up to the files of the report: the pre-check asks
\* for every table the runtime knows, deleted or not.  Bound: one closure at
\* a time; closures that overlap are in CashDay.
StartClosure ==
  /\ ~closing
  /\ \A t \in Tables : rt[t].status = "FREE"
  /\ asked = {}
  /\ closing' = TRUE
  /\ UNCHANGED <<rt, orderVars, asked, merges, gone>>

\* The rest of it: the tables of the database lose their orders and requests
\* and are set free, those united to them with them; the others keep all.
EndClosure ==
  /\ closing /\ closing' = FALSE
  /\ draft' = [t \in Tables |-> IF t \in gone THEN draft[t] ELSE {}]
  /\ sent' = [t \in Tables |-> IF t \in gone THEN sent[t] ELSE {}]
  /\ Keep(UNION {LinesOf(t) : t \in gone})
  /\ asked' = asked \cap gone
  /\ LET kept == gone \ UNION {rt[t].linked : t \in Tables \ gone}
     IN  rt' = [t \in Tables |-> IF t \in kept THEN rt[t] ELSE FreeTable]
  /\ UNCHANGED <<merges, gone>>

\* Mutant: the lock goes and the status stays.
RestartForgetsHolders ==
  /\ rt' = [t \in Tables |-> [rt[t] EXCEPT !.by = Nobody]]
  /\ closing' = FALSE
  /\ UNCHANGED <<orderVars, asked, merges, gone>>

\* importRuntimeState: what was saved, without the locks; a closure that was
\* writing its report is cut.
Restart ==
  /\ rt' = [t \in Tables |->
              CASE rt[t].by = Nobody -> rt[t]
                [] rt[t].status = "LOCKED" -> Released(rt[t], LinesOf(t) # {})
                [] OTHER -> [rt[t] EXCEPT !.by = Nobody]]
  /\ closing' = FALSE
  /\ UNCHANGED <<orderVars, asked, merges, gone>>

-----------------------------------------------------------------------------

Transfers(o) ==
  \E u, t \in Tables :
    \/ TransferAll(o, u, t)
    \/ \E moved \in SUBSET LinesOf(u) : TransferLines(o, u, t, moved)
    \/ TransferRefused(o, u, t)

Merges(o) ==
  \E t \in Tables, sources \in SUBSET Tables :
    \/ \E seated \in BOOLEAN : Merge(o, sources, t, seated)
    \/ \E moved \in SUBSET sources : MergeStops(o, sources, moved, t)
    \/ MergeRefused(o, sources, t)

Next ==
  \/ \E o \in Operators : Transfers(o) \/ Merges(o)
  \/ \E o \in Operators, t \in Tables :
       \/ \E seated \in BOOLEAN : RequestLock(o, t, seated)
       \/ ReleaseLock(o, t)
       \/ Submit(o, t)
  \/ \E t \in Tables :
       \/ OpenTable(t)
       \/ \E u \in Tables : UpdateGuests(t, u)
       \/ \E l \in Lines : AddLine(t, l) \/ WithdrawLine(t, l)
       \/ RequestPayment(t)
       \/ RejectRequest(t)
       \/ Pay(t)
  \/ \E doomed \in SUBSET Tables : DeleteTables(doomed)
  \/ StartClosure
  \/ EndClosure
  \/ Restart

Spec == Init /\ [][Next]_vars
-----------------------------------------------------------------------------
(* Properties *)

\* Types of the variables; no table is united on itself.
TypeOK ==
  /\ rt \in [Tables -> Record]
  /\ \A t \in Tables : t \notin rt[t].linked
  /\ draft \in [Tables -> SUBSET Lines]
  /\ sent \in [Tables -> SUBSET Lines]
  /\ asked \subseteq Tables
  /\ merges \in 0 .. MaxMerges
  /\ gone \subseteq Tables
  /\ closing \in BOOLEAN
  /\ placed \subseteq Lines /\ loose \subseteq placed

\* However accounts are moved, split over two tables, merged and stopped half
\* way, a line ordered is on exactly one table, once, until it is withdrawn
\* or paid (transferTableAccount, mergeTablesInto).
LinesKept ==
  /\ placed = UNION {LinesOf(t) : t \in Tables}
  /\ \A t, u \in Tables : t # u => LinesOf(t) \cap LinesOf(u) = {}
  /\ \A t \in Tables : draft[t] \cap sent[t] = {}

\* A table is never left LOCKED by nobody, which requestLock refuses to
\* everybody and no timeout ends: not by a transfer, a union, a restart.
LockedHasHolder ==
  \A t \in Tables : rt[t].status = "LOCKED" => rt[t].by # Nobody

Hidden(t) == rt[t].status = "FREE" /\ LinesOf(t) # {}

\* Who may hide an account in one step: the host of its union, paid or closed.
HiddenByHost ==
  \A t \in Tables :
    Hidden(t)' /\ ~Hidden(t) =>
      \E h \in Tables \ {t} : t \in rt[h].linked /\ (Pay(h) \/ EndClosure)

\* An account open on a table the room shows as FREE (and the closure of the
\* day counts as settled) comes only from freeing the table it was united to,
\* paid or cleared at the end of the day (clearTableUnion).
HiddenOnlyByHost == [][HiddenByHost]_vars

\* What the closure of the day wipes, unpaid, is what the payment of a united
\* table left hidden, and what was ordered after the pre-check, or on a table
\* deleted before (complete of routes/closure.ts, whose await of the report's
\* files lies between its check of the room and its clearing).
ClosureWipesOnlyStrays ==
  [][EndClosure => placed \ placed' \subseteq loose]_vars

\* Whoever deletes tables takes no account with them: the orders of a deleted
\* table, which no screen shows any more, were hidden before, or came after.
DeletedTablesHadNoOrders ==
  \A t \in gone : LinesOf(t) \subseteq loose

GuestsLeft(t) ==
  rt[t].status = "FREE" /\ rt[t].guests /\ rt[t].into = NoTable

\* linkedTableIds and mergedIntoTableId are the two ends of one relation; a merge
\* that stops half way, and a merge of hosts, can break it.
UnionConsistent ==
  \A t, h \in Tables : (rt[t].into = h) <=> (t \in rt[h].linked)

\* Guests written on a FREE table that is in no union, for the next account
\* of that table to be charged, come only from a merge that stopped half way
\* (transferTableAccount with preserveMemberGuests, mergeTablesInto), as long
\* as the two ends of the unions agree.
GuestsLeftOnlyByHalfMerge ==
  [][\A t \in Tables :
       GuestsLeft(t)' /\ ~GuestsLeft(t) /\ UnionConsistent =>
         \E o \in Operators, u \in Tables :
           \E sources \in SUBSET Tables : \E moved \in SUBSET sources :
             t \in moved /\ MergeStops(o, sources, moved, u)]_vars
=============================================================================
