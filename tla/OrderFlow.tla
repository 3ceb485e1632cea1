----------------------------- MODULE OrderFlow -----------------------------
(***************************************************************************)
(* The comanda of one table, from the devices of the waiters to the        *)
(* kitchen (services/edge-api: routes/orders.ts, lib/runtime.ts,           *)
(* lib/call-course.ts;                                                     *)
(* packages/comanda/src/useComanda.ts; apps/handheld-web/src/App.tsx).     *)
(*                                                                         *)
(* A device copies the draft when it is given the lock, works on its copy  *)
(* and writes it back whole.  To send is two requests: one that writes the *)
(* draft, one that submits it; the second prints before it marks the order *)
(* as sent.  One action is one request, or the part of a handler before or *)
(* after its prints.  A device goes on believing in the lock it was given: *)
(* it is told of nobody else's.                                            *)
(*                                                                         *)
(* The orders are in the snapshot of the server and survive a restart;     *)
(* handlers, discount tokens and locks do not.                             *)
(***************************************************************************)
EXTENDS Naturals, FiniteSets

CONSTANTS
  Devices,     \* handhelds and tills, one operator each
  Lines,       \* bound: line ids (UUIDs) alive at one time
  Orders,      \* bound: order ids alive at one time
  Held,        \* lines of a course that waits for its call
  Discounted,  \* lines with a discount that needs a token
  MaxVoids,    \* bound: lines of the table voided
  Nobody,
  NoOrder

ASSUME OrderFlowAssumption ==
  /\ Held \subseteq Lines /\ Discounted \subseteq Lines
  /\ MaxVoids \in Nat
  /\ Nobody \notin Devices /\ NoOrder \notin Orders

VARIABLES
  holder,   \* lockedBy
  given,    \* history: the lock was given by the end of a submit
  order,    \* order[o]: a draft, an order sent, or nothing
  voided,   \* <<o, l>>: line l of order o is voided
  kds,      \* kds[o]: lines the kitchen display shows for o
  hold,     \* hold[o]: the ticket of the held course of o waits
  tokens,   \* lines whose discount token is valid
  dev,      \* dev[d]: the screen of d, and the handler of its request
  \* History: only properties read these.
  behind,   \* devices with a copy of the draft older than another's write
  printed,  \* lines that went to the printers
  twice,    \* discounted lines that went there more than once
  slipped,  \* lines written into an order while it was printing
  cut       \* orders a restart left between a void and its tickets

lockVars == <<holder, given>>
kitchen == <<kds, hold, cut>>
paper == <<behind, printed, twice, slipped>>
vars == <<lockVars, order, voided, kitchen, tokens, dev, paper>>

NoneOrder == [state |-> "none", lines |-> {}, by |-> Nobody]
OnMap == [pc |-> "map", cart |-> {}, oid |-> NoOrder,
          job |-> {}, rest |-> {}, by |-> Nobody]

-----------------------------------------------------------------------------
(* What the handlers read. *)

\* getOrderByTable
Drafts == {o \in Orders : order[o].state = "draft"}

DraftLines == UNION {order[o].lines : o \in Drafts}

\* A new line has a new id.
Fresh(l) ==
  /\ \A o \in Orders : l \notin order[o].lines
  /\ \A d \in Devices : l \notin dev[d].cart \cup dev[d].job

\* So has a new order.
NewOrder(o) == order[o].state = "none" /\ \A d \in Devices : dev[d].oid # o

Effective(o) == {l \in order[o].lines : <<o, l>> \notin voided}

Printing(o) == {d \in Devices : dev[d].pc = "printing" /\ dev[d].oid = o}

Voiding(o) == \E d \in Devices : dev[d].pc = "voiding" /\ dev[d].oid = o

ToPrinters(lines) ==
  /\ printed' = printed \cup lines
  /\ twice' = twice \cup (printed \cap lines \cap Discounted)

Forget(lines) ==
  /\ printed' = printed \ lines /\ twice' = twice \ lines
  /\ slipped' = slipped \ lines /\ UNCHANGED behind

Unlock == holder' = Nobody /\ given' = FALSE
Lock(d) == holder' = d /\ given' = FALSE
LockBySubmit(d) == holder' = d /\ given' = TRUE

\* rebuildKdsTicketsForOrder: the hold is that of the lines, called or not.
Rebuild(o, lines) ==
  /\ kds' = [kds EXCEPT ![o] = lines]
  /\ hold' = [hold EXCEPT ![o] = lines \cap Held # {}]
  /\ cut' = cut \ {o}

Init ==
  /\ holder = Nobody /\ given = FALSE
  /\ order = [o \in Orders |-> NoneOrder]
  /\ voided = {}
  /\ kds = [o \in Orders |-> {}]
  /\ hold = [o \in Orders |-> FALSE]
  /\ tokens = {}
  /\ dev = [d \in Devices |-> OnMap]
  /\ behind = {} /\ printed = {} /\ twice = {} /\ slipped = {} /\ cut = {}

-----------------------------------------------------------------------------
(* The lock and the copy of the draft *)

\* A waiter taps the table: requestLock.
TakeTable(d) ==
  /\ dev[d].pc = "map"
  /\ holder \in {d, Nobody}
  /\ Lock(d)
  /\ dev' = [dev EXCEPT ![d].pc = "opening"]
  /\ UNCHANGED <<order, voided, kitchen, tokens, paper>>

\* A table in use is taken with a manager's PIN, or once the lock timed out.
TakeByPin(d) ==
  /\ dev[d].pc = "map"
  /\ holder \notin {d, Nobody}
  /\ Lock(d)
  /\ dev' = [dev EXCEPT ![d].pc = "opening"]
  /\ UNCHANGED <<order, voided, kitchen, tokens, paper>>

\* reload: the cart is the draft, whatever it was.
Load(d) ==
  /\ dev[d].pc = "opening"
  /\ dev' = [dev EXCEPT ![d] = [OnMap EXCEPT !.pc = "table", !.cart = DraftLines]]
  /\ behind' = behind \ {d}
  /\ UNCHANGED <<lockVars, order, voided, kitchen, tokens, printed, twice, slipped>>

\* A discounted line comes with the token the manager has just authorised.
AddToCart(d, l) ==
  /\ dev[d].pc = "table"
  /\ Fresh(l)
  /\ dev' = [dev EXCEPT ![d].cart = @ \cup {l}]
  /\ tokens' = tokens \cup ({l} \cap Discounted)
  /\ Forget({l})
  /\ UNCHANGED <<lockVars, order, voided, kitchen>>

RemoveFromCart(d, l) ==
  /\ dev[d].pc = "table" /\ l \in dev[d].cart
  /\ dev' = [dev EXCEPT ![d].cart = @ \ {l}]
  /\ UNCHANGED <<lockVars, order, voided, kitchen, tokens, paper>>

-----------------------------------------------------------------------------
(* Writing and sending the draft *)

\* Mutant: every write makes a new order.
SaveAnew(d, lines, o) ==
  /\ NewOrder(o)
  /\ order' = [order EXCEPT ![o] = [state |-> "draft", lines |-> lines, by |-> d]]
  /\ behind' = (behind \cup {e \in Devices : dev[e].pc \notin {"map", "opening"}}) \ {d}
  /\ UNCHANGED slipped
  /\ Unlock

\* Mutant: the lock stays when the draft is written.
SaveKeepsLock(d, lines, o) ==
  /\ IF Drafts # {} THEN o \in Drafts ELSE NewOrder(o)
  /\ order' = [order EXCEPT ![o] = [state |-> "draft", lines |-> lines, by |-> d]]
  /\ slipped' = slipped \cup
       (IF Printing(o) = {} THEN {}
        ELSE lines \ UNION {dev[e].job : e \in Printing(o)})
  /\ behind' = (behind \cup {e \in Devices : dev[e].pc \notin {"map", "opening"}}) \ {d}
  /\ UNCHANGED lockVars

\* POST /api/orders: the draft of the table becomes these lines, and nobody
\* holds the table any more (setTableOccupied).
Save(d, lines, o) ==
  /\ IF Drafts # {} THEN o \in Drafts ELSE NewOrder(o)
  /\ order' = [order EXCEPT ![o] = [state |-> "draft", lines |-> lines, by |-> d]]
  /\ slipped' = slipped \cup
       (IF Printing(o) = {} THEN {}
        ELSE lines \ UNION {dev[e].job : e \in Printing(o)})
  /\ behind' = (behind \cup {e \in Devices : dev[e].pc \notin {"map", "opening"}}) \ {d}
  /\ Unlock

\* Back to the map: the cart is written if it has lines, and the lock freed.
Leave(d) ==
  /\ dev[d].pc = "table"
  /\ IF dev[d].cart # {}
     THEN \E o \in Orders : Save(d, dev[d].cart, o)
     ELSE /\ IF holder \in {d, Nobody} THEN Unlock ELSE UNCHANGED lockVars
          /\ UNCHANGED <<order, slipped>> /\ behind' = behind \ {d}
  /\ dev' = [dev EXCEPT ![d] = OnMap]
  /\ UNCHANGED <<voided, kitchen, tokens, printed, twice>>

\* SPEDITO, for all the cart or for the lines of one table of a union: the
\* draft becomes the lines to send, the others stay on the device.
Send(d, lines) ==
  /\ dev[d].pc = "table"
  /\ lines # {} /\ lines \subseteq dev[d].cart
  /\ \E o \in Orders :
       /\ Save(d, lines, o)
       /\ dev' = [dev EXCEPT ![d].pc = "posted", ![d].oid = o,
                             ![d].rest = dev[d].cart \ lines]
  /\ UNCHANGED <<voided, kitchen, tokens, printed, twice>>

ToTable(d) == [dev[d] EXCEPT !.pc = "table", !.oid = NoOrder, !.job = {},
                             !.rest = {}, !.by = Nobody]

\* Mutant: a token is checked and never used up.
SubmitStartKeepsTokens(d) ==
  LET o == dev[d].oid IN
  /\ dev[d].pc = "posted"
  /\ order[o].state = "draft"
  /\ order[o].lines \cap Discounted \subseteq tokens
  /\ ToPrinters(order[o].lines)
  /\ dev' = [dev EXCEPT ![d].pc = "printing", ![d].job = order[o].lines,
                        ![d].by = order[o].by]
  /\ UNCHANGED <<lockVars, order, voided, kitchen, tokens, behind, slipped>>

\* Mutant: the lines that wait for a call are not printed.
SubmitStartSkipsHeld(d) ==
  LET o == dev[d].oid IN
  /\ dev[d].pc = "posted"
  /\ order[o].state = "draft"
  /\ order[o].lines \cap Discounted \subseteq tokens
  /\ tokens' = tokens \ order[o].lines
  /\ ToPrinters(order[o].lines \ Held)
  /\ dev' = [dev EXCEPT ![d].pc = "printing", ![d].job = order[o].lines,
                        ![d].by = order[o].by]
  /\ UNCHANGED <<lockVars, order, voided, kitchen, behind, slipped>>

\* POST submit up to its prints: the order is read once, its tokens are used
\* up, its lines go to the printers.
SubmitStart(d) ==
  LET o == dev[d].oid IN
  /\ dev[d].pc = "posted"
  /\ order[o].state = "draft"
  /\ order[o].lines \cap Discounted \subseteq tokens
  /\ tokens' = tokens \ order[o].lines
  /\ ToPrinters(order[o].lines)
  /\ dev' = [dev EXCEPT ![d].pc = "printing", ![d].job = order[o].lines,
                        ![d].by = order[o].by]
  /\ UNCHANGED <<lockVars, order, voided, kitchen, behind, slipped>>

\* POST submit refused: the order is gone or sent, the cash session closed.
SubmitRefused(d) ==
  /\ dev[d].pc = "posted"
  /\ dev' = [dev EXCEPT ![d] = ToTable(d)]
  /\ UNCHANGED <<lockVars, order, voided, kitchen, tokens, paper>>

\* A token of the order is not valid any more: those looked at before it are
\* used up.
TokenRefused(d, spent) ==
  LET o == dev[d].oid IN
  /\ dev[d].pc = "posted"
  /\ order[o].state = "draft"
  /\ ~(order[o].lines \cap Discounted \subseteq tokens)
  /\ spent \subseteq order[o].lines \cap tokens
  /\ tokens' = tokens \ spent
  /\ dev' = [dev EXCEPT ![d] = ToTable(d)]
  /\ UNCHANGED <<lockVars, order, voided, kitchen, paper>>

\* Mutant: the tickets of every order of the table are built again.
SubmitEndAll(d, answered) ==
  LET o == dev[d].oid IN
  /\ dev[d].pc = "printing"
  /\ order[o].state # "none"
  /\ order' = [order EXCEPT ![o].state = "sent"]
  /\ kds' = [p \in Orders |-> IF p = o THEN Effective(p) ELSE kds[p]]
  /\ hold' = [p \in Orders |-> kds'[p] \cap Held # {}]
  /\ cut' = cut \ {o}
  /\ LockBySubmit(dev[d].by)
  /\ dev' = [dev EXCEPT ![d] =
               IF ~answered THEN ToTable(d)
               ELSE IF dev[d].rest = {} THEN [OnMap EXCEPT !.pc = "opening"]
               ELSE [ToTable(d) EXCEPT !.pc = "sent", !.cart = dev[d].rest]]
  /\ UNCHANGED <<voided, tokens, paper>>

\* POST submit after its prints: the order as it now is becomes the one sent,
\* and who wrote the lines printed takes the table.  The answer may be lost;
\* if it is not, and all the cart was sent, the cart is reloaded.
SubmitEnd(d, answered) ==
  LET o == dev[d].oid IN
  /\ dev[d].pc = "printing"
  /\ order[o].state # "none"
  /\ order' = [order EXCEPT ![o].state = "sent"]
  /\ Rebuild(o, Effective(o))
  /\ LockBySubmit(dev[d].by)
  /\ dev' = [dev EXCEPT ![d] =
               IF ~answered THEN ToTable(d)
               ELSE IF dev[d].rest = {} THEN [OnMap EXCEPT !.pc = "opening"]
               ELSE [ToTable(d) EXCEPT !.pc = "sent", !.cart = dev[d].rest]]
  /\ UNCHANGED <<voided, tokens, paper>>

\* The table was paid meanwhile: getOrder(order.id)! is undefined, the
\* handler throws.
SubmitFails(d) ==
  /\ dev[d].pc = "printing"
  /\ order[dev[d].oid].state = "none"
  /\ dev' = [dev EXCEPT ![d] = ToTable(d)]
  /\ UNCHANGED <<lockVars, order, voided, kitchen, tokens, paper>>

\* Lines not sent become the draft again; then the cart is reloaded.
AfterSend(d) ==
  /\ dev[d].pc = "sent"
  /\ \E o \in Orders : Save(d, dev[d].cart, o)
  /\ dev' = [dev EXCEPT ![d] = [OnMap EXCEPT !.pc = "opening"]]
  /\ UNCHANGED <<voided, kitchen, tokens, printed, twice>>

-----------------------------------------------------------------------------
(* Voids, courses, payment, restart *)

\* POST storno up to its print.
StornoStart(d, o, l) ==
  /\ dev[d].pc = "table"
  /\ Cardinality(voided) < MaxVoids
  /\ order[o].state = "sent" /\ l \in Effective(o)
  /\ voided' = voided \cup {<<o, l>>}
  /\ dev' = [dev EXCEPT ![d].pc = "voiding", ![d].oid = o]
  /\ UNCHANGED <<lockVars, order, kitchen, tokens, paper>>

\* Mutant: the tickets are built from the order read before the print.
StornoEndStale(d) ==
  LET o == dev[d].oid IN
  /\ dev[d].pc = "voiding"
  /\ IF order[o].state = "none" THEN UNCHANGED kitchen
     ELSE Rebuild(o, order[o].lines)
  /\ dev' = [dev EXCEPT ![d] = ToTable(d)]
  /\ UNCHANGED <<lockVars, order, voided, tokens, paper>>

\* POST storno after its print; it throws if the table was paid.
StornoEnd(d) ==
  LET o == dev[d].oid IN
  /\ dev[d].pc = "voiding"
  /\ IF order[o].state = "none" THEN UNCHANGED kitchen
     ELSE Rebuild(o, Effective(o))
  /\ dev' = [dev EXCEPT ![d] = ToTable(d)]
  /\ UNCHANGED <<lockVars, order, voided, tokens, paper>>

\* callCourse of the held course: every ticket of it, called before or not.
CallCourse ==
  /\ \E o \in Orders : kds[o] \cap Held # {}
  /\ hold' = [o \in Orders |-> FALSE]
  /\ UNCHANGED <<lockVars, order, voided, kds, cut, tokens, dev, paper>>

\* The bill is paid: clearTableOrders, setTableFree.
TablePaid ==
  /\ \E o \in Orders : order[o].state # "none"
  /\ order' = [o \in Orders |-> NoneOrder]
  /\ voided' = {}
  /\ kds' = [o \in Orders |-> {}]
  /\ hold' = [o \in Orders |-> FALSE]
  /\ cut' = {}
  /\ Unlock
  /\ Forget(Lines \ UNION {dev[d].cart \cup dev[d].job : d \in Devices})
  /\ UNCHANGED <<tokens, dev>>

\* The server stops and starts again: requests fail on their devices.
Restart ==
  /\ Unlock
  /\ tokens' = {}
  /\ dev' = [d \in Devices |->
               IF dev[d].pc \in {"posted", "printing", "voiding"} THEN ToTable(d)
               ELSE dev[d]]
  /\ cut' = cut \cup {o \in Orders : order[o].state # "none" /\ Voiding(o)}
  /\ UNCHANGED <<order, voided, kds, hold, paper>>

-----------------------------------------------------------------------------

Next ==
  \/ \E d \in Devices :
       \/ TakeTable(d)
       \/ TakeByPin(d)
       \/ Load(d)
       \/ \E l \in Lines : AddToCart(d, l) \/ RemoveFromCart(d, l)
       \/ Leave(d)
       \/ \E lines \in SUBSET Lines : Send(d, lines)
       \/ SubmitStart(d)
       \/ SubmitRefused(d)
       \/ \E spent \in SUBSET Discounted : TokenRefused(d, spent)
       \/ \E answered \in BOOLEAN : SubmitEnd(d, answered)
       \/ SubmitFails(d)
       \/ AfterSend(d)
       \/ \E o \in Orders, l \in Lines : StornoStart(d, o, l)
       \/ StornoEnd(d)
  \/ CallCourse
  \/ TablePaid
  \/ Restart

Spec == Init /\ [][Next]_vars

-----------------------------------------------------------------------------
(* Properties *)

Pcs == {"map", "opening", "table", "posted", "printing", "sent", "voiding"}

\* Types of the variables; a table has one draft at most.
TypeOK ==
  /\ holder \in Devices \cup {Nobody} /\ given \in BOOLEAN
  /\ order \in [Orders -> [state : {"none", "draft", "sent"}, lines : SUBSET Lines,
                           by : Devices \cup {Nobody}]]
  /\ Cardinality(Drafts) <= 1
  /\ voided \subseteq Orders \X Lines
  /\ kds \in [Orders -> SUBSET Lines] /\ hold \in [Orders -> BOOLEAN]
  /\ tokens \subseteq Discounted
  /\ dev \in [Devices -> [pc : Pcs, cart : SUBSET Lines,
                          oid : Orders \cup {NoOrder}, job : SUBSET Lines,
                          rest : SUBSET Lines, by : Devices \cup {Nobody}]]
  /\ printed \subseteq Lines /\ twice \subseteq Discounted
  /\ behind \subseteq Devices /\ slipped \subseteq Lines /\ cut \subseteq Orders

\* The kitchen display shows what an order sent still has to cook, no more and
\* no less, except while a void of it is printing, however voids, submits and
\* payments interleave (rebuildKdsTicketsForOrder after each of them).
KdsMatchesOrders ==
  \A o \in Orders :
    kds[o] = (IF order[o].state = "sent" THEN Effective(o) ELSE {})
      \/ Voiding(o) \/ o \in cut

\* An order counts as sent only with lines the kitchen got on paper, except
\* lines another device wrote into it while it was printing
\* (markOrderSubmitted marks the order as it is after the prints).
SentWasPrinted ==
  \A o \in Orders :
    order[o].state = "sent" =>
      order[o].lines \subseteq printed \cup slipped

\* Two devices that submit the same draft, a submit sent again after a lost
\* answer, a restart: a line whose discount a manager authorised once is
\* printed once (consumeDiscountToken before the first print).
DiscountPrintedOnce == twice = {}

\* What the lock is for: a device that was granted it works on the draft as it
\* was written last (upsertOrder lets go of the lock of whoever
\* holds it, requestLock is followed by a reload).  A submit that ends gives
\* the lock back with no reload.
HolderWorksOnLastDraft ==
  \A d \in Devices :
    holder = d /\ ~given /\ dev[d].pc = "table" => d \notin behind

\* A course the kitchen was told to cook waits again only because a void or a
\* second submit built its ticket anew.
CalledStaysCalled ==
  [][\A o \in Orders :
       kds[o] \cap Held # {} /\ ~hold[o] /\ hold'[o] =>
         \E d \in Devices :
           /\ dev[d].oid = o
           /\ StornoEnd(d) \/ \E answered \in BOOLEAN : SubmitEnd(d, answered)]_vars
=============================================================================
