-------------------------- MODULE OrderFlowProofs --------------------------
(***************************************************************************)
(* Proofs about OrderFlow, for every value of its constants: what the      *)
(* kitchen display shows, what the printers got, what a discount token and *)
(* a lock are good for.                                                    *)
(***************************************************************************)
EXTENDS OrderFlow, FiniteSetTheorems, TLAPS

-----------------------------------------------------------------------------
(* The inductive invariant *)

Order == [state : {"none", "draft", "sent"}, lines : SUBSET Lines,
          by : Devices \cup {Nobody}]
Device == [pc : Pcs, cart : SUBSET Lines, oid : Orders \cup {NoOrder},
           job : SUBSET Lines, rest : SUBSET Lines, by : Devices \cup {Nobody}]

\* TypeOK, with the record types named, and without the number of drafts.
Types ==
  /\ holder \in Devices \cup {Nobody} /\ given \in BOOLEAN
  /\ order \in [Orders -> Order]
  /\ voided \subseteq Orders \X Lines
  /\ kds \in [Orders -> SUBSET Lines] /\ hold \in [Orders -> BOOLEAN]
  /\ tokens \subseteq Discounted
  /\ dev \in [Devices -> Device]
  /\ printed \subseteq Lines /\ twice \subseteq Discounted
  /\ behind \subseteq Devices /\ slipped \subseteq Lines /\ cut \subseteq Orders

\* A table has one draft; a handler under way has an order, which no other
\* order takes the place of when the table is paid.
OrdersInv ==
  /\ \A o, p \in Orders : order[o].state = "draft" /\ order[p].state = "draft" => o = p
  /\ \A d \in Devices :
       /\ dev[d].pc \in {"posted", "printing", "voiding"} => dev[d].oid \in Orders
       /\ dev[d].pc = "voiding" => order[dev[d].oid].state # "draft"

\* The display shows orders sent only.
KitchenInv ==
  \A o \in Orders :
    IF order[o].state = "sent" THEN kds[o] = Effective(o) \/ Voiding(o) \/ o \in cut
    ELSE kds[o] = {}

\* What a submit prints is on paper until it ends, and so is what its order
\* has got meanwhile, but for the lines that slipped in.
PaperInv ==
  /\ \A d \in Devices : dev[d].pc = "printing" =>
       /\ dev[d].job \subseteq printed
       /\ order[dev[d].oid].state # "none" =>
            order[dev[d].oid].lines \subseteq printed \cup slipped
  /\ SentWasPrinted

\* A discount that may still be printed has not been.
TokensInv == tokens \cap printed = {} /\ twice = {}

\* A device that was granted the lock and still has it has sent nothing since.
LockInv ==
  \A d \in Devices :
    holder = d /\ ~given =>
      /\ dev[d].pc \in {"opening", "table", "voiding"}
      /\ dev[d].pc # "opening" => d \notin behind

IInv == Types /\ OrdersInv /\ KitchenInv /\ PaperInv /\ TokensInv /\ LockInv

-----------------------------------------------------------------------------
(* What the actions do to the devices *)

\* A step of one device.
Alone(d) == dev' \in [Devices -> Device] /\ \A e \in Devices \ {d} : dev'[e] = dev[e]

LEMMA ToTableIs ==
  ASSUME NEW d, dev[d] \in Device
  PROVE  /\ ToTable(d) \in Device
         /\ ToTable(d).pc = "table" /\ ToTable(d).cart = dev[d].cart
         /\ ToTable(d).oid = NoOrder
  BY DEF Device, Pcs, ToTable

LEMMA OnMapIs == NoneOrder \in Order /\ OnMap \in Device /\ OnMap.pc = "map"
  BY DEF NoneOrder, Order, OnMap, Device, Pcs

LEMMA OpeningIs == [OnMap EXCEPT !.pc = "opening"] \in Device
                   /\ [OnMap EXCEPT !.pc = "opening"].pc = "opening"
  BY DEF OnMap, Device, Pcs

\* A device set to a record.
LEMMA SetDevice ==
  ASSUME Types, NEW d \in Devices, NEW x \in Device, dev' = [dev EXCEPT ![d] = x]
  PROVE  Alone(d) /\ dev'[d] = x
  BY DEF Types, Alone

LEMMA TakeDevice ==
  ASSUME Types, NEW d \in Devices, TakeTable(d) \/ TakeByPin(d)
  PROVE  Alone(d) /\ dev[d].pc = "map" /\ dev'[d].pc = "opening"
  BY DEF TakeTable, TakeByPin, Types, Alone, Device, Pcs

LEMMA LoadDevice ==
  ASSUME Types, NEW d \in Devices, Load(d)
  PROVE  Alone(d) /\ dev[d].pc = "opening" /\ dev'[d].pc = "table"
<1>1. DraftLines \subseteq Lines
  BY DEF DraftLines, Drafts, Types, Order
<1> DEFINE x == [OnMap EXCEPT !.pc = "table", !.cart = DraftLines]
<1>2. x \in Device /\ x.pc = "table"
  BY <1>1 DEF OnMap, Device, Pcs
<1> QED  BY <1>2, SetDevice DEF Load

LEMMA CartDevice ==
  ASSUME Types, NEW d \in Devices, NEW l \in Lines, AddToCart(d, l) \/ RemoveFromCart(d, l)
  PROVE  /\ Alone(d) /\ dev[d].pc = "table" /\ dev'[d].pc = "table"
         /\ dev'[d].oid = dev[d].oid /\ dev'[d].job = dev[d].job
  BY DEF AddToCart, RemoveFromCart, Types, Alone, Device

LEMMA LeaveDevice ==
  ASSUME Types, NEW d \in Devices, Leave(d)
  PROVE  Alone(d) /\ dev[d].pc = "table" /\ dev'[d].pc = "map"
  BY OnMapIs, SetDevice DEF Leave

LEMMA SendDevice ==
  ASSUME Types, NEW d \in Devices, NEW lines \in SUBSET Lines, Send(d, lines)
  PROVE  /\ Alone(d) /\ dev[d].pc = "table" /\ dev'[d].pc = "posted"
         /\ dev'[d].oid \in Orders /\ Save(d, lines, dev'[d].oid)
<1>1. PICK o \in Orders :
        /\ Save(d, lines, o)
        /\ dev' = [dev EXCEPT ![d].pc = "posted", ![d].oid = o,
                              ![d].rest = dev[d].cart \ lines]
  BY DEF Send
<1> DEFINE x == [dev[d] EXCEPT !.pc = "posted", !.oid = o, !.rest = dev[d].cart \ lines]
<1>2. /\ dev'[d] = x /\ DOMAIN dev' = Devices
      /\ \A e \in Devices \ {d} : dev'[e] = dev[e]
      /\ dev' = [e \in Devices |-> dev'[e]]
  BY <1>1 DEF Types
<1>3. x \in Device /\ x.pc = "posted" /\ x.oid = o
  <2>1. dev[d] \in Device /\ dev[d].cart \ lines \in SUBSET Lines
    BY DEF Types, Device
  <2> QED  BY <2>1 DEF Device, Pcs
<1>4. Alone(d)
  BY <1>2, <1>3 DEF Alone, Types
<1> QED  BY <1>1, <1>2, <1>3, <1>4 DEF Send

LEMMA SubmitStartDevice ==
  ASSUME Types, OrdersInv, NEW d \in Devices, SubmitStart(d)
  PROVE  /\ Alone(d) /\ dev[d].pc = "posted" /\ dev'[d].pc = "printing"
         /\ dev[d].oid \in Orders /\ dev'[d].oid = dev[d].oid
         /\ dev'[d].job = order[dev[d].oid].lines
<1> DEFINE o == dev[d].oid
           x == [dev[d] EXCEPT !.pc = "printing", !.job = order[o].lines, !.by = order[o].by]
<1>1. /\ dev'[d] = x /\ DOMAIN dev' = Devices
      /\ \A e \in Devices \ {d} : dev'[e] = dev[e]
      /\ dev' = [e \in Devices |-> dev'[e]]
  BY DEF Types, SubmitStart
<1>2. o \in Orders /\ order[o].lines \in SUBSET Lines
      /\ order[o].by \in Devices \cup {Nobody}
  BY DEF OrdersInv, Types, Order, SubmitStart
<1>3. x \in Device /\ x.pc = "printing" /\ x.oid = o /\ x.job = order[o].lines
  <2>1. dev[d] \in Device
    BY DEF Types
  <2> QED  BY <1>2, <2>1 DEF Device, Pcs
<1>4. Alone(d)
  BY <1>1, <1>3 DEF Alone, Types
<1> QED  BY <1>1, <1>2, <1>3, <1>4 DEF SubmitStart

\* A request that ends with the device where it was before.
LEMMA BackDevice ==
  ASSUME Types, NEW d \in Devices,
         \/ SubmitRefused(d) \/ SubmitFails(d) \/ StornoEnd(d)
         \/ \E spent \in SUBSET Discounted : TokenRefused(d, spent)
  PROVE  Alone(d) /\ dev[d].pc \in {"posted", "printing", "voiding"} /\ dev'[d].pc = "table"
<1>1. dev' = [dev EXCEPT ![d] = ToTable(d)] /\ dev[d].pc \in {"posted", "printing", "voiding"}
  BY DEF SubmitRefused, SubmitFails, StornoEnd, TokenRefused
<1>2. dev[d] \in Device
  BY DEF Types
<1> QED  BY <1>1, <1>2, ToTableIs, SetDevice

LEMMA SubmitEndDevice ==
  ASSUME Types, NEW d \in Devices, NEW answered \in BOOLEAN, SubmitEnd(d, answered)
  PROVE  Alone(d) /\ dev[d].pc = "printing" /\ dev'[d].pc \in {"table", "opening", "sent"}
<1> DEFINE x == [ToTable(d) EXCEPT !.pc = "sent", !.cart = dev[d].rest]
           y == IF ~answered THEN ToTable(d)
                ELSE IF dev[d].rest = {} THEN [OnMap EXCEPT !.pc = "opening"] ELSE x
<1>1. dev' = [dev EXCEPT ![d] = y] /\ dev[d].pc = "printing"
  BY DEF SubmitEnd
<1>2. dev[d] \in Device /\ ToTable(d) \in Device /\ ToTable(d).pc = "table"
  BY ToTableIs DEF Types
<1>3. dev[d].rest \in SUBSET Lines
  BY <1>2 DEF Device
<1>4. x \in Device /\ x.pc = "sent"
  BY <1>2, <1>3 DEF Device, Pcs
<1> HIDE DEF x
<1>5. y \in Device /\ y.pc \in {"table", "opening", "sent"}
  BY <1>2, <1>4, OpeningIs
<1> HIDE DEF y
<1> QED  BY <1>1, <1>5, SetDevice

LEMMA AfterSendDevice ==
  ASSUME Types, NEW d \in Devices, AfterSend(d)
  PROVE  Alone(d) /\ dev[d].pc = "sent" /\ dev'[d].pc = "opening"
  BY OpeningIs, SetDevice DEF AfterSend

LEMMA StornoStartDevice ==
  ASSUME Types, NEW d \in Devices, NEW o \in Orders, NEW l \in Lines, StornoStart(d, o, l)
  PROVE  Alone(d) /\ dev[d].pc = "table" /\ dev'[d].pc = "voiding" /\ dev'[d].oid = o
<1> DEFINE x == [dev[d] EXCEPT !.pc = "voiding", !.oid = o]
<1>1. /\ dev'[d] = x /\ DOMAIN dev' = Devices
      /\ \A e \in Devices \ {d} : dev'[e] = dev[e]
      /\ dev' = [e \in Devices |-> dev'[e]]
  BY DEF Types, StornoStart
<1>2. x \in Device /\ x.pc = "voiding" /\ x.oid = o
  <2>1. dev[d] \in Device
    BY DEF Types
  <2> QED  BY <2>1 DEF Device, Pcs
<1>3. Alone(d)
  BY <1>1, <1>2 DEF Alone, Types
<1> QED  BY <1>1, <1>2, <1>3 DEF StornoStart

LEMMA RestartDevices ==
  ASSUME Types, Restart
  PROVE  /\ dev' \in [Devices -> Device]
         /\ \A d \in Devices :
              IF dev[d].pc \in {"posted", "printing", "voiding"} THEN dev'[d].pc = "table"
              ELSE dev'[d] = dev[d]
<1>1. \A d \in Devices : dev[d] \in Device
  BY DEF Types
<1> QED  BY <1>1, ToTableIs DEF Restart

-----------------------------------------------------------------------------
(* Types *)

LEMMA SaveTypes ==
  ASSUME Types, NEW d \in Devices, NEW lines \in SUBSET Lines, NEW o \in Orders,
         Save(d, lines, o)
  PROVE  /\ holder' = Nobody /\ given' = FALSE
         /\ order' \in [Orders -> Order]
         /\ slipped' \subseteq Lines /\ behind' \subseteq Devices
  BY DEF Save, Types, Unlock, Order

LEMMA TypesStep ==
  ASSUME Types, OrdersInv, Next
  PROVE  Types'
<1> USE OrderFlowAssumption DEF lockVars, kitchen, paper
<1>0. \A d \in Devices : /\ dev[d].cart \in SUBSET Lines /\ dev[d].job \in SUBSET Lines
                         /\ dev[d].by \in Devices \cup {Nobody}
  BY DEF Types, Device
<1>1. ASSUME NEW d \in Devices, TakeTable(d) \/ TakeByPin(d)
      PROVE  Types'
  BY <1>1, TakeDevice DEF TakeTable, TakeByPin, Types, Alone, Lock
<1>2. ASSUME NEW d \in Devices, Load(d)
      PROVE  Types'
  BY <1>2, LoadDevice DEF Load, Types, Alone
<1>3. ASSUME NEW d \in Devices, NEW l \in Lines, AddToCart(d, l) \/ RemoveFromCart(d, l)
      PROVE  Types'
  BY <1>3, CartDevice DEF AddToCart, RemoveFromCart, Types, Alone, Forget
<1>4. ASSUME NEW d \in Devices, Leave(d)
      PROVE  Types'
  <2>1. CASE dev[d].cart # {}
    <3>1. PICK o \in Orders : Save(d, dev[d].cart, o)
      BY <1>4, <2>1 DEF Leave
    <3> QED  BY <1>0, <1>4, <3>1, LeaveDevice, SaveTypes DEF Leave, Types, Alone
  <2>2. CASE dev[d].cart = {}
    BY <1>4, <2>2, LeaveDevice DEF Leave, Types, Alone, Unlock
  <2> QED  BY <2>1, <2>2
<1>5. ASSUME NEW d \in Devices, NEW lines \in SUBSET Lines, Send(d, lines)
      PROVE  Types'
  BY <1>5, SendDevice, SaveTypes DEF Send, Types, Alone
<1>6. ASSUME NEW d \in Devices, SubmitStart(d)
      PROVE  Types'
  <2>1. order[dev[d].oid].lines \subseteq Lines
    BY <1>6 DEF SubmitStart, OrdersInv, Types, Order
  <2> QED  BY <1>6, <2>1, SubmitStartDevice DEF SubmitStart, Types, Alone, ToPrinters
<1>7. ASSUME NEW d \in Devices,
             \/ SubmitRefused(d) \/ SubmitFails(d)
             \/ \E spent \in SUBSET Discounted : TokenRefused(d, spent)
      PROVE  Types'
  BY <1>7, BackDevice DEF SubmitRefused, SubmitFails, TokenRefused, Types, Alone
<1>8. ASSUME NEW o \in Orders, Rebuild(o, Effective(o))
      PROVE  /\ kds' \in [Orders -> SUBSET Lines] /\ hold' \in [Orders -> BOOLEAN]
             /\ cut' \subseteq Orders
  BY <1>8 DEF Rebuild, Effective, Types, Order
<1>9. ASSUME NEW d \in Devices, StornoEnd(d)
      PROVE  Types'
  BY <1>8, <1>9, BackDevice DEF StornoEnd, Types, Alone, OrdersInv
<1>10. ASSUME NEW d \in Devices, NEW answered \in BOOLEAN, SubmitEnd(d, answered)
      PROVE  Types'
  <2>1. dev[d].oid \in Orders
    BY <1>10 DEF SubmitEnd, OrdersInv
  <2>2. order' \in [Orders -> Order]
    <3> DEFINE o == dev[d].oid
               x == [order[o] EXCEPT !.state = "sent"]
    <3>1. x \in Order
      BY <2>1 DEF Types, Order
    <3>2. order' = [order EXCEPT ![o] = x]
      BY <1>10 DEF SubmitEnd
    <3> HIDE DEF x
    <3> QED  BY <2>1, <3>1, <3>2 DEF Types
  <2>3. dev' \in [Devices -> Device]
    BY <1>10, SubmitEndDevice DEF Alone
  <2>4. holder' \in Devices \cup {Nobody} /\ given' \in BOOLEAN /\ behind' \subseteq Devices
    BY <1>10, <1>0 DEF SubmitEnd, Types, LockBySubmit
  <2>5. /\ kds' \in [Orders -> SUBSET Lines] /\ hold' \in [Orders -> BOOLEAN]
        /\ cut' \subseteq Orders
    BY <1>8, <1>10, <2>1 DEF SubmitEnd, Types
  <2> QED  BY <1>10, <2>2, <2>3, <2>4, <2>5 DEF SubmitEnd, Types
<1>11. ASSUME NEW d \in Devices, AfterSend(d)
      PROVE  Types'
  <2>1. PICK o \in Orders : Save(d, dev[d].cart, o)
    BY <1>11 DEF AfterSend
  <2> QED  BY <1>0, <1>11, <2>1, AfterSendDevice, SaveTypes DEF AfterSend, Types, Alone
<1>12. ASSUME NEW d \in Devices, NEW o \in Orders, NEW l \in Lines, StornoStart(d, o, l)
      PROVE  Types'
  <2>1. voided' \subseteq Orders \X Lines
    BY <1>12 DEF StornoStart, Types
  <2> QED  BY <1>12, <2>1, StornoStartDevice DEF StornoStart, Types, Alone
<1>13. CASE CallCourse
  BY <1>13 DEF CallCourse, Types
<1>14. CASE TablePaid
  BY <1>14, OnMapIs DEF TablePaid, Types, Unlock, Forget
<1>15. CASE Restart
  BY <1>15, RestartDevices DEF Restart, Types, Unlock
<1> QED
  BY <1>1, <1>2, <1>3, <1>4, <1>5, <1>6, <1>7, <1>9, <1>10, <1>11, <1>12, <1>13, <1>14,
     <1>15 DEF Next

-----------------------------------------------------------------------------
(* Writing the draft *)

\* The parts of the invariant that are not types.
Rest == OrdersInv /\ KitchenInv /\ PaperInv /\ TokensInv /\ LockInv

LEMMA SaveOrder ==
  ASSUME Types, NEW d \in Devices, NEW lines \in SUBSET Lines, NEW o \in Orders,
         Save(d, lines, o)
  PROVE  /\ order[o].state # "sent"
         /\ order[o].state = "none" => Drafts = {} /\ \A e \in Devices : dev[e].oid # o
         /\ \A p \in Orders \ {o} : order'[p] = order[p]
         /\ order'[o].state = "draft" /\ order'[o].lines = lines
  BY DEF Save, Types, Drafts, NewOrder

\* A device writes the draft and goes back to the map, waits for its submit, or
\* reloads.
LEMMA SaveStep ==
  ASSUME Types, Rest, NEW d \in Devices, NEW lines \in SUBSET Lines, NEW o \in Orders,
         Save(d, lines, o), Alone(d), dev[d].pc \in {"table", "sent"},
         dev'[d].pc \in {"map", "opening", "posted"},
         dev'[d].pc = "posted" => dev'[d].oid \in Orders,
         UNCHANGED <<voided, kitchen, tokens, printed, twice>>
  PROVE  Rest'
<1> USE DEF Rest
<1>0. /\ order[o].state # "sent"
      /\ order[o].state = "none" => Drafts = {} /\ \A e \in Devices : dev[e].oid # o
      /\ \A p \in Orders \ {o} : order'[p] = order[p]
      /\ order'[o].state = "draft" /\ order'[o].lines = lines
  BY SaveOrder
<1>1. OrdersInv'
  <2>1. order[o].state \in {"none", "draft"}
    BY <1>0 DEF Types, Order
  <2>2. ASSUME NEW p \in Orders, NEW q \in Orders,
               order'[p].state = "draft" /\ order'[q].state = "draft"
        PROVE  p = q
    BY <1>0, <2>1, <2>2 DEF OrdersInv, Drafts
  <2>3. ASSUME NEW e \in Devices
        PROVE  /\ dev'[e].pc \in {"posted", "printing", "voiding"} => dev'[e].oid \in Orders
               /\ dev'[e].pc = "voiding" => order'[dev'[e].oid].state # "draft"
    <3>1. CASE e = d
      BY <3>1
    <3>2. CASE e # d
      BY <1>0, <2>1, <3>2 DEF OrdersInv, Alone
    <3> QED  BY <3>1, <3>2
  <2> QED  BY <2>2, <2>3 DEF OrdersInv
<1>2. KitchenInv'
  <2>1. \A p \in Orders : Voiding(p)' <=> Voiding(p)
    BY DEF Voiding, Alone
  <2>2. \A p \in Orders \ {o} : Effective(p)' = Effective(p)
    BY <1>0 DEF Effective
  <2>3. kds' = kds /\ cut' = cut
    BY DEF kitchen
  <2> QED  BY <1>0, <2>1, <2>2, <2>3 DEF KitchenInv
<1>3. PaperInv'
  <2>1. slipped \subseteq slipped' /\ printed' = printed
    BY DEF Save
  <2>2. \A e \in Devices : dev'[e].pc = "printing" => dev[e] = dev'[e]
    BY DEF Alone
  <2>3. \A e \in Devices : dev[e].pc = "printing" /\ dev[e].oid = o =>
          lines \subseteq printed \cup slipped'
    <3>1. \A e \in Printing(o) : dev[e].job \subseteq printed
      BY DEF Printing, PaperInv
    <3>2. Printing(o) # {} => lines \ printed \subseteq slipped'
      BY <3>1 DEF Save
    <3> QED  BY <3>2 DEF Printing
  <2>4. \A e \in Devices : dev[e].pc = "printing" => dev[e].oid \in Orders
    BY DEF OrdersInv
  <2>5. SentWasPrinted'
    BY <1>0, <2>1 DEF PaperInv, SentWasPrinted
  <2>6. ASSUME NEW e \in Devices, dev'[e].pc = "printing"
        PROVE  /\ dev'[e].job \subseteq printed'
               /\ order'[dev'[e].oid].state # "none" =>
                    order'[dev'[e].oid].lines \subseteq printed' \cup slipped'
    BY <1>0, <2>1, <2>2, <2>3, <2>4, <2>6 DEF PaperInv
  <2> QED  BY <2>5, <2>6 DEF PaperInv
<1>4. TokensInv' /\ LockInv'
  BY OrderFlowAssumption DEF TokensInv, LockInv, Save, Unlock
<1> QED  BY <1>1, <1>2, <1>3, <1>4

-----------------------------------------------------------------------------
(* The other actions *)

\* A device that starts or ends nothing.
LEMMA QuietStep ==
  ASSUME Types, Rest, NEW d \in Devices, Alone(d),
         dev[d].pc \in {"map", "opening", "table", "posted", "sent"},
         dev'[d].pc \in {"map", "opening", "table"},
         UNCHANGED <<order, voided, kitchen>>
  PROVE  OrdersInv' /\ KitchenInv'
<1> USE DEF Rest
<1>1. OrdersInv'
  BY DEF OrdersInv, Alone
<1>2. KitchenInv'
  <2>1. \A p \in Orders : Voiding(p)' <=> Voiding(p)
    BY DEF Voiding, Alone
  <2> QED  BY <2>1 DEF KitchenInv, Effective, kitchen
<1> QED  BY <1>1, <1>2

LEMMA QuietPaper ==
  ASSUME Rest, NEW d \in Devices, Alone(d), dev'[d].pc # "printing",
         UNCHANGED <<order, printed, slipped>>
  PROVE  PaperInv'
  BY DEF Rest, PaperInv, SentWasPrinted, Alone

LEMMA TakeStep ==
  ASSUME Types, Rest, NEW d \in Devices, TakeTable(d) \/ TakeByPin(d) \/ Load(d)
  PROVE  Rest'
<1>1. Alone(d) /\ dev[d].pc \in {"map", "opening"} /\ dev'[d].pc \in {"opening", "table"}
  BY TakeDevice, LoadDevice
<1>2. UNCHANGED <<order, voided, kitchen, printed, slipped, tokens, twice>>
  BY DEF TakeTable, TakeByPin, Load, paper
<1>3. LockInv'
  <2>1. CASE TakeTable(d) \/ TakeByPin(d)
    BY <2>1, TakeDevice DEF TakeTable, TakeByPin, LockInv, Lock
  <2>2. CASE Load(d)
    BY <2>2, LoadDevice DEF Load, Rest, LockInv, lockVars, Alone
  <2> QED  BY <2>1, <2>2
<1>4. TokensInv'
  BY <1>2 DEF Rest, TokensInv
<1> QED  BY <1>1, <1>2, <1>3, <1>4, QuietStep, QuietPaper DEF Rest

LEMMA CartStep ==
  ASSUME Types, Rest, NEW d \in Devices, NEW l \in Lines, AddToCart(d, l) \/ RemoveFromCart(d, l)
  PROVE  Rest'
<1> USE DEF Rest
<1>1. Alone(d) /\ dev[d].pc = "table" /\ dev'[d].pc = "table"
  BY CartDevice
<1>2. UNCHANGED <<order, voided, kitchen, lockVars, behind>>
  BY DEF AddToCart, RemoveFromCart, paper, Forget
<1>3. LockInv'
  BY <1>1, <1>2 DEF LockInv, lockVars, Alone
<1>4. CASE AddToCart(d, l)
  <2>1. /\ printed' = printed \ {l} /\ twice' = twice \ {l} /\ slipped' = slipped \ {l}
        /\ tokens' = tokens \cup ({l} \cap Discounted)
    BY <1>4 DEF AddToCart, Forget
  <2>2. /\ \A o \in Orders : l \notin order[o].lines
        /\ \A e \in Devices : l \notin dev[e].job
    BY <1>4 DEF AddToCart, Fresh
  <2>3. TokensInv'
    BY <2>1 DEF TokensInv
  <2>4. \A e \in Devices : dev'[e].pc = "printing" => dev'[e] = dev[e] /\ dev[e].oid \in Orders
    BY <1>1 DEF Alone, OrdersInv
  <2>5. PaperInv'
    BY <1>2, <2>1, <2>2, <2>4 DEF PaperInv, SentWasPrinted
  <2> QED  BY <1>1, <1>2, <1>3, <2>3, <2>5, QuietStep
<1>5. CASE RemoveFromCart(d, l)
  <2>1. UNCHANGED <<printed, twice, slipped, tokens>>
    BY <1>5 DEF RemoveFromCart, paper
  <2> QED  BY <1>1, <1>2, <1>3, <2>1, QuietStep, QuietPaper DEF TokensInv
<1> QED  BY <1>4, <1>5

LEMMA LeaveStep ==
  ASSUME Types, Rest, NEW d \in Devices, Leave(d)
  PROVE  Rest'
<1>1. Alone(d) /\ dev[d].pc = "table" /\ dev'[d].pc = "map"
  BY LeaveDevice
<1>2. UNCHANGED <<voided, kitchen, tokens, printed, twice>>
  BY DEF Leave
<1>3. CASE dev[d].cart # {}
  <2>1. PICK o \in Orders : Save(d, dev[d].cart, o)
    BY <1>3 DEF Leave
  <2>2. dev[d].cart \in SUBSET Lines
    BY DEF Types, Device
  <2> QED  BY <1>1, <1>2, <2>1, <2>2, SaveStep
<1>4. CASE dev[d].cart = {}
  <2>1. UNCHANGED <<order, slipped>>
    BY <1>4 DEF Leave
  <2>2. LockInv'
    BY <1>1, <1>4, OrderFlowAssumption DEF Leave, Rest, LockInv, Unlock, lockVars, Alone
  <2>3. TokensInv'
    BY <1>2 DEF Rest, TokensInv
  <2> QED  BY <1>1, <1>2, <2>1, <2>2, <2>3, QuietStep, QuietPaper DEF Rest
<1> QED  BY <1>3, <1>4

LEMMA SendStep ==
  ASSUME Types, Rest, NEW d \in Devices, NEW lines \in SUBSET Lines, Send(d, lines)
  PROVE  Rest'
  BY SendDevice, SaveStep DEF Send

LEMMA AfterSendStep ==
  ASSUME Types, Rest, NEW d \in Devices, AfterSend(d)
  PROVE  Rest'
<1>1. PICK o \in Orders : Save(d, dev[d].cart, o)
  BY DEF AfterSend
<1>2. dev[d].cart \in SUBSET Lines
  BY DEF Types, Device
<1> QED  BY <1>1, <1>2, AfterSendDevice, SaveStep DEF AfterSend

LEMMA SubmitStartStep ==
  ASSUME Types, Rest, NEW d \in Devices, SubmitStart(d)
  PROVE  Rest'
<1> USE DEF Rest
<1> DEFINE o == dev[d].oid
<1>1. /\ Alone(d) /\ dev[d].pc = "posted" /\ dev'[d].pc = "printing"
      /\ o \in Orders /\ dev'[d].oid = o /\ dev'[d].job = order[o].lines
  BY SubmitStartDevice
<1>2. UNCHANGED <<order, voided, kitchen, lockVars, behind, slipped>>
  BY DEF SubmitStart
<1>3. /\ order[o].lines \cap Discounted \subseteq tokens
      /\ tokens' = tokens \ order[o].lines
      /\ printed' = printed \cup order[o].lines
      /\ twice' = twice \cup (printed \cap order[o].lines \cap Discounted)
  BY DEF SubmitStart, ToPrinters
<1> HIDE DEF o
<1>4. OrdersInv'
  BY <1>1, <1>2 DEF OrdersInv, Alone
<1>5. KitchenInv'
  <2>1. \A p \in Orders : Voiding(p)' <=> Voiding(p)
    BY <1>1 DEF Voiding, Alone
  <2> QED  BY <1>2, <2>1 DEF KitchenInv, Effective, kitchen
<1>6. PaperInv'
  <2>1. ASSUME NEW e \in Devices, dev'[e].pc = "printing"
        PROVE  /\ dev'[e].job \subseteq printed'
               /\ order[dev'[e].oid].state # "none" =>
                    order[dev'[e].oid].lines \subseteq printed' \cup slipped
    BY <1>1, <1>3, <2>1 DEF PaperInv, Alone
  <2>2. SentWasPrinted'
    BY <1>2, <1>3 DEF PaperInv, SentWasPrinted
  <2> QED  BY <1>2, <2>1, <2>2 DEF PaperInv
<1>7. TokensInv'
  BY <1>3 DEF TokensInv
<1>8. LockInv'
  BY <1>1, <1>2 DEF LockInv, lockVars, Alone
<1> QED  BY <1>4, <1>5, <1>6, <1>7, <1>8

\* A request refused, or one that throws after its prints.
LEMMA RefusedStep ==
  ASSUME Types, Rest, NEW d \in Devices,
         \/ SubmitRefused(d) \/ SubmitFails(d)
         \/ \E spent \in SUBSET Discounted : TokenRefused(d, spent)
  PROVE  Rest'
<1> USE DEF Rest
<1>1. Alone(d) /\ dev[d].pc \in {"posted", "printing"} /\ dev'[d].pc = "table"
  BY BackDevice DEF SubmitRefused, SubmitFails, TokenRefused
<1>2. /\ UNCHANGED <<order, voided, kitchen, lockVars, paper>>
      /\ tokens' \subseteq tokens
  BY DEF SubmitRefused, SubmitFails, TokenRefused
<1>3. OrdersInv'
  BY <1>1, <1>2 DEF OrdersInv, Alone
<1>4. KitchenInv'
  <2>1. \A p \in Orders : Voiding(p)' <=> Voiding(p)
    BY <1>1 DEF Voiding, Alone
  <2> QED  BY <1>2, <2>1 DEF KitchenInv, Effective, kitchen
<1>5. PaperInv'
  BY <1>1, <1>2, QuietPaper DEF paper
<1>6. TokensInv'
  BY <1>2 DEF TokensInv, paper
<1>7. LockInv'
  BY <1>1, <1>2 DEF LockInv, lockVars, Alone, paper
<1> QED  BY <1>3, <1>4, <1>5, <1>6, <1>7

\* The tickets of o, which is sent, built again by device d.
LEMMA RebuildKitchen ==
  ASSUME Types, Rest, NEW d \in Devices, NEW o \in Orders,
         Rebuild(o, Effective(o)), Alone(d), dev[d].oid = o,
         dev'[d].pc # "voiding", order'[o].state = "sent",
         \A p \in Orders : order'[p].lines = order[p].lines,
         \A p \in Orders \ {o} : order'[p] = order[p],
         UNCHANGED voided
  PROVE  KitchenInv'
<1>1. \A p \in Orders : Effective(p)' = Effective(p)
  BY DEF Effective
<1>2. /\ kds'[o] = Effective(o)
      /\ \A p \in Orders \ {o} : kds'[p] = kds[p] /\ (p \in cut' <=> p \in cut)
  BY DEF Rebuild, Types
<1>3. \A p \in Orders \ {o} : Voiding(p) => Voiding(p)'
  BY DEF Voiding, Alone
<1> QED  BY <1>1, <1>2, <1>3 DEF KitchenInv, Rest

LEMMA SubmitEndStep ==
  ASSUME Types, Rest, NEW d \in Devices, NEW answered \in BOOLEAN, SubmitEnd(d, answered)
  PROVE  Rest'
<1> USE DEF Rest
<1> DEFINE o == dev[d].oid
<1>1. Alone(d) /\ dev[d].pc = "printing" /\ dev'[d].pc \in {"table", "opening", "sent"}
  BY SubmitEndDevice
<1>2. o \in Orders /\ order[o].state # "none"
  BY <1>1 DEF OrdersInv, SubmitEnd
<1>3. /\ order'[o].state = "sent" /\ \A p \in Orders : order'[p].lines = order[p].lines
      /\ \A p \in Orders \ {o} : order'[p] = order[p]
  BY <1>2 DEF SubmitEnd, Types, Order
<1>4. /\ given' = TRUE /\ Rebuild(o, Effective(o))
      /\ UNCHANGED <<voided, tokens, paper>>
  BY DEF SubmitEnd, LockBySubmit
<1> HIDE DEF o
<1>5. OrdersInv'
  BY <1>1, <1>2, <1>3 DEF OrdersInv, Alone
<1>6. KitchenInv'
  BY <1>1, <1>2, <1>3, <1>4, RebuildKitchen DEF o
<1>7. PaperInv'
  <2>1. order[o].lines \subseteq printed \cup slipped
    BY <1>1, <1>2 DEF PaperInv, o
  <2>2. SentWasPrinted'
    BY <1>3, <1>4, <2>1 DEF PaperInv, SentWasPrinted, paper
  <2>3. \A e \in Devices : dev'[e].pc = "printing" =>
          dev'[e] = dev[e] /\ dev[e].oid \in Orders
    BY <1>1 DEF Alone, OrdersInv
  <2>4. \A p \in Orders : order'[p].state # "none" => order[p].state # "none"
    BY <1>2, <1>3
  <2> QED  BY <1>3, <1>4, <2>2, <2>3, <2>4 DEF PaperInv, paper
<1>8. TokensInv' /\ LockInv'
  BY <1>4 DEF TokensInv, LockInv, paper
<1> QED  BY <1>5, <1>6, <1>7, <1>8

LEMMA StornoStep ==
  ASSUME Types, Rest, NEW d \in Devices,
         StornoEnd(d) \/ \E o \in Orders, l \in Lines : StornoStart(d, o, l)
  PROVE  Rest'
<1> USE DEF Rest
<1>1. CASE \E o \in Orders, l \in Lines : StornoStart(d, o, l)
  <2>1. PICK o \in Orders, l \in Lines : StornoStart(d, o, l)
    BY <1>1
  <2>2. Alone(d) /\ dev[d].pc = "table" /\ dev'[d].pc = "voiding" /\ dev'[d].oid = o
    BY <2>1, StornoStartDevice
  <2>3. /\ order[o].state = "sent" /\ voided' = voided \cup {<<o, l>>}
        /\ UNCHANGED <<lockVars, order, kitchen, tokens, paper>>
    BY <2>1 DEF StornoStart
  <2>4. OrdersInv'
    BY <2>2, <2>3 DEF OrdersInv, Alone
  <2>5. KitchenInv'
    <3>1. Voiding(o)' /\ \A p \in Orders : Voiding(p) => Voiding(p)'
      BY <2>2 DEF Voiding, Alone
    <3>2. \A p \in Orders \ {o} : Effective(p)' = Effective(p)
      BY <2>3 DEF Effective
    <3> QED  BY <2>3, <3>1, <3>2 DEF KitchenInv, kitchen
  <2>6. PaperInv'
    BY <2>2, <2>3, QuietPaper DEF paper
  <2>7. TokensInv' /\ LockInv'
    BY <2>2, <2>3 DEF TokensInv, LockInv, lockVars, Alone, paper
  <2> QED  BY <2>4, <2>5, <2>6, <2>7
<1>2. CASE StornoEnd(d)
  <2> DEFINE o == dev[d].oid
  <2>1. Alone(d) /\ dev[d].pc = "voiding" /\ dev'[d].pc = "table"
    BY <1>2, BackDevice DEF StornoEnd
  <2>2. o \in Orders /\ order[o].state \in {"none", "sent"}
    BY <2>1 DEF OrdersInv, Types, Order
  <2>3. /\ UNCHANGED <<lockVars, order, voided, tokens, paper>>
        /\ IF order[o].state = "none" THEN UNCHANGED kitchen ELSE Rebuild(o, Effective(o))
    BY <1>2 DEF StornoEnd
  <2> HIDE DEF o
  <2>4. OrdersInv'
    BY <2>1, <2>3 DEF OrdersInv, Alone
  <2>5. KitchenInv'
    <3>1. CASE order[o].state = "none"
      <4>1. \A p \in Orders \ {o} : Voiding(p) => Voiding(p)'
        BY <2>1 DEF Voiding, Alone, o
      <4> QED  BY <2>3, <3>1, <4>1 DEF KitchenInv, Effective, kitchen
    <3>2. CASE order[o].state = "sent"
      BY <2>1, <2>2, <2>3, <3>2, RebuildKitchen DEF o
    <3> QED  BY <2>2, <3>1, <3>2
  <2>6. PaperInv'
    BY <2>1, <2>3, QuietPaper DEF paper
  <2>7. TokensInv' /\ LockInv'
    BY <2>1, <2>3 DEF TokensInv, LockInv, lockVars, Alone, paper
  <2> QED  BY <2>4, <2>5, <2>6, <2>7
<1> QED  BY <1>1, <1>2

LEMMA TablePaidStep ==
  ASSUME Types, Rest, TablePaid
  PROVE  Rest'
<1> USE DEF Rest
<1>1. /\ \A o \in Orders : order'[o].state = "none" /\ kds'[o] = {}
      /\ holder' = Nobody /\ UNCHANGED <<tokens, dev>>
  BY DEF TablePaid, NoneOrder, Unlock
<1>2. /\ \A d \in Devices : dev[d].job \cap printed \subseteq printed'
      /\ printed' \subseteq printed /\ twice' \subseteq twice
  BY DEF TablePaid, Forget
<1>3. OrdersInv' /\ KitchenInv'
  BY <1>1 DEF OrdersInv, KitchenInv
<1>4. PaperInv'
  BY <1>1, <1>2 DEF PaperInv, SentWasPrinted, OrdersInv
<1>5. TokensInv' /\ LockInv'
  BY <1>1, <1>2, OrderFlowAssumption DEF TokensInv, LockInv
<1> QED  BY <1>3, <1>4, <1>5

LEMMA RestartStep ==
  ASSUME Types, Rest, Restart
  PROVE  Rest'
<1> USE DEF Rest
<1>1. \A d \in Devices :
        IF dev[d].pc \in {"posted", "printing", "voiding"} THEN dev'[d].pc = "table"
        ELSE dev'[d] = dev[d]
  BY RestartDevices
<1>2. /\ holder' = Nobody /\ tokens' = {}
      /\ cut' = cut \cup {o \in Orders : order[o].state # "none" /\ Voiding(o)}
      /\ UNCHANGED <<order, voided, kds, hold, paper>>
  BY DEF Restart, Unlock
<1>3. OrdersInv'
  BY <1>1, <1>2 DEF OrdersInv
<1>4. KitchenInv'
  BY <1>2 DEF KitchenInv, Effective
<1>5. PaperInv'
  BY <1>1, <1>2 DEF PaperInv, SentWasPrinted, paper
<1>6. TokensInv' /\ LockInv'
  BY <1>2, OrderFlowAssumption DEF TokensInv, LockInv, paper
<1> QED  BY <1>3, <1>4, <1>5, <1>6

LEMMA CallCourseStep ==
  ASSUME Rest, CallCourse
  PROVE  Rest'
<1>1. UNCHANGED <<lockVars, order, voided, kds, cut, tokens, dev, paper>>
  BY DEF CallCourse
<1>2. KitchenInv'
  BY <1>1 DEF Rest, KitchenInv, Effective, Voiding
<1> QED  BY <1>1, <1>2 DEF Rest, OrdersInv, PaperInv, SentWasPrinted, TokensInv, LockInv,
                            lockVars, paper

-----------------------------------------------------------------------------
(* The invariant holds *)

LEMMA InitInvariant == Init => IInv
<1> SUFFICES ASSUME Init PROVE IInv
  OBVIOUS
<1>1. Types
  BY OnMapIs DEF Init, Types
<1>2. \A d \in Devices : dev[d].pc = "map"
  BY OnMapIs DEF Init
<1>3. \A o \in Orders : order[o].state = "none"
  BY DEF Init, NoneOrder
<1> QED  BY <1>1, <1>2, <1>3, OrderFlowAssumption
         DEF Init, IInv, OrdersInv, KitchenInv, PaperInv, SentWasPrinted, TokensInv, LockInv

LEMMA StepInvariant == IInv /\ Next => IInv'
<1> SUFFICES ASSUME IInv, Next PROVE IInv'
  OBVIOUS
<1> Types /\ Rest
  BY DEF IInv, Rest
<1>1. Types'
  BY TypesStep DEF Rest
<1>2. ASSUME NEW d \in Devices,
             \/ TakeTable(d) \/ TakeByPin(d) \/ Load(d) \/ Leave(d) \/ SubmitStart(d)
             \/ SubmitRefused(d) \/ SubmitFails(d) \/ AfterSend(d) \/ StornoEnd(d)
             \/ \E spent \in SUBSET Discounted : TokenRefused(d, spent)
             \/ \E o \in Orders, l \in Lines : StornoStart(d, o, l)
      PROVE  Rest'
  BY <1>2, TakeStep, LeaveStep, SubmitStartStep, RefusedStep, AfterSendStep, StornoStep
<1>3. ASSUME NEW d \in Devices, NEW l \in Lines, AddToCart(d, l) \/ RemoveFromCart(d, l)
      PROVE  Rest'
  BY <1>3, CartStep
<1>4. ASSUME NEW d \in Devices, NEW lines \in SUBSET Lines, Send(d, lines)
      PROVE  Rest'
  BY <1>4, SendStep
<1>5. ASSUME NEW d \in Devices, NEW answered \in BOOLEAN, SubmitEnd(d, answered)
      PROVE  Rest'
  BY <1>5, SubmitEndStep
<1>6. ASSUME CallCourse \/ TablePaid \/ Restart
      PROVE  Rest'
  BY <1>6, CallCourseStep, TablePaidStep, RestartStep
<1>7. Rest'
  BY <1>2, <1>3, <1>4, <1>5, <1>6 DEF Next
<1> QED  BY <1>1, <1>7 DEF IInv, Rest

LEMMA StutterInvariant == IInv /\ UNCHANGED vars => IInv'
<1> SUFFICES ASSUME IInv, UNCHANGED vars PROVE IInv'
  OBVIOUS
<1>1. /\ holder' = holder /\ given' = given /\ order' = order /\ voided' = voided
      /\ kds' = kds /\ hold' = hold /\ tokens' = tokens /\ dev' = dev /\ behind' = behind
      /\ printed' = printed /\ twice' = twice /\ slipped' = slipped /\ cut' = cut
  BY DEF vars, lockVars, kitchen, paper
<1>2. Types' /\ OrdersInv' /\ TokensInv' /\ LockInv'
  BY <1>1 DEF IInv, Types, OrdersInv, TokensInv, LockInv
<1>3. KitchenInv' /\ PaperInv'
  BY <1>1 DEF IInv, KitchenInv, Effective, Voiding, PaperInv, SentWasPrinted
<1> QED  BY <1>2, <1>3 DEF IInv

THEOREM Invariance == Spec => []IInv
<1>1. IInv /\ [Next]_vars => IInv'
  BY StepInvariant, StutterInvariant
<1> QED  BY InitInvariant, <1>1, PTL DEF Spec

-----------------------------------------------------------------------------
(* What it gives *)

\* Whatever the devices do, the variables keep their types, and the table has
\* one draft at most (upsertOrder looks for it before it makes one).
THEOREM TypeCorrect == Spec => []TypeOK
<1>1. IInv => TypeOK
  <2> SUFFICES ASSUME IInv PROVE TypeOK
    OBVIOUS
  <2>1. Cardinality(Drafts) <= 1
    <3>1. CASE Drafts = {}
      <4>1. Cardinality(Drafts) = 0
        BY <3>1, FS_EmptySet
      <4> QED  BY <4>1
    <3>2. CASE Drafts # {}
      <4>1. PICK o \in Drafts : TRUE
        BY <3>2
      <4>2. Drafts = {o}
        BY <4>1 DEF IInv, OrdersInv, Drafts
      <4>3. Cardinality(Drafts) = 1
        BY <4>2, FS_Singleton
      <4> QED  BY <4>3
    <3> QED  BY <3>1, <3>2
  <2> QED  BY <2>1 DEF IInv, Types, TypeOK, Order, Device
<1> QED  BY Invariance, <1>1, PTL

\* However voids, submits, payments and restarts interleave, the display shows
\* what an order sent still has to cook, except while a void of it prints, or
\* after a restart in the middle of one (rebuildKdsTicketsForOrder).
THEOREM KitchenIsShown == Spec => []KdsMatchesOrders
<1>1. IInv => KdsMatchesOrders
  BY DEF IInv, KitchenInv, KdsMatchesOrders
<1> QED  BY Invariance, <1>1, PTL

\* What an order sent holds is on paper, or was written into it by another
\* device while it printed (markOrderSubmitted).
THEOREM SentIsPrinted == Spec => []SentWasPrinted
<1>1. IInv => SentWasPrinted
  BY DEF IInv, PaperInv
<1> QED  BY Invariance, <1>1, PTL

\* A discount authorised once is printed once: no double submit, lost answer or
\* restart prints it again (consumeDiscountToken).
THEOREM DiscountsPrintOnce == Spec => []DiscountPrintedOnce
<1>1. IInv => DiscountPrintedOnce
  BY DEF IInv, TokensInv, DiscountPrintedOnce
<1> QED  BY Invariance, <1>1, PTL

\* A device that was granted the lock works on the draft written last
\* (requestLock and reload of useComanda.ts).
THEOREM HolderIsUpToDate == Spec => []HolderWorksOnLastDraft
<1>1. IInv => HolderWorksOnLastDraft
  BY DEF IInv, LockInv, HolderWorksOnLastDraft
<1> QED  BY Invariance, <1>1, PTL

\* A course that was called waits again only by a void or a submit that ends
\* (rebuildKdsTicketsForOrder forgets that it was called).
THEOREM CallsAreForgottenByRebuilds == Spec => CalledStaysCalled
<1>1. ASSUME Types, OrdersInv, NEW o \in Orders, ~hold[o], hold'[o], Next
      PROVE  \E d \in Devices :
               /\ dev[d].oid = o
               /\ StornoEnd(d) \/ \E answered \in BOOLEAN : SubmitEnd(d, answered)
  <2>1. ASSUME NEW d \in Devices, StornoEnd(d)
        PROVE  dev[d].oid = o
    <3>1. dev[d].oid \in Orders
      BY <1>1, <2>1 DEF StornoEnd, OrdersInv
    <3> QED  BY <1>1, <2>1, <3>1 DEF StornoEnd, Rebuild, kitchen, Types
  <2>2. ASSUME NEW d \in Devices, NEW answered \in BOOLEAN, SubmitEnd(d, answered)
        PROVE  dev[d].oid = o
    <3>1. dev[d].oid \in Orders
      BY <1>1, <2>2 DEF SubmitEnd, OrdersInv
    <3> QED  BY <1>1, <2>2, <3>1 DEF SubmitEnd, Rebuild, Types
  <2>3. ASSUME hold' = hold \/ hold' = [p \in Orders |-> FALSE]
        PROVE  FALSE
    BY <1>1, <2>3
  <2>4. ASSUME NEW d \in Devices, NEW l \in Lines, AddToCart(d, l) \/ RemoveFromCart(d, l)
        PROVE  FALSE
    BY <2>3, <2>4 DEF AddToCart, RemoveFromCart, kitchen
  <2>5. ASSUME NEW d \in Devices, NEW lines \in SUBSET Lines, Send(d, lines)
        PROVE  FALSE
    BY <2>3, <2>5 DEF Send, kitchen
  <2>6. ASSUME NEW d \in Devices,
               \/ TakeTable(d) \/ TakeByPin(d) \/ Load(d) \/ Leave(d) \/ SubmitStart(d)
               \/ SubmitRefused(d) \/ SubmitFails(d) \/ AfterSend(d)
               \/ \E spent \in SUBSET Discounted : TokenRefused(d, spent)
               \/ \E p \in Orders, l \in Lines : StornoStart(d, p, l)
        PROVE  FALSE
    BY <2>3, <2>6 DEF TakeTable, TakeByPin, Load, Leave, SubmitStart, SubmitRefused,
                      SubmitFails, AfterSend, TokenRefused, StornoStart, kitchen
  <2>7. ASSUME CallCourse \/ TablePaid \/ Restart
        PROVE  FALSE
    BY <2>3, <2>7 DEF CallCourse, TablePaid, Restart
  <2> QED  BY <1>1, <2>1, <2>2, <2>4, <2>5, <2>6, <2>7 DEF Next
<1>2. IInv /\ [Next]_vars =>
        [\A o \in Orders :
           kds[o] \cap Held # {} /\ ~hold[o] /\ hold'[o] =>
             \E d \in Devices :
               /\ dev[d].oid = o
               /\ StornoEnd(d) \/ \E answered \in BOOLEAN : SubmitEnd(d, answered)]_vars
  BY <1>1 DEF IInv
<1> QED  BY Invariance, <1>2, PTL DEF Spec, CalledStaysCalled
=============================================================================
