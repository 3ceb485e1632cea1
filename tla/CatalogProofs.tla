--------------------------- MODULE CatalogProofs ---------------------------
(***************************************************************************)
(* Theorems about Catalog, for any number of requests and heartbeats.      *)
(***************************************************************************)
EXTENDS Catalog, TLAPS

-----------------------------------------------------------------------------
(* Types *)

Request == [at : {"idle", "written", "read", "settings"}, op : SUBSET Staff,
            row : Rows, read : Nat]
Tick == [at : {"idle", "due", "tables", "answer"}, since : Nat, version : Nat,
         menu : 0 .. MaxEdits, staff : [Staff -> Rows]]

LEMMA RowType ==
  /\ Absent \in Rows /\ Founder \in Rows
  /\ \A e \in 0 .. MaxEdits, b \in BOOLEAN : [edit |-> e, active |-> b] \in Rows
  /\ \A row \in Rows : /\ [row EXCEPT !.active = FALSE] \in Rows
                       /\ ~[row EXCEPT !.active = FALSE].active
<1> USE DEF Rows
<1>1. MaxEdits \in Nat \ {0}
  BY CatalogAssumption
<1>2. Absent \in Rows /\ Founder \in Rows
  BY <1>1 DEF Absent, Founder
<1>3. ASSUME NEW e \in 0 .. MaxEdits, NEW b \in BOOLEAN
      PROVE  [edit |-> e, active |-> b] \in Rows
  OBVIOUS
<1>4. ASSUME NEW row \in Rows
      PROVE  [row EXCEPT !.active = FALSE] \in Rows /\ ~[row EXCEPT !.active = FALSE].active
  OBVIOUS
<1> QED  BY <1>2, <1>3, <1>4

LEMMA IdleType ==
  /\ Idle \in Request /\ Idle.at = "idle"
  /\ \A at \in {"written", "settings"} :
       /\ [Idle EXCEPT !.at = at] \in Request
       /\ [Idle EXCEPT !.at = at] # Idle
  /\ \A op \in Staff, row \in Rows :
       /\ [at |-> "written", op |-> {op}, row |-> row, read |-> 0] \in Request
       /\ [at |-> "written", op |-> {op}, row |-> row, read |-> 0] # Idle
  /\ \A q \in Request, n \in Nat :
       /\ [q EXCEPT !.at = "read", !.read = n] \in Request
       /\ [q EXCEPT !.at = "read", !.read = n] # Idle
<1>1. Absent \in Rows
  BY RowType
<1> QED  BY <1>1 DEF Idle, Request

LEMMA QuietType ==
  /\ Quiet \in Tick /\ Quiet.at = "idle"
  /\ \A n \in Nat :
       /\ [Quiet EXCEPT !.at = "tables", !.version = n] \in Tick
       /\ [Quiet EXCEPT !.at = "tables", !.version = n].version = n
       /\ [Quiet EXCEPT !.at = "tables", !.version = n].at = "tables"
       /\ [Quiet EXCEPT !.at = "due", !.since = n] \in Tick
       /\ [Quiet EXCEPT !.at = "due", !.since = n].at = "due"
       /\ [Quiet EXCEPT !.at = "due", !.since = n].version = 0
  /\ Quiet.version = 0
<1>1. Absent \in Rows /\ 0 \in 0 .. MaxEdits
  BY RowType, CatalogAssumption
<1> QED  BY <1>1 DEF Quiet, Tick

LEMMA QuietFields == Quiet.version = 0 /\ Quiet.at # "answer"
  BY DEF Quiet

\* The initial states have the types of TypeOK.
LEMMA InitTypes == Init => TypeOK
<1> SUFFICES ASSUME Init PROVE TypeOK
  OBVIOUS
<1>1. /\ edits \in 0 .. MaxEdits /\ menu \in 0 .. MaxEdits /\ version \in Nat
      /\ held \in [version : Nat, menu : 0 .. MaxEdits] /\ untold \in BOOLEAN
  <2>1. MaxEdits \in Nat /\ 1 \in 0 .. MaxEdits
    BY CatalogAssumption
  <2> QED  BY <2>1 DEF Init
<1>2. /\ users \in [Staff -> Rows] /\ here \in [Staff -> Rows]
      /\ pending \in [Staff -> SUBSET Rows]
  BY RowType DEF Init
<1>3. request \in [Requests -> Request] /\ tick \in [Ticks -> Tick]
  BY IdleType, QuietType DEF Init
<1> QED  BY <1>1, <1>2, <1>3 DEF TypeOK, Request, Tick

\* Steps of the Cloud keep the types.
LEMMA CloudTypes == TypeOK /\ CloudNext => TypeOK'
<1> SUFFICES ASSUME TypeOK, NEW r \in Requests,
                    \/ MenuEdit(r) \/ LocationEdit(r)
                    \/ \E op \in Staff, active \in BOOLEAN : UserEdit(r, op, active)
                    \/ \E op \in Staff : UserDelete(r, op)
                    \/ \E op \in Staff : \E row \in pending[op] : StaffSync(r, op, row)
                    \/ ReadVersion(r) \/ WriteVersion(r) \/ BumpInPlace(r) \/ RequestDies(r)
             PROVE  TypeOK'
  BY DEF CloudNext
<1> USE CatalogAssumption DEF stationVars
<1>t. /\ request \in [Requests -> Request]
      /\ edits \in 0 .. MaxEdits /\ menu \in 0 .. MaxEdits /\ version \in Nat
      /\ users \in [Staff -> Rows] /\ pending \in [Staff -> SUBSET Rows]
      /\ untold \in BOOLEAN
  BY DEF TypeOK, Request
<1>c. Change => edits' \in 0 .. MaxEdits
  BY <1>t DEF Change
<1>w. \A at \in {"written", "settings"} : Written(r, at) => request' \in [Requests -> Request]
  BY <1>t, IdleType DEF Written
<1>q. ASSUME request' \in [Requests -> Request],
             UNCHANGED stationVars, edits' \in 0 .. MaxEdits, menu' \in 0 .. MaxEdits,
             version' \in Nat, users' \in [Staff -> Rows],
             pending' \in [Staff -> SUBSET Rows], untold' \in BOOLEAN
      PROVE  TypeOK'
  BY <1>q DEF TypeOK, Request
<1> HIDE DEF stationVars
<1>1. CASE MenuEdit(r)
  BY <1>1, <1>t, <1>q, <1>c, <1>w DEF MenuEdit
<1>2. CASE LocationEdit(r)
  BY <1>2, <1>t, <1>q, <1>c, <1>w DEF LocationEdit
<1>3. ASSUME NEW op \in Staff, NEW active \in BOOLEAN, UserEdit(r, op, active)
      PROVE  TypeOK'
  BY <1>3, <1>t, <1>q, <1>c, <1>w, RowType DEF UserEdit
<1>4. ASSUME NEW op \in Staff, UserDelete(r, op)
      PROVE  TypeOK'
  BY <1>4, <1>t, <1>q, <1>c, <1>w, RowType DEF UserDelete
<1>5. ASSUME NEW op \in Staff, NEW row \in pending[op], StaffSync(r, op, row)
      PROVE  TypeOK'
  <2>1. row \in Rows
    BY DEF TypeOK
  <2> QED  BY <1>5, <1>t, <1>q, <2>1, IdleType DEF StaffSync
<1>6. CASE ReadVersion(r)
  BY <1>6, <1>t, <1>q, IdleType DEF ReadVersion
<1>7. CASE WriteVersion(r)
  <2>1. pending' \in [Staff -> SUBSET Rows]
    BY <1>7 DEF WriteVersion, Answered, TypeOK
  <2>2. request[r].read \in Nat
    BY <1>t DEF Request
  <2>3. version' \in Nat /\ untold' \in BOOLEAN
    BY <1>7, <2>2 DEF WriteVersion, Bumped, TypeOK
  <2> QED  BY <1>7, <1>t, <1>q, <2>1, <2>3, IdleType DEF WriteVersion
<1>8. CASE BumpInPlace(r)
  <2>1. request' = [request EXCEPT ![r] = Idle] /\ version' = version + 1
    BY <1>8 DEF BumpInPlace
  <2>2. request' \in [Requests -> Request]
    BY <1>t, <2>1, IdleType
  <2>3. version' \in Nat
    BY <1>t, <2>1
  <2> QED  BY <1>8, <1>t, <1>q, <2>2, <2>3 DEF BumpInPlace
<1>9. CASE RequestDies(r)
  <2>1. request' \in [Requests -> Request]
    BY <1>9, <1>t, IdleType DEF RequestDies
  <2>2. untold' \in BOOLEAN
    BY <1>9 DEF RequestDies
  <2> QED  BY <1>9, <1>t, <1>q, <2>1, <2>2 DEF RequestDies
<1> QED  BY <1>1, <1>2, <1>3, <1>4, <1>5, <1>6, <1>7, <1>8, <1>9

\* What a heartbeat or a handshake does before it is applied.
LEMMA TickMoves ==
  ASSUME TypeOK, NEW t \in Ticks,
         \/ Beat(t) \/ Delta(t) \/ DeltaRefused(t) \/ Handshake(t)
         \/ ReadTables(t) \/ TickFails(t)
  PROVE  /\ UNCHANGED <<menu, users, version, request, untold, held, here, pending, edits>>
         /\ \E k \in Tick :
              /\ tick' = [tick EXCEPT ![t] = k]
              /\ k.version \in {0, version, tick[t].version}
              /\ k.at = "answer" => k.menu = menu /\ k.staff = users
<1> USE DEF cloudVars
<1>t. /\ tick \in [Ticks -> Tick] /\ version \in Nat /\ held.version \in Nat
      /\ users \in [Staff -> Rows] /\ menu \in 0 .. MaxEdits
  BY DEF TypeOK, Tick
<1>1. CASE Beat(t)
  <2>1. tick' = [tick EXCEPT ![t] = [Quiet EXCEPT !.at = "due", !.since = held.version]]
    BY <1>1, <1>t DEF Beat
  <2> DEFINE k == [Quiet EXCEPT !.at = "due", !.since = held.version]
  <2>2. k \in Tick /\ k.version = 0 /\ k.at # "answer"
    BY <1>t, QuietType
  <2>3. UNCHANGED <<menu, users, version, request, untold, held, here, pending, edits>>
    BY <1>1 DEF Beat
  <2> QED  BY <2>1, <2>2, <2>3
<1>2. CASE Delta(t) \/ Handshake(t)
  <2>1. tick' = [tick EXCEPT ![t] = [Quiet EXCEPT !.at = "tables", !.version = version]]
    BY <1>2 DEF Delta, Handshake, Reading
  <2> QED  BY <1>2, <1>t, <2>1, QuietType DEF Delta, Handshake
<1>3. CASE DeltaRefused(t) \/ TickFails(t)
  BY <1>3, <1>t, QuietType DEF DeltaRefused, TickFails
<1>4. CASE ReadTables(t)
  <2>1. tick' = [tick EXCEPT ![t] = [tick[t] EXCEPT !.at = "answer", !.menu = menu, !.staff = users]]
    BY <1>4, <1>t DEF ReadTables
  <2>2. tick[t] \in Tick
    BY <1>t
  <2> DEFINE k == [tick[t] EXCEPT !.at = "answer", !.menu = menu, !.staff = users]
  <2>3. k \in Tick /\ k.version = tick[t].version /\ k.menu = menu /\ k.staff = users
    <3>1. menu \in 0 .. MaxEdits /\ users \in [Staff -> Rows]
      BY <1>t
    <3> QED  BY <3>1, <2>2 DEF Tick
  <2>4. UNCHANGED <<menu, users, version, request, untold, held, here, pending, edits>>
    BY <1>4 DEF ReadTables
  <2> QED  BY <2>1, <2>3, <2>4
<1> QED  BY <1>1, <1>2, <1>3, <1>4

\* Steps of the station keep the types.
LEMMA StationTypes == TypeOK /\ StationNext => TypeOK'
<1>1. ASSUME TypeOK, NEW op \in Staff, NEW active \in BOOLEAN, StaffEdit(op, active)
      PROVE  TypeOK'
  <2>1. edits' \in 0 .. MaxEdits
    BY <1>1, CatalogAssumption DEF StaffEdit, Change, TypeOK
  <2>2. [edit |-> edits', active |-> active] \in Rows
    BY <2>1, RowType
  <2>3. here' \in [Staff -> Rows] /\ pending' \in [Staff -> SUBSET Rows]
    BY <1>1, <2>2 DEF StaffEdit, TypeOK
  <2> QED  BY <1>1, <2>1, <2>3 DEF StaffEdit, TypeOK, cloudVars
<1>2. ASSUME TypeOK, NEW t \in Ticks,
             \/ Beat(t) \/ Delta(t) \/ DeltaRefused(t) \/ Handshake(t)
             \/ ReadTables(t) \/ TickFails(t)
      PROVE  TypeOK'
  <2>1. tick' \in [Ticks -> Tick]
    BY <1>2, TickMoves DEF TypeOK, Tick
  <2> QED  BY <1>2, <2>1, TickMoves DEF TypeOK, Tick
<1>3. ASSUME TypeOK, NEW t \in Ticks, Apply(t)
      PROVE  TypeOK'
  <2>1. tick[t] \in Tick /\ tick \in [Ticks -> Tick]
    BY <1>3 DEF TypeOK, Tick
  <2>2. here' \in [Staff -> Rows]
    <3>1. tick[t].staff \in [Staff -> Rows]
      BY <2>1 DEF Tick
    <3> QED  BY <1>3, <3>1, RowType DEF Apply, AppliedStaff, TypeOK
  <2>3. held' \in [version : Nat, menu : 0 .. MaxEdits]
    BY <1>3, <2>1 DEF Apply, Held, Tick
  <2>4. tick' \in [Ticks -> Tick]
    BY <1>3, <2>1, QuietType DEF Apply
  <2> QED  BY <1>3, <2>2, <2>3, <2>4 DEF Apply, TypeOK, cloudVars, Tick
<1> QED  BY <1>1, <1>2, <1>3 DEF StationNext

\* Types hold in each reachable state.
THEOREM TypeCorrect == Spec => []TypeOK
<1>1. TypeOK /\ [Next]_vars => TypeOK'
  <2>1. TypeOK /\ UNCHANGED vars => TypeOK'
    BY DEF TypeOK, vars
  <2> QED  BY <2>1, CloudTypes, StationTypes DEF Next
<1> QED  BY <1>1, InitTypes, PTL DEF Spec

-----------------------------------------------------------------------------
(* What a version says *)

Busy == \E r \in Requests : request[r] # Idle

\* A copy marked v that is not ok is older than the Cloud, or a change is on
\* its way, or one was never told.
Explained(v, ok) == untold \/ Busy \/ v < version \/ ok

VersionInv ==
  /\ \A t \in Ticks : untold \/ tick[t].version <= version
  /\ \A t \in Ticks : tick[t].at = "answer" =>
       Explained(tick[t].version, tick[t].menu = menu /\ tick[t].staff = users)
  /\ untold \/ held.version <= version
  /\ Explained(held.version, held.menu = menu)
  /\ \A op \in Staff : Explained(held.version, pending[op] # {} \/ Agrees(op))

\* A step that leaves a request on its way explains everything.
LEMMA BusyKeeps ==
  ASSUME TypeOK, VersionInv, Busy', UNCHANGED <<version, untold, held, tick>>
  PROVE  VersionInv'
  BY DEF VersionInv, Explained, Busy

\* The end of a request raises the version over every copy, or says it did not.
LEMMA EndKeeps ==
  ASSUME TypeOK, VersionInv, UNCHANGED <<held, tick>>,
         untold' \/ (version' > version /\ untold' = untold), version' \in Nat
  PROVE  VersionInv'
<1>1. /\ held.version \in Nat /\ version \in Nat /\ untold \in BOOLEAN
      /\ \A t \in Ticks : tick[t].version \in Nat
  BY DEF TypeOK
<1>2. untold' \/ (held.version < version' /\ \A t \in Ticks : tick[t].version < version')
  BY <1>1 DEF VersionInv
<1>3. CASE untold'
  BY <1>3 DEF VersionInv, Explained
<1>4. CASE held.version < version' /\ \A t \in Ticks : tick[t].version < version'
  BY <1>1, <1>4 DEF VersionInv, Explained
<1> QED  BY <1>2, <1>3, <1>4

\* Steps of the Cloud.
LEMMA CloudVersion == TypeOK /\ VersionInv /\ CloudNext => VersionInv'
<1> SUFFICES ASSUME TypeOK, VersionInv, NEW r \in Requests,
                    \/ MenuEdit(r) \/ LocationEdit(r)
                    \/ \E op \in Staff, active \in BOOLEAN : UserEdit(r, op, active)
                    \/ \E op \in Staff : UserDelete(r, op)
                    \/ \E op \in Staff : \E row \in pending[op] : StaffSync(r, op, row)
                    \/ ReadVersion(r) \/ WriteVersion(r) \/ BumpInPlace(r) \/ RequestDies(r)
             PROVE  VersionInv'
  BY DEF CloudNext
<1>t. /\ request \in [Requests -> Request] /\ version \in Nat
      /\ pending \in [Staff -> SUBSET Rows]
  BY DEF TypeOK, Request
<1>w. \A at \in {"written", "settings"} : Written(r, at) => Busy'
  BY <1>t, IdleType DEF Written, Busy
<1>1. CASE MenuEdit(r) \/ LocationEdit(r)
  BY <1>1, <1>w, BusyKeeps DEF MenuEdit, LocationEdit, stationVars
<1>2. ASSUME NEW op \in Staff, NEW active \in BOOLEAN, UserEdit(r, op, active)
      PROVE  VersionInv'
  BY <1>2, <1>w, BusyKeeps DEF UserEdit, stationVars
<1>3. ASSUME NEW op \in Staff, UserDelete(r, op)
      PROVE  VersionInv'
  BY <1>3, <1>w, BusyKeeps DEF UserDelete, stationVars
<1>4. ASSUME NEW op \in Staff, NEW row \in pending[op], StaffSync(r, op, row)
      PROVE  VersionInv'
  <2>1. Busy'
    BY <1>4, <1>t, IdleType DEF StaffSync, Busy
  <2> QED  BY <1>4, <2>1, BusyKeeps DEF StaffSync, stationVars
<1>5. CASE ReadVersion(r)
  <2>1. Busy'
    BY <1>5, <1>t, IdleType DEF ReadVersion, Busy
  <2> QED  BY <1>5, <2>1, BusyKeeps DEF ReadVersion, stationVars
<1>6. CASE WriteVersion(r)
  <2>1. request[r].read \in Nat /\ untold \in BOOLEAN
    BY <1>t DEF Request, TypeOK
  <2>2. version' \in Nat /\ (untold' \/ (version' > version /\ untold' = untold))
    <3>1. version' = request[r].read + 1
      BY <1>6 DEF WriteVersion, Bumped
    <3>2. CASE request[r].read + 1 <= version
      <4>1. untold'
        BY <1>6, <3>2 DEF WriteVersion, Bumped
      <4> QED  BY <2>1, <3>1, <4>1
    <3>3. CASE ~(request[r].read + 1 <= version)
      <4>1. untold' = untold
        BY <1>6, <2>1, <3>3 DEF WriteVersion, Bumped
      <4> QED  BY <1>t, <2>1, <3>1, <3>3, <4>1
    <3> QED  BY <3>2, <3>3
  <2> QED  BY <1>6, <2>2, EndKeeps DEF WriteVersion, stationVars
<1>7. CASE BumpInPlace(r)
  BY <1>7, <1>t, EndKeeps DEF BumpInPlace, stationVars
<1>8. CASE RequestDies(r)
  BY <1>8, <1>t, EndKeeps DEF RequestDies, stationVars
<1> QED  BY <1>1, <1>2, <1>3, <1>4, <1>5, <1>6, <1>7, <1>8

\* Steps of the station.
LEMMA StationVersion == TypeOK /\ VersionInv /\ StationNext => VersionInv'
<1>1. ASSUME TypeOK, VersionInv, NEW op \in Staff, NEW active \in BOOLEAN,
             StaffEdit(op, active)
      PROVE  VersionInv'
  <2>1. UNCHANGED <<menu, users, version, request, untold, held, tick>>
    BY <1>1 DEF StaffEdit, cloudVars
  <2>2. ASSUME NEW p \in Staff
        PROVE  Explained(held.version, pending[p] # {} \/ Agrees(p))'
    <3>1. CASE p = op
      <4>1. pending'[p] # {}
        BY <1>1, <3>1 DEF StaffEdit, TypeOK
      <4> QED  BY <4>1 DEF Explained
    <3>2. CASE p # op
      <4>1. pending'[p] = pending[p] /\ here'[p] = here[p]
        BY <1>1, <3>2 DEF StaffEdit, TypeOK
      <4> QED  BY <1>1, <2>1, <4>1 DEF VersionInv, Explained, Agrees, Busy
    <3> QED  BY <3>1, <3>2
  <2>3. /\ VersionInv!1' /\ VersionInv!2' /\ VersionInv!3' /\ VersionInv!4'
    BY <1>1, <2>1 DEF VersionInv, Explained, Busy
  <2> QED  BY <2>2, <2>3 DEF VersionInv
<1>2. ASSUME TypeOK, VersionInv, NEW t \in Ticks,
             \/ Beat(t) \/ Delta(t) \/ DeltaRefused(t) \/ Handshake(t)
             \/ ReadTables(t) \/ TickFails(t)
      PROVE  VersionInv'
  <2>1. UNCHANGED <<menu, users, version, request, untold, held, here, pending, edits>>
    BY <1>2, TickMoves
  <2>2. PICK k \in Tick :
             /\ tick' = [tick EXCEPT ![t] = k]
             /\ k.version \in {0, version, tick[t].version}
             /\ k.at = "answer" => k.menu = menu /\ k.staff = users
    BY <1>2, TickMoves
  <2>3. tick \in [Ticks -> Tick] /\ version \in Nat
    BY <1>2 DEF TypeOK, Tick
  <2>4. ASSUME NEW u \in Ticks
        PROVE  /\ (untold \/ tick[u].version <= version)'
               /\ (tick[u].at = "answer" =>
                     Explained(tick[u].version, tick[u].menu = menu /\ tick[u].staff = users))'
    <3>1. CASE u = t
      <4>1. tick'[u] = k
        BY <2>2, <2>3, <3>1
      <4>2. untold \/ k.version <= version
        BY <1>2, <2>2, <2>3 DEF VersionInv
      <4> QED  BY <2>1, <2>2, <4>1, <4>2 DEF Explained
    <3>2. CASE u # t
      <4>1. tick'[u] = tick[u]
        BY <2>2, <2>3, <3>2
      <4> QED  BY <1>2, <2>1, <4>1 DEF VersionInv, Explained, Busy
    <3> QED  BY <3>1, <3>2
  <2>5. VersionInv!3' /\ VersionInv!4' /\ VersionInv!5'
    BY <1>2, <2>1 DEF VersionInv, Explained, Agrees, Busy
  <2> QED  BY <2>4, <2>5 DEF VersionInv
<1>3. ASSUME TypeOK, VersionInv, NEW t \in Ticks, Apply(t)
      PROVE  VersionInv'
  <2>1. UNCHANGED <<menu, users, version, request, untold, pending>>
    BY <1>3 DEF Apply, cloudVars
  <2>2. tick \in [Ticks -> Tick] /\ version \in Nat
    BY <1>3 DEF TypeOK, Tick
  <2>3. held'.version = tick[t].version /\ held'.menu = tick[t].menu
    BY <1>3 DEF Apply, Held
  <2>4. Explained(tick[t].version, tick[t].menu = menu /\ tick[t].staff = users)
    BY <1>3 DEF VersionInv, Apply
  <2>5. ASSUME NEW op \in Staff
        PROVE  Explained(held.version, pending[op] # {} \/ Agrees(op))'
    <3>1. CASE tick[t].staff = users
      <4>1. here'[op] = IF users[op] # Absent THEN users[op]
                        ELSE IF pending[op] # {} THEN here[op]
                        ELSE [here[op] EXCEPT !.active = FALSE]
        BY <1>3, <3>1 DEF Apply, AppliedStaff
      <4>2. ~[here[op] EXCEPT !.active = FALSE].active
        BY <1>3, RowType DEF TypeOK
      <4>3. pending'[op] # {} \/ Agrees(op)'
        BY <2>1, <4>1, <4>2 DEF Agrees
      <4> QED  BY <4>3 DEF Explained
    <3>2. CASE tick[t].staff # users
      BY <2>1, <2>3, <2>4, <3>2 DEF Explained, Busy
    <3> QED  BY <3>1, <3>2
  <2>6. Explained(held.version, held.menu = menu)'
    BY <2>1, <2>3, <2>4 DEF Explained, Busy
  <2>7. (untold \/ held.version <= version)'
    BY <1>3, <2>1, <2>3 DEF VersionInv
  <2>8. ASSUME NEW u \in Ticks
        PROVE  /\ (untold \/ tick[u].version <= version)'
               /\ (tick[u].at = "answer" =>
                     Explained(tick[u].version, tick[u].menu = menu /\ tick[u].staff = users))'
    <3>1. CASE u = t
      <4>1. tick'[u] = Quiet
        BY <1>3, <2>2, <3>1 DEF Apply
      <4>2. tick'[u].at # "answer" /\ tick'[u].version <= version
        BY <2>2, <4>1, QuietFields
      <4> QED  BY <2>1, <4>2
    <3>2. CASE u # t
      <4>1. tick'[u] = tick[u]
        BY <1>3, <2>2, <3>2 DEF Apply
      <4> QED  BY <1>3, <2>1, <4>1 DEF VersionInv, Explained, Busy
    <3> QED  BY <3>1, <3>2
  <2> QED  BY <2>5, <2>6, <2>7, <2>8 DEF VersionInv
<1> QED  BY <1>1, <1>2, <1>3 DEF StationNext

\* Initially both sides are the same.
LEMMA InitVersion == Init => VersionInv
<1> SUFFICES ASSUME Init PROVE VersionInv
  OBVIOUS
<1>1. \A t \in Ticks : tick[t] = Quiet
  BY DEF Init
<1>2. \A op \in Staff : Agrees(op)
  BY DEF Init, Agrees, Absent
<1>3. \A t \in Ticks : tick[t].version <= version /\ tick[t].at # "answer"
  BY <1>1, QuietFields DEF Init
<1>4. held.version <= version /\ held.menu = menu
  BY DEF Init
<1> QED  BY <1>2, <1>3, <1>4 DEF VersionInv, Explained

\* A station at the version of the Cloud has what the Cloud has, when no
\* change is on its way and each raised the version.
THEOREM VersionIsTrue == Spec => []VersionTellsContent
<1>1. TypeOK /\ VersionInv /\ [Next]_vars => VersionInv'
  <2>1. VersionInv /\ UNCHANGED vars => VersionInv'
    BY DEF VersionInv, Explained, Agrees, Busy, vars
  <2> QED  BY <2>1, CloudVersion, StationVersion DEF Next
<1>2. TypeOK /\ VersionInv => VersionTellsContent
  <2> SUFFICES ASSUME TypeOK, VersionInv, held.version >= version, ~untold, ~Busy
               PROVE  InStep
    BY DEF VersionTellsContent, Busy
  <2>1. ~(held.version < version)
    BY DEF TypeOK
  <2> QED  BY <2>1 DEF VersionInv, Explained, InStep
<1> QED  BY <1>1, <1>2, InitVersion, TypeCorrect, PTL DEF Spec
=============================================================================
