------------------------------ MODULE Catalog ------------------------------
(***************************************************************************)
(* The catalogue and the staff registry: the Cloud owns both, a station    *)
(* holds copies (apps/cloud-api: routes/sync.ts, users.ts, menu.ts,        *)
(* prices.ts, variants.ts, locations.ts, lib/schema-version.ts;            *)
(* services/edge-api: lib/heartbeat.ts, cloud.ts, staff-sync.ts,           *)
(* provision.ts, routes/staff.ts).                                         *)
(*                                                                         *)
(* Each change of the Cloud raises schemaVersion, in three steps with      *)
(* awaits between them: the write, the read of the version, the write of   *)
(* the next.  A station that is behind fetches everything anew: the Cloud  *)
(* reads the version, then the tables one after the other.  Operators are  *)
(* changed on both sides; how the jobs of a station travel is in           *)
(* SyncQueue, here one is applied at some time, or never.                  *)
(***************************************************************************)
EXTENDS Integers, FiniteSets

CONSTANTS
  Requests,   \* requests the Cloud serves at once
  Ticks,      \* heartbeats of the station that overlap
  Staff,      \* operators
  Gap,        \* builds a delta can span: 50 in the code
  MaxEdits,   \* bound: changes, on either side
  MaxVersion  \* bound: no job is applied from this version on

ASSUME CatalogAssumption == Gap \in Nat /\ MaxEdits \in Nat \ {0} /\ MaxVersion \in Nat

VARIABLES
  menu,     \* the last change of what is not staff
  users,    \* users[op]: the row of an operator on the Cloud
  version,  \* brandSettings.schemaVersion
  request,  \* request[r]: a change of the Cloud that has been written
  held,     \* what the station holds: [version, menu]
  here,     \* here[op]: the row of the station
  pending,  \* pending[op]: rows in jobs of the station that are not done
  tick,     \* tick[t]: a heartbeat, or a handshake, and what it has read
  edits,    \* changes so far; the first is what both sides start with
  untold    \* history: a change of the Cloud did not raise the version

vars == <<menu, users, version, request, held, here, pending, tick, edits, untold>>
cloudVars == <<menu, users, version, request, untold>>
stationVars == <<held, here, tick>>

\* A row is the change that wrote it; an operator without one is not active.
Rows == [edit : 0 .. MaxEdits, active : BOOLEAN]
Absent == [edit |-> 0, active |-> FALSE]
Founder == [edit |-> 1, active |-> TRUE]

Idle == [at |-> "idle", op |-> {}, row |-> Absent, read |-> 0]
Quiet == [at |-> "idle", since |-> 0, version |-> 0, menu |-> 0,
          staff |-> [op \in Staff |-> Absent]]

Init ==
  /\ menu = 1 /\ version = 1 /\ edits = 1
  /\ users \in [Staff -> {Absent, Founder}]
  /\ request = [r \in Requests |-> Idle]
  /\ held = [version |-> 1, menu |-> 1]
  /\ here = users
  /\ pending = [op \in Staff |-> {}]
  /\ tick = [t \in Ticks |-> Quiet]
  /\ untold = FALSE

Change == edits < MaxEdits /\ edits' = edits + 1

-----------------------------------------------------------------------------
(* The Cloud *)

Written(r, at) == request' = [request EXCEPT ![r] = [Idle EXCEPT !.at = at]]

\* Categories, products, prices, variants, presets, customers.
MenuEdit(r) ==
  /\ request[r] = Idle
  /\ Change
  /\ menu' = edits'
  /\ Written(r, "written")
  /\ UNCHANGED <<users, version, pending, untold, stationVars>>

\* Settings of a location raise the version in the database.
LocationEdit(r) ==
  /\ request[r] = Idle
  /\ Change
  /\ menu' = edits'
  /\ Written(r, "settings")
  /\ UNCHANGED <<users, version, pending, untold, stationVars>>

\* An operator is created, changed or imported.
UserEdit(r, op, active) ==
  /\ request[r] = Idle
  /\ Change
  /\ users' = [users EXCEPT ![op] = [edit |-> edits', active |-> active]]
  /\ Written(r, "written")
  /\ UNCHANGED <<menu, version, pending, untold, stationVars>>

UserDelete(r, op) ==
  /\ request[r] = Idle
  /\ users[op] # Absent
  /\ Change
  /\ users' = [users EXCEPT ![op] = Absent]
  /\ Written(r, "written")
  /\ UNCHANGED <<menu, version, pending, untold, stationVars>>

\* POST /api/v2/sync/staff: a job of the station is applied.
StaffSync(r, op, row) ==
  /\ request[r] = Idle
  /\ version < MaxVersion
  /\ row \in pending[op]
  /\ users' = [users EXCEPT ![op] = row]
  /\ request' = [request EXCEPT ![r] = [at |-> "written", op |-> {op}, row |-> row,
                                       read |-> 0]]
  /\ UNCHANGED <<menu, version, pending, edits, untold, stationVars>>

\* bumpSchemaVersion, up to its second await.
ReadVersion(r) ==
  /\ request[r].at = "written"
  /\ request' = [request EXCEPT ![r].at = "read", ![r].read = version]
  /\ UNCHANGED <<menu, users, version, pending, edits, untold, stationVars>>

\* The station has the answer of its job, or it is lost.
Answered(r) ==
  \/ pending' = [op \in Staff |-> IF op \in request[r].op
                                  THEN pending[op] \ {request[r].row} ELSE pending[op]]
  \/ UNCHANGED pending

Bumped(r) == request[r].read + 1

WriteVersion(r) ==
  /\ request[r].at = "read"
  /\ version' = Bumped(r)
  /\ untold' = (untold \/ Bumped(r) <= version)
  /\ Answered(r)
  /\ request' = [request EXCEPT ![r] = Idle]
  /\ UNCHANGED <<menu, users, edits, stationVars>>

BumpInPlace(r) ==
  /\ request[r].at = "settings"
  /\ version' = version + 1
  /\ request' = [request EXCEPT ![r] = Idle]
  /\ UNCHANGED <<menu, users, pending, edits, untold, stationVars>>

\* The Cloud stops, or its database, between the write and the version.
RequestDies(r) ==
  /\ request[r] # Idle
  /\ request' = [request EXCEPT ![r] = Idle]
  /\ untold' = TRUE
  /\ UNCHANGED <<menu, users, version, pending, edits, stationVars>>

-----------------------------------------------------------------------------
(* The station *)

\* POST and PATCH of an operator: the row is written and a job queued.
StaffEdit(op, active) ==
  /\ here[op] = Absent => active
  /\ Change
  /\ LET row == [edit |-> edits', active |-> active] IN
     /\ here' = [here EXCEPT ![op] = row]
     /\ pending' = [pending EXCEPT ![op] = @ \cup {row}]
  /\ UNCHANGED <<cloudVars, held, tick>>

\* The Cloud answers a heartbeat that the station is behind.
Beat(t) ==
  /\ tick[t] = Quiet
  /\ version > held.version
  /\ tick' = [tick EXCEPT ![t].at = "due", ![t].since = held.version]
  /\ UNCHANGED <<cloudVars, held, here, pending, edits>>

Reading(t) == tick' = [tick EXCEPT ![t] = [Quiet EXCEPT !.at = "tables", !.version = version]]

\* Mutant: the longest delta is refused.
TooOldByOne(t) == version - tick[t].since >= Gap

TooOld(t) == version - tick[t].since > Gap

\* The delta is everything, from a version read first.
Delta(t) ==
  /\ tick[t].at = "due"
  /\ version > tick[t].since /\ ~TooOld(t)
  /\ Reading(t)
  /\ UNCHANGED <<cloudVars, held, here, pending, edits>>

\* FULL_SNAPSHOT_REQUIRED is no delta, and nothing asks for the snapshot.
DeltaRefused(t) ==
  /\ tick[t].at = "due"
  /\ version <= tick[t].since \/ TooOld(t)
  /\ tick' = [tick EXCEPT ![t] = Quiet]
  /\ UNCHANGED <<cloudVars, held, here, pending, edits>>

\* provisionEdge, again by hand.
Handshake(t) ==
  /\ tick[t] = Quiet
  /\ Reading(t)
  /\ UNCHANGED <<cloudVars, held, here, pending, edits>>

\* buildCatalogSnapshot: the tables, read one after the other; nothing here
\* tells apart whether they are read together.
ReadTables(t) ==
  /\ tick[t].at = "tables"
  /\ tick' = [tick EXCEPT ![t].at = "answer", ![t].menu = menu, ![t].staff = users]
  /\ UNCHANGED <<cloudVars, held, here, pending, edits>>

\* Mutant: operators the Cloud does not list stay active.
KeptStaff(staff) == [op \in Staff |-> IF staff[op] # Absent THEN staff[op] ELSE here[op]]

\* applyStaffFromSnapshot: rows of the Cloud replace those of the station, jobs
\* or not; others are deactivated, unless a job is pending.
AppliedStaff(staff) ==
  [op \in Staff |->
     IF staff[op] # Absent THEN staff[op]
     ELSE IF pending[op] # {} THEN here[op] ELSE [here[op] EXCEPT !.active = FALSE]]

\* Mutant: the version is that of the Cloud now.
HeldNow(t) == [version |-> version, menu |-> tick[t].menu]

Held(t) == [version |-> tick[t].version, menu |-> tick[t].menu]

Apply(t) ==
  /\ tick[t].at = "answer"
  /\ held' = Held(t)
  /\ here' = AppliedStaff(tick[t].staff)
  /\ tick' = [tick EXCEPT ![t] = Quiet]
  /\ UNCHANGED <<cloudVars, pending, edits>>

\* A call fails, or the station restarts.
TickFails(t) ==
  /\ tick[t] # Quiet
  /\ tick' = [tick EXCEPT ![t] = Quiet]
  /\ UNCHANGED <<cloudVars, held, here, pending, edits>>

-----------------------------------------------------------------------------

RequestStep(r) == ReadVersion(r) \/ WriteVersion(r) \/ BumpInPlace(r)

CloudNext ==
  \E r \in Requests :
    \/ MenuEdit(r) \/ LocationEdit(r)
    \/ \E op \in Staff, active \in BOOLEAN : UserEdit(r, op, active)
    \/ \E op \in Staff : UserDelete(r, op)
    \/ \E op \in Staff : \E row \in pending[op] : StaffSync(r, op, row)
    \/ ReadVersion(r) \/ WriteVersion(r) \/ BumpInPlace(r) \/ RequestDies(r)

StationNext ==
  \/ \E op \in Staff, active \in BOOLEAN : StaffEdit(op, active)
  \/ \E t \in Ticks :
       \/ Beat(t) \/ Delta(t) \/ DeltaRefused(t) \/ Handshake(t)
       \/ ReadTables(t) \/ Apply(t) \/ TickFails(t)

Next == CloudNext \/ StationNext

Spec == Init /\ [][Next]_vars

\* Requests end; a heartbeat goes out each minute, and the network does not
\* fail each time at the same point.
FairSpec ==
  /\ Spec
  /\ \A r \in Requests : WF_vars(RequestStep(r))
  /\ \A t \in Ticks :
       /\ WF_vars(Beat(t)) /\ WF_vars(DeltaRefused(t))
       /\ SF_vars(Delta(t)) /\ SF_vars(ReadTables(t))
       /\ SF_vars(Apply(t))

-----------------------------------------------------------------------------
(* Properties *)

TypeOK ==
  /\ edits \in 0 .. MaxEdits /\ menu \in 0 .. MaxEdits
  /\ version \in Nat
  /\ users \in [Staff -> Rows] /\ here \in [Staff -> Rows]
  /\ pending \in [Staff -> SUBSET Rows]
  /\ request \in [Requests -> [at : {"idle", "written", "read", "settings"},
                               op : SUBSET Staff, row : Rows, read : Nat]]
  /\ held \in [version : Nat, menu : 0 .. MaxEdits]
  /\ tick \in [Ticks -> [at : {"idle", "due", "tables", "answer"}, since : Nat,
                         version : Nat, menu : 0 .. MaxEdits, staff : [Staff -> Rows]]]
  /\ untold \in BOOLEAN

\* An operator deleted from the Cloud is inactive here, any other is the same.
Agrees(op) == IF users[op] = Absent THEN ~here[op].active ELSE here[op] = users[op]

InStep == held.menu = menu /\ \A op \in Staff : pending[op] = {} => Agrees(op)

\* A station at the version of the Cloud holds what the Cloud has, but for
\* changes on their way; bumpSchemaVersion is not atomic, so only as long as
\* each request raised the version.
VersionTellsContent ==
  held.version >= version /\ ~untold /\ (\A r \in Requests : request[r] = Idle) => InStep

\* When changes end, the station ends with them: unless it is more than Gap
\* builds behind, which only a new handshake mends, or one was never told.
CatchesUp == <>[](untold \/ version - held.version > Gap \/ InStep)
=============================================================================
