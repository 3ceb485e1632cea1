----------------------------- MODULE SyncQueue ------------------------------
(***************************************************************************)
(* How the records of a station reach the Cloud (services/edge-api:        *)
(* lib/sync-queue.ts, lib/heartbeat.ts, the end of routes/closure.ts; the  *)
(* upserts of apps/cloud-api, routes/sync.ts).                             *)
(*                                                                         *)
(* A record is one version of an entity (an operator, a customer, an       *)
(* invoice, a cash session, the closure of a day).  Most are rows of the   *)
(* table sync_queue from the start; the closure of a day is sent at once   *)
(* and only queued when the call fails.  Each minute a tick calls the      *)
(* heartbeat and, if it answers, sends the rows that are due one after the *)
(* other; a row whose last attempt failed is due again after 15 minutes.   *)
(* setInterval does not wait for a tick to end, and the handlers that try  *)
(* a row at once run beside it, so several senders may hold the same row.  *)
(*                                                                         *)
(* The station is provisioned and active; the pool Senders bounds how many *)
(* sends run at the same time.                                             *)
(***************************************************************************)
EXTENDS Naturals, FiniteSets

CONSTANTS
  Keys,        \* ids of the entities
  Prompt,      \* those whose rows are tried at once (staff, invoice, session)
  Direct,      \* those sent before they are queued (closure of a day)
  Refused,     \* those the Cloud answers with an error (409 on the email)
  Senders,     \* bound: sends in progress at a time
  MaxRecords,  \* bound: records produced
  MaxRestarts, \* bound: restarts of the station
  MaxStrays,   \* bound: requests given up that the Cloud may still apply
  NoKey

ASSUME SyncQueueAssumption ==
  /\ Prompt \cup Direct \cup Refused \subseteq Keys
  /\ Prompt \cap Direct = {}
  /\ NoKey \notin Keys
  /\ MaxRecords \in Nat
  /\ MaxRestarts \in Nat
  /\ MaxStrays \in Nat

Records == 1..MaxRecords

VARIABLES
  key,       \* key[e]: the entity record e is a version of
  state,     \* state[e]: where record e is on the station
  row,       \* row[e]: position of e in sync_queue, 0 if it has none
  lastRow,   \* rowid of the last row of sync_queue
  recent,    \* recent[e]: the last attempt failed less than 15 minutes ago
  sender,    \* sender[s]: what sender s is doing
  cloud,     \* cloud[k]: the version of k the Cloud holds, 0 if none
  received,  \* records the Cloud has applied
  stray,     \* requests given up by the station that the Cloud may still apply
  tries,     \* history: 1 for a record sent once, 2 if sent again or failed
  restarts   \* number of restarts of the station

queueVars == <<key, state, row, lastRow, recent>>
cloudVars == <<cloud, received>>
vars == <<queueVars, sender, cloudVars, stray, tries, restarts>>

-----------------------------------------------------------------------------
States == {"NONE", "DIRECT", "PENDING", "COMPLETED"}

\* A sender awaits the heartbeat, or the answer for the first record of todo.
Sender == [pc : {"idle", "beating", "sending", "applied"}, todo : SUBSET Records]
Idle   == [pc |-> "idle", todo |-> {}]

InFlight == {s \in Senders : sender[s].pc \in {"sending", "applied"}}

TypeOK ==
  /\ key \in [Records -> Keys \cup {NoKey}]
  /\ state \in [Records -> States]
  /\ row \in [Records -> Nat]
  /\ lastRow \in Nat
  /\ recent \in [Records -> BOOLEAN]
  /\ sender \in [Senders -> Sender]
  /\ \A s \in Senders : s \in InFlight <=> sender[s].todo # {}
  /\ cloud \in [Keys -> Records \cup {0}]
  /\ received \subseteq Records
  /\ stray \subseteq Records
  /\ tries \in [Records -> 0..2]
  /\ restarts \in 0..MaxRestarts

Produced == {e \in Records : state[e] # "NONE"}
Pending  == {e \in Records : state[e] = "PENDING"}

\* Rows are read in the order they were written.
Least(rows) == CHOOSE e \in DOMAIN rows : \A f \in DOMAIN rows : rows[e] <= rows[f]
First(es, rows) == Least([e \in es |-> rows[e]])
Item(s) == First(sender[s].todo, row)

Init ==
  /\ key = [e \in Records |-> NoKey]
  /\ state = [e \in Records |-> "NONE"]
  /\ row = [e \in Records |-> 0]
  /\ lastRow = 0
  /\ recent = [e \in Records |-> FALSE]
  /\ sender = [s \in Senders |-> Idle]
  /\ cloud = [k \in Keys |-> 0]
  /\ received = {}
  /\ stray = {}
  /\ tries = [e \in Records |-> 0]
  /\ restarts = 0

-----------------------------------------------------------------------------
\* Sender s goes on with the records of todo; the request for the first of
\* them leaves at once.
SendFirst(s, todo, rows, tried) ==
  IF todo = {}
  THEN /\ sender' = [sender EXCEPT ![s] = Idle]
       /\ tries' = tried
  ELSE /\ sender' = [sender EXCEPT ![s] = [pc |-> "sending", todo |-> todo]]
       /\ tries' = [tried EXCEPT ![First(todo, rows)] = IF @ = 0 THEN 1 ELSE 2]

\* Record e becomes the last row of the queue.
Insert(e) ==
  /\ state' = [state EXCEPT ![e] = "PENDING"]
  /\ row' = [row EXCEPT ![e] = lastRow + 1]
  /\ lastRow' = lastRow + 1

\* Record e is the next version of k.
Produce(e, k) ==
  /\ Produced = {f \in Records : f < e}
  /\ key' = [key EXCEPT ![e] = k]
  /\ UNCHANGED <<recent, cloudVars, stray, restarts>>

\* Mutant: the record just queued is the one that is tried.
TriedAtOnceNewest(e, k) == {e}

\* The row tried at once is the first pending one of its entity.
TriedAtOnce(e, k) ==
  LET pending == {f \in Pending : key[f] = k}
  IN {IF pending = {} THEN e ELSE First(pending, row)}

\* A record is queued; for some entities a row is tried at once.
Enqueue(e, k) ==
  /\ k \notin Direct
  /\ Produce(e, k)
  /\ Insert(e)
  /\ IF k \in Prompt
     THEN \E s \in Senders :
            /\ sender[s].pc = "idle"
            /\ SendFirst(s, TriedAtOnce(e, k), row, tries)
     ELSE UNCHANGED <<sender, tries>>

\* The end of POST /api/closure/complete: a direct call.
CloseDay(e, k) ==
  /\ k \in Direct
  /\ k \notin {key[f] : f \in Records}
  /\ Produce(e, k)
  /\ state' = [state EXCEPT ![e] = "DIRECT"]
  /\ UNCHANGED <<row, lastRow>>
  /\ \E s \in Senders :
       /\ sender[s].pc = "idle"
       /\ SendFirst(s, {e}, row, tries)

\* A tick of the heartbeat: the call to the Cloud, then the rows that are due
\* at that time.  If the call fails the queue waits for the next tick.
Tick(s) ==
  /\ sender[s].pc = "idle"
  /\ sender' = [sender EXCEPT ![s].pc = "beating"]
  /\ UNCHANGED <<queueVars, cloudVars, stray, tries, restarts>>

BeatFails(s) ==
  /\ sender[s].pc = "beating"
  /\ sender' = [sender EXCEPT ![s] = Idle]
  /\ UNCHANGED <<queueVars, cloudVars, stray, tries, restarts>>

BeatAnswered(s) ==
  /\ sender[s].pc = "beating"
  /\ SendFirst(s, {e \in Pending : ~recent[e]}, row, tries)
  /\ UNCHANGED <<queueVars, cloudVars, stray, restarts>>

\* The Cloud applies a request: an upsert of the entity.
Upsert(e) ==
  /\ cloud' = [cloud EXCEPT ![key[e]] = e]
  /\ received' = received \cup {e}

CloudApplies(s) ==
  /\ sender[s].pc = "sending"
  /\ key[Item(s)] \notin Refused
  /\ Upsert(Item(s))
  /\ sender' = [sender EXCEPT ![s].pc = "applied"]
  /\ UNCHANGED <<queueVars, stray, tries, restarts>>

StrayArrives(e) ==
  /\ e \in stray
  /\ Upsert(e)
  /\ stray' = stray \ {e}
  /\ UNCHANGED <<queueVars, sender, tries, restarts>>

\* The answer comes back.  The loop takes the next record of its snapshot.
Succeed(s) ==
  /\ sender[s].pc = "applied"
  /\ state' = [state EXCEPT ![Item(s)] = "COMPLETED"]
  /\ recent' = [recent EXCEPT ![Item(s)] = FALSE]
  /\ SendFirst(s, sender[s].todo \ {Item(s)}, row, tries)
  /\ UNCHANGED <<key, row, lastRow, cloudVars, stray, restarts>>

\* Mutant: an attempt that failed is marked as done.
FailedForGood(e) ==
  /\ state' = [state EXCEPT ![e] = "COMPLETED"]
  /\ UNCHANGED <<row, lastRow, recent>>

\* What a failed attempt leaves on the station.
Failed(e) ==
  IF state[e] = "DIRECT"
  THEN Insert(e) /\ UNCHANGED recent
  ELSE /\ recent' = [recent EXCEPT ![e] = state[e] = "PENDING"]
       /\ UNCHANGED <<state, row, lastRow>>

\* The requests of ss are given up; the Cloud may apply them all the same.
GiveUp(ss) ==
  LET unanswered == {Item(s) : s \in {s \in ss : sender[s].pc = "sending"}}
  IN \E late \in SUBSET {e \in unanswered : key[e] \notin Refused} :
       /\ Cardinality(stray \cup late) <= MaxStrays
       /\ stray' = stray \cup late

\* Mutant: the first attempt that fails ends the loop.
FailEndsLoop(s) ==
  /\ s \in InFlight
  /\ Failed(Item(s))
  /\ GiveUp({s})
  /\ SendFirst(s, {}, row, [tries EXCEPT ![Item(s)] = 2])
  /\ UNCHANGED <<key, cloudVars, restarts>>

\* The request or its answer is lost, or the Cloud refuses it.  The loop
\* takes the next record of its snapshot.
Fail(s) ==
  /\ s \in InFlight
  /\ Failed(Item(s))
  /\ GiveUp({s})
  /\ SendFirst(s, sender[s].todo \ {Item(s)}, row,
               [tries EXCEPT ![Item(s)] = 2])
  /\ UNCHANGED <<key, cloudVars, restarts>>

TimePasses(e) ==
  /\ recent[e]
  /\ recent' = [recent EXCEPT ![e] = FALSE]
  /\ UNCHANGED <<key, state, row, lastRow, sender, cloudVars, stray, tries, restarts>>

\* The station stops and starts again: the rows stay, the sends are gone.
Restart ==
  /\ restarts < MaxRestarts
  /\ restarts' = restarts + 1
  /\ sender' = [s \in Senders |-> Idle]
  /\ GiveUp(Senders)
  /\ tries' = [e \in Records |->
                 IF \E s \in InFlight : Item(s) = e THEN 2 ELSE tries[e]]
  /\ UNCHANGED <<queueVars, cloudVars>>

-----------------------------------------------------------------------------
SenderStep(s) ==
  \/ Tick(s)
  \/ BeatFails(s)
  \/ BeatAnswered(s)
  \/ CloudApplies(s)
  \/ Succeed(s)
  \/ Fail(s)

Next ==
  \/ \E e \in Records, k \in Keys : Enqueue(e, k) \/ CloseDay(e, k)
  \/ \E s \in Senders : SenderStep(s)
  \/ \E e \in Records : StrayArrives(e) \/ TimePasses(e)
  \/ Restart

Spec == Init /\ [][Next]_vars

(***************************************************************************)
(* Fairness.  Timers fire and every call ends (fetch gives up after a      *)
(* while), and a network that is tried again and again works now and then: *)
(* it does not fail each time for one same record.                         *)
(***************************************************************************)
Fairness ==
  /\ \A e \in Records : WF_vars(TimePasses(e))
  /\ \A s \in Senders : WF_vars(SenderStep(s))
  /\ SF_vars(\E s \in Senders : BeatAnswered(s))
  /\ \A e \in Records :
       /\ SF_vars(\E s \in Senders : CloudApplies(s) /\ e = Item(s))
       /\ SF_vars(\E s \in Senders : Succeed(s) /\ e = Item(s))

FairSpec == Spec /\ Fairness

-----------------------------------------------------------------------------
\* Properties

Confirmed == {e \in Records : state[e] = "COMPLETED"}

O == INSTANCE Outbox WITH accepted <- Produced, confirmed <- Confirmed

(***************************************************************************)
(* The queue implements the outbox: a row is only COMPLETED once the Cloud *)
(* has applied it, through overlapping ticks, lost answers and restarts,   *)
(* and the Cloud never applies what the station did not produce.           *)
(***************************************************************************)
ImplementsOutbox == O!Spec

(***************************************************************************)
(* The Cloud never goes back to an older version of an entity, unless the  *)
(* older one had failed, was cut by a restart or was sent again: while all *)
(* goes well rows of an entity leave in order (tryImmediateStaffSync takes *)
(* the first pending row of the operator, not the one just written).       *)
(***************************************************************************)
OvertakeOnlyAfterRetry ==
  [][\A k \in Keys : cloud'[k] < cloud[k] => tries[cloud'[k]] = 2]_vars

\* Every queued record that the Cloud does not refuse is delivered, although
\* others are refused for ever and stay in the queue (processSyncQueue).
EveryRecordDelivered ==
  \A e \in Records :
    state[e] = "PENDING" /\ key[e] \notin Refused ~> state[e] = "COMPLETED"

\* Every closure of a day reaches the Cloud ("sync cloud + retry").
EveryClosureDelivered ==
  \A e \in Records : state[e] = "DIRECT" ~> e \in received
=============================================================================
