-------------------------- MODULE SyncQueueProofs ---------------------------
(***************************************************************************)
(* Proofs about SyncQueue, for every value of its constants: it has the    *)
(* types of its model, it implements Outbox, and a record only overtakes a *)
(* newer version of its entity after a retry.                              *)
(***************************************************************************)
EXTENDS SyncQueue, WellFoundedInduction, FiniteSetTheorems, TLAPS

-----------------------------------------------------------------------------
\* The first row of a set of records

LEMMA SmallestNumber ==
  ASSUME NEW T \in SUBSET Nat, T # {}
  PROVE  \E n \in T : \A m \in T : n <= m
<1> DEFINE Upto(n) == 1..n
           U == {Upto(n) : n \in T}
<1>1. U \subseteq FiniteSubsetsOf(Nat) /\ U # {}
  <2>1. ASSUME NEW n \in T PROVE Upto(n) \in FiniteSubsetsOf(Nat)
    <3>1. IsFiniteSet(1..n)
      BY FS_Interval
    <3> QED
      BY <3>1 DEF FiniteSubsetsOf
  <2> QED
    BY <2>1
<1>2. PICK A \in U : \A B \in U : <<B, A>> \notin StrictSubsetOrdering(Nat)
  <2> HIDE DEF U
  <2> QED
    BY <1>1, FS_StrictSubsetOrderingWellFounded, WFMin
<1>3. PICK n \in T : A = Upto(n)
  OBVIOUS
<1>4. ASSUME NEW m \in T PROVE n <= m
  <2>1. <<Upto(m), Upto(n)>> \notin StrictSubsetOrdering(Nat)
    BY <1>2, <1>3
  <2>2. Upto(m) \subseteq Nat /\ Upto(n) \subseteq Nat
    OBVIOUS
  <2>3. ~(Upto(m) \subseteq Upto(n) /\ Upto(m) # Upto(n))
    BY <2>1, <2>2 DEF StrictSubsetOrdering
  <2>4. CASE m < n
    <3>1. Upto(m) \subseteq Upto(n)
      BY <2>4
    <3>2. n \in Upto(n) /\ n \notin Upto(m)
      BY <2>4
    <3> QED
      BY <2>3, <3>1, <3>2
  <2> QED
    BY <2>4
<1> QED
  BY <1>4

LEMMA LeastExists ==
  ASSUME NEW es, es # {}, NEW rows \in [es -> Nat]
  PROVE  Least(rows) \in es /\ \A f \in es : rows[Least(rows)] <= rows[f]
<1>1. {rows[e] : e \in es} \in SUBSET Nat /\ {rows[e] : e \in es} # {}
  OBVIOUS
<1>2. PICK n \in {rows[e] : e \in es} : \A m \in {rows[e] : e \in es} : n <= m
  BY <1>1, SmallestNumber
<1>3. PICK e \in es : \A f \in es : rows[e] <= rows[f]
  BY <1>2
<1> QED
  BY <1>3 DEF Least

LEMMA FirstExists ==
  ASSUME NEW es \in SUBSET Records, es # {}, NEW rows \in [Records -> Nat]
  PROVE  /\ First(es, rows) \in es
         /\ \A f \in es : rows[First(es, rows)] <= rows[f]
<1> DEFINE g == [e \in es |-> rows[e]]
<1>1. g \in [es -> Nat]
  OBVIOUS
<1>2. First(es, rows) = Least(g)
  BY DEF First
<1>3. Least(g) \in es /\ \A f \in es : g[Least(g)] <= g[f]
  BY <1>1, LeastExists
<1> QED
  BY <1>2, <1>3

\* It only depends on the rows of these records.
LEMMA FirstSame ==
  ASSUME NEW es, NEW r1, NEW r2, \A e \in es : r1[e] = r2[e]
  PROVE  First(es, r1) = First(es, r2)
<1>1. [e \in es |-> r1[e]] = [e \in es |-> r2[e]]
  OBVIOUS
<1> QED
  BY <1>1 DEF First

-----------------------------------------------------------------------------
\* What a sender does next

LEMMA SendFirstEffect ==
  ASSUME TypeOK, NEW s \in Senders, NEW todo \in SUBSET Records,
         NEW tried \in [Records -> 0..2], SendFirst(s, todo, row, tried)
  PROVE  /\ sender' \in [Senders -> Sender]
         /\ sender'[s].todo = todo
         /\ sender'[s].pc = IF todo = {} THEN "idle" ELSE "sending"
         /\ \A s2 \in Senders : s2 # s => sender'[s2] = sender[s2]
         /\ tries' \in [Records -> 0..2]
         /\ todo = {} => tries' = tried
         /\ todo # {} =>
              /\ First(todo, row) \in todo
              /\ \A f \in todo : row[First(todo, row)] <= row[f]
              /\ tries'[First(todo, row)] = IF tried[First(todo, row)] = 0 THEN 1 ELSE 2
              /\ \A e \in Records : e # First(todo, row) => tries'[e] = tried[e]
<1>1. CASE todo = {}
  BY <1>1 DEF SendFirst, TypeOK, Sender, Idle
<1>2. CASE todo # {}
  <2>1. /\ First(todo, row) \in todo
        /\ \A f \in todo : row[First(todo, row)] <= row[f]
    BY <1>2, FirstExists DEF TypeOK
  <2> QED
    BY <1>2, <2>1 DEF SendFirst, TypeOK, Sender
<1> QED
  BY <1>1, <1>2

LEMMA ItemExists ==
  ASSUME TypeOK, NEW s \in InFlight
  PROVE  /\ s \in Senders
         /\ Item(s) \in sender[s].todo
         /\ Item(s) \in Records
         /\ \A f \in sender[s].todo : row[Item(s)] <= row[f]
<1>1. s \in Senders /\ sender[s].todo # {} /\ sender[s].todo \in SUBSET Records
  BY DEF TypeOK, InFlight, Sender
<1> QED
  BY <1>1, FirstExists DEF TypeOK, Item

-----------------------------------------------------------------------------
\* The inductive invariant

\* Record e is served: its one send has succeeded, or it was sent again.
Served(e) == tries[e] = 2 \/ (tries[e] = 1 /\ state[e] = "COMPLETED")

\* e is an older version of the entity of f.
Older(e, f) == e < f /\ key[e] = key[f] /\ state[f] # "NONE"

Flying(s, e) == s \in InFlight /\ Item(s) = e

\* Records are produced and queued in order, the closure of a day only once.
RowsInv ==
  /\ \A e \in Records : row[e] <= lastRow
  /\ \A e \in Records : (state[e] = "NONE") <=> (key[e] = NoKey)
  /\ \A e \in Records : state[e] = "DIRECT" => key[e] \in Direct
  /\ \A e, f \in Records : state[f] # "NONE" /\ e < f => state[e] # "NONE"
  /\ \A e, f \in Records : Older(e, f) => key[f] \notin Direct /\ row[e] < row[f]

\* What senders hold was produced; what is confirmed or held was received.
SendInv ==
  /\ \A s \in Senders : \A e \in sender[s].todo : state[e] # "NONE"
  /\ \A s \in Senders : \A e \in sender[s].todo : state[e] = "DIRECT" =>
       \A s2 \in Senders : e \in sender[s2].todo => s2 = s
  /\ \A s \in Senders : sender[s].pc = "applied" => Item(s) \in received
  /\ \A e \in Records : state[e] = "COMPLETED" => e \in received
  /\ \A e \in received : tries[e] > 0
  /\ \A k \in Keys : cloud[k] # 0 => cloud[k] \in received /\ key[cloud[k]] = k

\* What the number of tries says of a record.
TriesInv ==
  /\ \A e \in Records : tries[e] = 0 =>
       state[e] \in {"NONE", "PENDING"} /\ \A s \in Senders : ~Flying(s, e)
  /\ \A e \in Records : tries[e] > 0 => state[e] # "NONE"
  /\ \A e \in Records : tries[e] < 2 => e \notin stray /\ ~recent[e]
  /\ \A e \in Records : tries[e] = 1 =>
       \A s, s2 \in Senders : Flying(s, e) /\ Flying(s2, e) => s = s2
  /\ \A e \in Records : tries[e] = 1 /\ state[e] = "COMPLETED" =>
       \A s \in Senders : ~Flying(s, e)

\* A newer version is sent once the older ones are served.
OrderInv ==
  /\ \A s \in Senders : \A f \in sender[s].todo : \A e \in Records :
       Older(e, f) => e \in sender[s].todo \/ Served(e)
  /\ \A e, f \in Records : Older(e, f) /\ tries[f] > 0 => Served(e)

QueueInv == TypeOK /\ RowsInv /\ SendInv /\ TriesInv /\ OrderInv

LEMMA InvInit == Init => QueueInv
<1> SUFFICES ASSUME Init PROVE QueueInv
  OBVIOUS
<1>1. TypeOK
  BY SyncQueueAssumption DEF Init, TypeOK, InFlight, Sender, Idle, States, Records
<1>2. RowsInv
  BY SyncQueueAssumption DEF Init, RowsInv, Older
<1>3. SendInv
  BY DEF Init, SendInv, Idle
<1>4. TriesInv
  BY DEF Init, TriesInv, Flying, InFlight, Idle
<1>5. OrderInv
  BY DEF Init, OrderInv, Idle, Older
<1> QED
  BY <1>1, <1>2, <1>3, <1>4, <1>5 DEF QueueInv

\* A sender that a step leaves alone sends the same record.
LEMMA FlyingKept ==
  ASSUME TypeOK, NEW s \in Senders, sender'[s] = sender[s],
         \A e \in sender[s].todo : row'[e] = row[e]
  PROVE  /\ Item(s)' = Item(s)
         /\ \A e \in Records : Flying(s, e)' <=> Flying(s, e)
<1>1. First(sender[s].todo, row') = First(sender[s].todo, row)
  BY FirstSame
<1>2. Item(s)' = Item(s)
  BY <1>1 DEF Item
<1> QED
  BY <1>2 DEF Flying, InFlight

\* Senders that start or end nothing: no row is touched.
LEMMA BeatKeeps ==
  ASSUME QueueInv, NEW s \in Senders, Tick(s) \/ BeatFails(s)
  PROVE  QueueInv'
<1> USE DEF QueueInv
<1>1. /\ UNCHANGED <<key, state, row, lastRow, recent, cloud, received, stray,
                    tries, restarts>>
      /\ sender' \in [Senders -> Sender]
      /\ \A s2 \in Senders : sender'[s2].todo = sender[s2].todo
      /\ \A s2 \in Senders : sender'[s2].pc \in {"sending", "applied"}
                               <=> sender[s2].pc \in {"sending", "applied"}
      /\ \A s2 \in Senders : sender'[s2].pc = "applied" => sender[s2].pc = "applied"
  <2>1. sender[s].pc \in {"idle", "beating"} /\ sender[s] \in Sender
    BY DEF Tick, BeatFails, TypeOK
  <2>2. sender[s].todo = {}
    BY <2>1 DEF TypeOK, InFlight
  <2>3. /\ UNCHANGED <<key, state, row, lastRow, recent, cloud, received, stray,
                      tries, restarts>>
        /\ \/ sender' = [sender EXCEPT ![s].pc = "beating"]
           \/ sender' = [sender EXCEPT ![s] = Idle]
    BY DEF Tick, BeatFails, queueVars, cloudVars
  <2>4. CASE sender' = [sender EXCEPT ![s].pc = "beating"]
    BY <2>1, <2>2, <2>3, <2>4 DEF TypeOK, Sender
  <2>5. CASE sender' = [sender EXCEPT ![s] = Idle]
    BY <2>1, <2>2, <2>3, <2>5 DEF TypeOK, Sender, Idle
  <2> QED
    BY <2>3, <2>4, <2>5
<1>2. TypeOK'
  BY <1>1 DEF TypeOK, InFlight
<1>3. \A s2 \in Senders : Item(s2)' = Item(s2)
  BY <1>1 DEF Item
<1>4. \A s2 \in Senders, e \in Records : Flying(s2, e)' <=> Flying(s2, e)
  BY <1>1, <1>3 DEF Flying, InFlight
<1>5. RowsInv'
  BY <1>1 DEF RowsInv, Older
<1>6. SendInv'
  BY <1>1, <1>3 DEF SendInv
<1>7. TriesInv'
  BY <1>1, <1>4 DEF TriesInv
<1>8. OrderInv'
  BY <1>1 DEF OrderInv, Older, Served
<1> QED
  BY <1>2, <1>5, <1>6, <1>7, <1>8

LEMMA TimeKeeps ==
  ASSUME QueueInv, NEW e \in Records, TimePasses(e)
  PROVE  QueueInv'
<1> USE DEF QueueInv, TimePasses, cloudVars
<1>1. TypeOK'
  BY DEF TypeOK, InFlight
<1>2. \A s \in Senders : Item(s)' = Item(s)
  BY DEF Item
<1>3. \A s \in Senders, f \in Records : Flying(s, f)' <=> Flying(s, f)
  BY <1>2 DEF Flying, InFlight
<1>4. RowsInv'
  BY DEF RowsInv, Older
<1>5. SendInv'
  BY <1>2 DEF SendInv
<1>6. TriesInv'
  BY <1>3 DEF TriesInv, TypeOK
<1>7. OrderInv'
  BY DEF OrderInv, Older, Served
<1> QED
  BY <1>1, <1>4, <1>5, <1>6, <1>7

\* The Cloud applies a record that was sent.
LEMMA UpsertKeeps ==
  ASSUME QueueInv, NEW e \in Records, tries[e] > 0, Upsert(e),
         UNCHANGED <<key, state, tries>>,
         \A s \in Senders : sender'[s].todo = sender[s].todo,
         \A s \in Senders : Item(s)' = Item(s),
         \A s \in Senders : sender'[s].pc = "applied"
                              => sender[s].pc = "applied" \/ Item(s) = e
  PROVE  SendInv' /\ cloud' \in [Keys -> Records \cup {0}]
<1> USE DEF QueueInv
<1>1. key[e] \in Keys
  BY DEF TriesInv, RowsInv, TypeOK
<1>2. /\ cloud' \in [Keys -> Records \cup {0}]
      /\ \A k \in Keys : cloud'[k] = IF k = key[e] THEN e ELSE cloud[k]
      /\ received' = received \cup {e}
  BY <1>1 DEF Upsert, TypeOK
<1>3. SendInv'
  BY <1>1, <1>2 DEF SendInv
<1> QED
  BY <1>2, <1>3

LEMMA CloudKeeps ==
  ASSUME QueueInv, NEW s \in Senders, CloudApplies(s)
  PROVE  QueueInv'
<1> USE DEF QueueInv
<1> DEFINE i == Item(s)
<1>1. /\ UNCHANGED <<key, state, row, lastRow, recent, stray, tries, restarts>>
      /\ Upsert(i)
      /\ sender[s].pc = "sending"
      /\ sender' = [sender EXCEPT ![s].pc = "applied"]
  BY DEF CloudApplies, queueVars
<1>2. s \in InFlight /\ i \in Records /\ i \in sender[s].todo
  BY <1>1, ItemExists DEF InFlight
<1>3. tries[i] > 0
  BY <1>2 DEF TriesInv, Flying, TypeOK
<1>4. /\ sender' \in [Senders -> Sender]
      /\ \A s2 \in Senders : sender'[s2].todo = sender[s2].todo
      /\ \A s2 \in Senders : sender'[s2].pc \in {"sending", "applied"}
                               <=> sender[s2].pc \in {"sending", "applied"}
      /\ \A s2 \in Senders : s2 # s => sender'[s2].pc = sender[s2].pc
  BY <1>1 DEF TypeOK, Sender
<1>5. \A s2 \in Senders : Item(s2)' = Item(s2)
  BY <1>1, <1>4 DEF Item
<1>6. \A s2 \in Senders, e \in Records : Flying(s2, e)' <=> Flying(s2, e)
  BY <1>4, <1>5 DEF Flying, InFlight
<1>7. SendInv' /\ cloud' \in [Keys -> Records \cup {0}]
  BY <1>1, <1>2, <1>3, <1>4, <1>5, UpsertKeeps
<1>8. TypeOK'
  BY <1>1, <1>2, <1>4, <1>7 DEF TypeOK, InFlight, Upsert
<1>9. RowsInv'
  BY <1>1 DEF RowsInv, Older
<1>10. TriesInv'
  BY <1>1, <1>6 DEF TriesInv
<1>11. OrderInv'
  BY <1>1, <1>4 DEF OrderInv, Older, Served
<1> QED
  BY <1>7, <1>8, <1>9, <1>10, <1>11

LEMMA StrayKeeps ==
  ASSUME QueueInv, NEW e \in Records, StrayArrives(e)
  PROVE  QueueInv'
<1> USE DEF QueueInv
<1>1. /\ UNCHANGED <<key, state, row, lastRow, recent, sender, tries, restarts>>
      /\ Upsert(e)
      /\ e \in stray
      /\ stray' = stray \ {e}
  BY DEF StrayArrives, queueVars
<1>2. tries[e] > 0
  BY <1>1 DEF TriesInv, TypeOK
<1>3. \A s \in Senders : Item(s)' = Item(s)
  BY <1>1 DEF Item
<1>4. \A s \in Senders, f \in Records : Flying(s, f)' <=> Flying(s, f)
  BY <1>1, <1>3 DEF Flying, InFlight
<1>5. SendInv' /\ cloud' \in [Keys -> Records \cup {0}]
  BY <1>1, <1>2, <1>3, UpsertKeeps
<1>6. TypeOK'
  BY <1>1, <1>5 DEF TypeOK, InFlight, Upsert
<1>7. RowsInv'
  BY <1>1 DEF RowsInv, Older
<1>8. TriesInv'
  BY <1>1, <1>4 DEF TriesInv
<1>9. OrderInv'
  BY <1>1 DEF OrderInv, Older, Served
<1> QED
  BY <1>5, <1>6, <1>7, <1>8, <1>9

\* Sender s goes on with record i, or with none when i = 0.
LEMMA TriesKeeps ==
  ASSUME QueueInv, NEW s \in Senders, NEW i \in Records \cup {0},
         \A s2 \in Senders, e \in Records : s2 # s => (Flying(s2, e)' <=> Flying(s2, e)),
         \A e \in Records : Flying(s, e)' <=> e = i,
         \A e \in Records : e = i => tries'[e] = IF tries[e] = 0 THEN 1 ELSE 2,
         \A e \in Records : e # i => tries'[e] \in {tries[e], 2},
         \A e \in Records : tries'[e] = 0 => state'[e] \in {"NONE", "PENDING"},
         \A e \in Records : tries'[e] > 0 => state'[e] # "NONE",
         \A e \in Records : tries'[e] < 2 => e \notin stray' /\ ~recent'[e],
         \A e \in Records : state'[e] = "COMPLETED" =>
                              state[e] = "COMPLETED" \/ (e # i /\ Flying(s, e))
  PROVE  TriesInv'
<1> USE DEF QueueInv
<1>1. \A e \in Records : tries[e] \in 0..2
  BY DEF TypeOK
<1>2. ASSUME NEW e \in Records, tries'[e] = 0, NEW s2 \in Senders
      PROVE  ~Flying(s2, e)'
  <2>1. e # i /\ tries[e] = 0
    BY <1>1, <1>2
  <2>2. ~Flying(s2, e)
    BY <2>1 DEF TriesInv
  <2> QED
    BY <2>1, <2>2
<1>3. ASSUME NEW e \in Records, tries'[e] = 1, NEW s2 \in Senders, NEW s3 \in Senders,
             Flying(s2, e)', Flying(s3, e)'
      PROVE  s2 = s3
  <2>1. CASE e = i
    <3>1. tries[e] = 0
      BY <1>1, <1>3, <2>1
    <3>2. \A s4 \in Senders : ~Flying(s4, e)
      BY <3>1 DEF TriesInv
    <3> QED
      BY <1>3, <3>2
  <2>2. CASE e # i
    <3>1. tries[e] = 1 /\ s2 # s /\ s3 # s
      BY <1>1, <1>3, <2>2
    <3>2. Flying(s2, e) /\ Flying(s3, e)
      BY <1>3, <3>1
    <3> QED
      BY <3>1, <3>2 DEF TriesInv
  <2> QED
    BY <2>1, <2>2
<1>4. ASSUME NEW e \in Records, tries'[e] = 1, state'[e] = "COMPLETED",
             NEW s2 \in Senders, Flying(s2, e)'
      PROVE  FALSE
  <2>1. CASE e = i
    <3>1. tries[e] = 0 /\ state[e] = "COMPLETED"
      BY <1>1, <1>4, <2>1
    <3> QED
      BY <3>1 DEF TriesInv
  <2>2. CASE e # i
    <3>1. tries[e] = 1 /\ s2 # s
      BY <1>1, <1>4, <2>2
    <3>2. Flying(s2, e)
      BY <1>4, <3>1
    <3>3. state[e] # "COMPLETED"
      BY <3>1, <3>2 DEF TriesInv
    <3>4. Flying(s, e)
      BY <1>4, <3>3
    <3> QED
      BY <3>1, <3>2, <3>4 DEF TriesInv
  <2> QED
    BY <2>1, <2>2
<1> QED
  BY <1>2, <1>3, <1>4 DEF TriesInv

\* The same for the order in which the versions of an entity are sent.
LEMMA OrderKeeps ==
  ASSUME QueueInv, NEW s \in Senders, NEW i \in Records \cup {0},
         NEW todo \in SUBSET Records, sender'[s].todo = todo,
         \A s2 \in Senders : s2 # s => sender'[s2].todo = sender[s2].todo,
         i \in Records => i \in todo /\ \A f \in todo : row[i] <= row[f],
         \A e, f \in Records : Older(e, f)' <=> Older(e, f),
         \A e \in Records : Served(e) => Served(e)',
         \A f \in todo, e \in Records : Older(e, f) => e \in todo \/ Served(e)',
         \A f \in Records : f # i /\ tries'[f] > 0 => tries[f] > 0
  PROVE  OrderInv'
<1> USE DEF QueueInv
<1>1. \A s2 \in Senders : sender[s2].todo \in SUBSET Records
  BY DEF TypeOK, Sender
<1>2. \A s2 \in Senders : \A f \in sender'[s2].todo : \A e \in Records :
        Older(e, f)' => e \in sender'[s2].todo \/ Served(e)'
  BY <1>1 DEF OrderInv
<1>3. ASSUME NEW e \in Records, NEW f \in Records, Older(e, f)', tries'[f] > 0
      PROVE  Served(e)'
  <2>1. CASE f = i
    <3>1. row[e] < row[f] /\ row[e] \in Nat /\ row[f] \in Nat
      BY <1>3 DEF RowsInv, TypeOK
    <3>2. e \notin todo
      BY <2>1, <3>1
    <3> QED
      BY <1>3, <2>1, <3>2
  <2>2. CASE f # i
    BY <1>3, <2>2 DEF OrderInv
  <2> QED
    BY <2>1, <2>2
<1> QED
  BY <1>2, <1>3 DEF OrderInv

\* The tick takes the rows that are due and sends the first of them.
LEMMA AnswerKeeps ==
  ASSUME QueueInv, NEW s \in Senders, BeatAnswered(s)
  PROVE  QueueInv'
<1> USE DEF QueueInv
<1> DEFINE due == {e \in Pending : ~recent[e]}
           i == First(due, row)
<1>1. /\ UNCHANGED <<key, state, row, lastRow, recent, cloud, received, stray,
                    restarts>>
      /\ SendFirst(s, due, row, tries)
      /\ due \in SUBSET Records
      /\ tries \in [Records -> 0..2]
      /\ sender[s].pc = "beating"
  BY DEF BeatAnswered, queueVars, cloudVars, Pending, TypeOK
<1>2. /\ sender' \in [Senders -> Sender]
      /\ sender'[s].todo = due
      /\ sender'[s].pc = IF due = {} THEN "idle" ELSE "sending"
      /\ \A s2 \in Senders : s2 # s => sender'[s2] = sender[s2]
      /\ tries' \in [Records -> 0..2]
      /\ due = {} => tries' = tries
      /\ due # {} =>
           /\ i \in due
           /\ \A f \in due : row[i] <= row[f]
           /\ tries'[i] = IF tries[i] = 0 THEN 1 ELSE 2
           /\ \A e \in Records : e # i => tries'[e] = tries[e]
  <2> HIDE DEF due
  <2> QED
    BY <1>1, SendFirstEffect
<1>3. \A s2 \in Senders : s2 # s =>
        /\ Item(s2)' = Item(s2)
        /\ \A e \in Records : Flying(s2, e)' <=> Flying(s2, e)
  BY <1>1, <1>2, FlyingKept
<1>4. \A e \in Records : Flying(s, e)' <=> due # {} /\ e = i
  BY <1>1, <1>2 DEF Flying, InFlight, Item
<1>5. \A e \in due : state[e] = "PENDING" /\ ~recent[e] /\ e \in Records
  BY DEF Pending
<1>6. \A e \in Records : tries'[e] >= tries[e] /\ (tries[e] = 2 => tries'[e] = 2)
  BY <1>2, <1>5 DEF TypeOK
<1>7. TypeOK'
  BY <1>1, <1>2 DEF TypeOK, InFlight
<1>8. RowsInv'
  BY <1>1 DEF RowsInv, Older
<1>9. SendInv'
  <2>1. \A s2 \in Senders : \A e \in sender'[s2].todo : state[e] = "DIRECT" =>
          s2 # s
    BY <1>2, <1>5
  <2>2. \A s2 \in Senders : \A e \in sender'[s2].todo : state[e] = "DIRECT" =>
          \A s3 \in Senders : e \in sender'[s3].todo => s3 = s2
    BY <1>2, <2>1 DEF SendInv
  <2>3. \A e \in received : e \in Records /\ tries[e] > 0
    BY DEF SendInv, TypeOK
  <2>5. \A e \in received : tries'[e] > 0
    BY <1>1, <1>2, <1>6, <2>3
  <2>4. \A s2 \in Senders : sender'[s2].pc = "applied" => Item(s2)' \in received
    BY <1>2, <1>3 DEF SendInv
  <2> QED
    BY <1>1, <1>2, <1>5, <2>2, <2>5, <2>4 DEF SendInv
<1> DEFINE sent == IF due = {} THEN 0 ELSE i
<1>10. /\ sent \in Records \cup {0}
       /\ \A e \in Records : e = sent <=> due # {} /\ e = i
  BY <1>2, <1>5 DEF Records
<1>11. TriesInv'
  <2>1. \A e \in Records : state'[e] = "COMPLETED" =>
          state[e] = "COMPLETED" \/ (e # sent /\ Flying(s, e))
    BY <1>1
  <2>2. \A e \in Records : tries'[e] = 0 => state'[e] \in {"NONE", "PENDING"}
    BY <1>1, <1>6 DEF TriesInv
  <2>3. \A e \in Records : tries'[e] > 0 => state'[e] # "NONE"
    BY <1>1, <1>2, <1>5 DEF TriesInv
  <2>4. \A e \in Records : tries'[e] < 2 => e \notin stray' /\ ~recent'[e]
    BY <1>1, <1>2, <1>6 DEF TriesInv
  <2>5. \A e \in Records : e = sent => tries'[e] = IF tries[e] = 0 THEN 1 ELSE 2
    BY <1>2, <1>10
  <2>6. \A e \in Records : e # sent => tries'[e] \in {tries[e], 2}
    BY <1>2, <1>10
  <2>7. \A e \in Records : Flying(s, e)' <=> e = sent
    BY <1>4, <1>10
  <2> HIDE DEF sent
  <2> QED
    BY <1>3, <1>10, <2>1, <2>2, <2>3, <2>4, <2>5, <2>6, <2>7, TriesKeeps
<1>12. OrderInv'
  <2>1. \A e, f \in Records : Older(e, f)' <=> Older(e, f)
    BY <1>1 DEF Older
  <2>2. \A e \in Records : Served(e) => Served(e)'
    BY <1>1, <1>2, <1>6 DEF Served, TypeOK
  <2>3. ASSUME NEW f \in due, NEW e \in Records, Older(e, f)
        PROVE  e \in due \/ Served(e)'
    <3>1. state[e] \in {"PENDING", "COMPLETED"} /\ key[e] \notin Direct
      BY <1>5, <2>3 DEF RowsInv, Older, TypeOK, States
    <3>2. e \in due \/ Served(e)
      BY <3>1 DEF Served, TriesInv, Pending, TypeOK
    <3> QED
      BY <2>2, <3>2
  <2>4. sent \in Records => sent \in due /\ \A f \in due : row[sent] <= row[f]
    BY <1>2, <1>10
  <2>5. \A f \in Records : f # sent /\ tries'[f] > 0 => tries[f] > 0
    BY <1>2, <1>10
  <2> HIDE DEF sent, due
  <2> QED
    BY <1>1, <1>2, <1>10, <2>1, <2>2, <2>3, <2>4, <2>5, OrderKeeps
<1> QED
  BY <1>7, <1>8, <1>9, <1>11, <1>12

\* An answer, or none, for the record j that sender s has sent: it is COMPLETED,
\* or its attempt has failed; the sender goes on with the rest of its records.
LEMMA DoneKeeps ==
  ASSUME QueueInv, NEW s \in InFlight, NEW j, j = Item(s),
         NEW tried \in [Records -> 0..2],
         SendFirst(s, sender[s].todo \ {j}, row, tried),
         TypeOK', RowsInv',
         UNCHANGED <<key, cloud, received>>,
         \A e \in Records : e # j =>
           /\ state'[e] = state[e] /\ recent'[e] = recent[e] /\ row'[e] = row[e]
           /\ tried[e] = tries[e],
         stray' \subseteq stray \cup {j},
         row'[j] # row[j] => state[j] = "DIRECT",
         \/ /\ state'[j] = "COMPLETED" /\ j \in received
            /\ ~recent'[j] /\ stray' = stray
            /\ tried[j] = tries[j]
         \/ /\ state'[j] \in {state[j], "PENDING"}
            /\ state[j] = "COMPLETED" => state'[j] = "COMPLETED"
            /\ tried[j] = 2
  PROVE  QueueInv'
<1> USE DEF QueueInv
<1> DEFINE rest == sender[s].todo \ {j}
           i == First(rest, row)
           sent == IF rest = {} THEN 0 ELSE i
<1>1. /\ s \in Senders /\ j \in sender[s].todo /\ j \in Records
      /\ \A f \in sender[s].todo : row[j] <= row[f]
      /\ rest \in SUBSET Records
      /\ Flying(s, j) /\ \A e \in Records : Flying(s, e) => e = j
  BY ItemExists DEF TypeOK, Sender, Flying
<1>2. /\ tries[j] \in {1, 2} /\ tried[j] \in {tries[j], 2}
      /\ state[j] # "NONE"
  BY <1>1 DEF TriesInv, TypeOK
<1>3. /\ sender' \in [Senders -> Sender]
      /\ sender'[s].todo = rest
      /\ sender'[s].pc = IF rest = {} THEN "idle" ELSE "sending"
      /\ \A s2 \in Senders : s2 # s => sender'[s2] = sender[s2]
      /\ tries' \in [Records -> 0..2]
      /\ rest = {} => tries' = tried
      /\ rest # {} =>
           /\ i \in rest
           /\ \A f \in rest : row[i] <= row[f]
           /\ tries'[i] = IF tried[i] = 0 THEN 1 ELSE 2
           /\ \A e \in Records : e # i => tries'[e] = tried[e]
  <2>1. /\ SendFirst(s, rest, row, tried) /\ rest \in SUBSET Records
        /\ TypeOK /\ s \in Senders /\ tried \in [Records -> 0..2]
    BY <1>1
  <2> HIDE DEF rest, QueueInv
  <2> QED
    BY <2>1, SendFirstEffect
<1>4. /\ sent \in Records \cup {0}
      /\ \A e \in Records : e = sent <=> rest # {} /\ e = i
      /\ sent # j
  BY <1>1, <1>3 DEF Records
<1> HIDE DEF sent
<1>5. /\ \A e \in Records : e = sent => tries'[e] = IF tries[e] = 0 THEN 1 ELSE 2
      /\ \A e \in Records : e # sent /\ e # j => tries'[e] = tries[e]
      /\ tries'[j] = tried[j]
      /\ \A e \in Records : e # sent => tries'[e] \in {tries[e], 2}
  <2>1. \A e \in Records : e # sent => tries'[e] = tried[e]
    BY <1>3, <1>4
  <2>2. ASSUME NEW e \in Records, e = sent
        PROVE  tries'[e] = IF tries[e] = 0 THEN 1 ELSE 2
    <3>1. rest # {} /\ e = i /\ e # j
      BY <1>4, <2>2
    <3>2. tries'[e] = (IF tried[e] = 0 THEN 1 ELSE 2) /\ tried[e] = tries[e]
      BY <1>3, <3>1
    <3> QED
      BY <3>2
  <2> QED
    BY <1>1, <1>2, <1>4, <2>1, <2>2
<1>6. \A e \in Records : tries[e] \in 0..2 /\ tries'[e] \in 0..2 /\ tries'[e] >= tries[e]
  BY <1>3, <1>4, <1>5 DEF TypeOK
<1>7. \A s2 \in Senders : s2 # s => \A e \in sender[s2].todo : row'[e] = row[e]
  <2>1. ASSUME NEW s2 \in Senders, s2 # s, j \in sender[s2].todo
        PROVE  state[j] # "DIRECT"
    BY <1>1, <2>1 DEF SendInv
  <2> QED
    BY <1>1, <2>1 DEF TypeOK, Sender
<1>8. \A s2 \in Senders : s2 # s =>
        /\ Item(s2)' = Item(s2)
        /\ \A e \in Records : Flying(s2, e)' <=> Flying(s2, e)
  BY <1>3, <1>7, FlyingKept
<1>9. \A e \in Records : Flying(s, e)' <=> e = sent
  <2>1. First(rest, row') = First(rest, row)
    BY <1>1, FirstSame
  <2> QED
    BY <1>1, <1>3, <1>4, <2>1 DEF Flying, InFlight, Item
<1>10. SendInv'
  <2>1. \A e \in Records : state[e] # "NONE" => state'[e] # "NONE"
    BY <1>1
  <2>2. \A e \in Records : state'[e] = "DIRECT" => state[e] = "DIRECT"
    BY <1>1
  <2>3. \A s2 \in Senders : \A e \in sender'[s2].todo : e \in sender[s2].todo /\ e \in Records
    BY <1>1, <1>3 DEF TypeOK, Sender
  <2>4. \A s2 \in Senders : \A e \in sender'[s2].todo : state'[e] # "NONE"
    BY <2>1, <2>3 DEF SendInv
  <2>5. \A s2 \in Senders : \A e \in sender'[s2].todo : state'[e] = "DIRECT" =>
          \A s3 \in Senders : e \in sender'[s3].todo => s3 = s2
    BY <2>2, <2>3 DEF SendInv
  <2>6. \A s2 \in Senders : sender'[s2].pc = "applied" => Item(s2)' \in received'
    BY <1>3, <1>8 DEF SendInv
  <2>7. \A e \in Records : state'[e] = "COMPLETED" => e \in received'
    BY <1>1 DEF SendInv
  <2>8. \A e \in received' : tries'[e] > 0
    BY <1>6 DEF SendInv, TypeOK
  <2>9. \A k \in Keys : cloud'[k] # 0 => cloud'[k] \in received' /\ key'[cloud'[k]] = k
    BY DEF SendInv
  <2> QED
    BY <2>4, <2>5, <2>6, <2>7, <2>8, <2>9 DEF SendInv
<1>11. TriesInv'
  <2>1. \A e \in Records : tries'[e] = 0 => state'[e] \in {"NONE", "PENDING"}
    BY <1>2, <1>5, <1>6 DEF TriesInv
  <2>2. \A e \in Records : tries'[e] > 0 => state'[e] # "NONE"
    <3>1. \A e \in rest : state[e] # "NONE"
      BY <1>1 DEF SendInv
    <3>2. ASSUME NEW e \in Records, e # j, tries'[e] > 0 PROVE state'[e] # "NONE"
      <4>1. CASE e = sent
        BY <1>3, <1>4, <3>1, <3>2, <4>1
      <4>2. CASE e # sent
        BY <1>5, <3>2, <4>2 DEF TriesInv
      <4> QED
        BY <4>1, <4>2
    <3>3. state'[j] # "NONE"
      BY <1>2
    <3> QED
      BY <3>2, <3>3
  <2>3. \A e \in Records : tries'[e] < 2 => e \notin stray' /\ ~recent'[e]
    <3>1. ASSUME NEW e \in Records, e # j, tries'[e] < 2
          PROVE  e \notin stray' /\ ~recent'[e]
      BY <1>6, <3>1 DEF TriesInv
    <3>2. tries'[j] < 2 => j \notin stray' /\ ~recent'[j]
      BY <1>1, <1>2, <1>5, <1>6 DEF TriesInv
    <3> QED
      BY <3>1, <3>2
  <2>4. \A e \in Records : state'[e] = "COMPLETED" =>
          state[e] = "COMPLETED" \/ (e # sent /\ Flying(s, e))
    BY <1>1, <1>4
  <2> QED
    BY <1>1, <1>4, <1>5, <1>8, <1>9, <2>1, <2>2, <2>3, <2>4, TriesKeeps
<1>12. OrderInv'
  <2>1. \A e, f \in Records : Older(e, f)' <=> Older(e, f)
    BY <1>2 DEF Older
  <2>2. Served(j)' \/ tries'[j] = 2
    BY <1>1, <1>2, <1>5 DEF Served
  <2>3. \A e \in Records : Served(e) => Served(e)'
    BY <1>1, <1>5, <1>6, <2>2 DEF Served
  <2>4. ASSUME NEW f \in rest, NEW e \in Records, Older(e, f)
        PROVE  e \in rest \/ Served(e)'
    <3>1. e \in sender[s].todo \/ Served(e)
      BY <1>1, <2>4 DEF OrderInv
    <3> QED
      BY <1>1, <2>2, <2>3, <3>1 DEF Served
  <2>5. sent \in Records => sent \in rest /\ \A f \in rest : row[sent] <= row[f]
    BY <1>3, <1>4
  <2>6. \A f \in Records : f # sent /\ tries'[f] > 0 => tries[f] > 0
    BY <1>2, <1>5
  <2> HIDE DEF rest
  <2> QED
    BY <1>1, <1>3, <1>4, <2>1, <2>3, <2>4, <2>5, <2>6, OrderKeeps
<1> QED
  BY <1>10, <1>11, <1>12

\* The Cloud has answered: the record is COMPLETED.
LEMMA SucceedKeeps ==
  ASSUME QueueInv, NEW s \in Senders, Succeed(s)
  PROVE  QueueInv'
<1> USE DEF QueueInv
<1> DEFINE j == Item(s)
<1>1. /\ UNCHANGED <<key, row, lastRow, cloud, received, stray, restarts>>
      /\ state' = [state EXCEPT ![j] = "COMPLETED"]
      /\ recent' = [recent EXCEPT ![j] = FALSE]
      /\ SendFirst(s, sender[s].todo \ {j}, row, tries)
      /\ tries \in [Records -> 0..2]
      /\ sender[s].pc = "applied" /\ s \in InFlight
  BY DEF Succeed, cloudVars, TypeOK, InFlight
<1>2. j \in Records /\ j \in received /\ state[j] # "NONE"
  BY <1>1, ItemExists DEF SendInv
<1>3. TypeOK'
  <2>1. sender[s].todo \ {j} \in SUBSET Records
    BY <1>1 DEF TypeOK, Sender
  <2>2. /\ sender' \in [Senders -> Sender]
        /\ sender'[s].todo = sender[s].todo \ {j}
        /\ sender'[s].pc = IF sender[s].todo \ {j} = {} THEN "idle" ELSE "sending"
        /\ \A s2 \in Senders : s2 # s => sender'[s2] = sender[s2]
        /\ tries' \in [Records -> 0..2]
    BY <1>1, <2>1, SendFirstEffect
  <2> QED
    BY <1>1, <1>2, <2>2 DEF TypeOK, InFlight, States
<1>4. RowsInv'
  BY <1>1, <1>2 DEF RowsInv, Older, TypeOK
<1>5. PICK c : c = j
  OBVIOUS
<1>6. /\ \A e \in Records : e # c =>
           state'[e] = state[e] /\ recent'[e] = recent[e] /\ row'[e] = row[e]
      /\ state'[c] = "COMPLETED" /\ ~recent'[c]
  BY <1>1, <1>2, <1>5 DEF TypeOK
<1>7. /\ QueueInv /\ s \in InFlight /\ c = Item(s) /\ c \in received
      /\ tries \in [Records -> 0..2]
      /\ SendFirst(s, sender[s].todo \ {c}, row, tries)
      /\ UNCHANGED <<key, row, cloud, received, stray>>
  BY <1>1, <1>2, <1>5
<1> HIDE DEF QueueInv, j
<1> QED
  BY <1>3, <1>4, <1>6, <1>7, DoneKeeps

\* The attempt has failed: a direct record is queued, a row waits 15 minutes.
LEMMA FailKeeps ==
  ASSUME QueueInv, NEW s \in Senders, Fail(s)
  PROVE  QueueInv'
<1> USE DEF QueueInv
<1>1. PICK j : j = Item(s)
  OBVIOUS
<1>2. s \in InFlight /\ j \in Records /\ j \in sender[s].todo /\ state[j] # "NONE"
  <2>1. s \in InFlight
    BY DEF Fail
  <2> QED
    BY <1>1, <2>1, ItemExists DEF SendInv
<1> DEFINE tried == [tries EXCEPT ![j] = 2]
<1>3. /\ UNCHANGED <<key, cloud, received, restarts>>
      /\ Failed(j)
      /\ SendFirst(s, sender[s].todo \ {j}, row, tried)
      /\ tried \in [Records -> 0..2]
  <2>1. tried \in [Records -> 0..2]
    BY <1>2 DEF TypeOK
  <2>2. SendFirst(s, sender[s].todo \ {j}, row, tried)
    BY <1>1, Zenon DEF Fail
  <2> QED
    BY <1>1, <2>1, <2>2 DEF Fail, cloudVars
<1>4. stray' \subseteq stray \cup {j}
  BY <1>1 DEF Fail, GiveUp
<1>5. /\ state' \in [Records -> States]
      /\ row' \in [Records -> Nat]
      /\ lastRow' \in Nat /\ lastRow' >= lastRow
      /\ recent' \in [Records -> BOOLEAN]
      /\ \A e \in Records : e # j =>
           state'[e] = state[e] /\ recent'[e] = recent[e] /\ row'[e] = row[e]
      /\ state'[j] = IF state[j] = "DIRECT" THEN "PENDING" ELSE state[j]
      /\ row'[j] = IF state[j] = "DIRECT" THEN lastRow' ELSE row[j]
  <2>1. CASE state[j] = "DIRECT"
    <3>1. /\ state' = [state EXCEPT ![j] = "PENDING"]
          /\ row' = [row EXCEPT ![j] = lastRow + 1]
          /\ lastRow' = lastRow + 1
          /\ recent' = recent
      BY <1>3, <2>1 DEF Failed, Insert
    <3> QED
      BY <1>2, <2>1, <3>1 DEF TypeOK, States
  <2>2. CASE state[j] # "DIRECT"
    <3>1. /\ UNCHANGED <<state, row, lastRow>>
          /\ recent' = [recent EXCEPT ![j] = state[j] = "PENDING"]
      BY <1>3, <2>2 DEF Failed
    <3> QED
      BY <1>2, <2>2, <3>1 DEF TypeOK
  <2> QED
    BY <2>1, <2>2
<1>6. TypeOK'
  <2>1. sender[s].todo \ {j} \in SUBSET Records
    BY <1>2 DEF TypeOK, Sender
  <2> HIDE DEF tried
  <2>2. /\ sender' \in [Senders -> Sender]
        /\ sender'[s].todo = sender[s].todo \ {j}
        /\ sender'[s].pc = IF sender[s].todo \ {j} = {} THEN "idle" ELSE "sending"
        /\ \A s2 \in Senders : s2 # s => sender'[s2] = sender[s2]
        /\ tries' \in [Records -> 0..2]
    BY <1>2, <1>3, <2>1, SendFirstEffect
  <2> QED
    BY <1>2, <1>3, <1>4, <1>5, <2>2 DEF TypeOK, InFlight
<1>7. RowsInv'
  <2>1. \A e \in Records : row'[e] <= lastRow'
    BY <1>2, <1>5 DEF RowsInv, TypeOK
  <2>2. /\ \A e \in Records : (state'[e] = "NONE") <=> (state[e] = "NONE")
        /\ \A e \in Records : state'[e] = "DIRECT" => state[e] = "DIRECT"
    BY <1>2, <1>5
  <2>3. \A e, f \in Records : Older(e, f)' <=> Older(e, f)
    BY <1>3, <2>2 DEF Older
  <2>4. ASSUME NEW e \in Records, NEW f \in Records, Older(e, f)
        PROVE  key[f] \notin Direct /\ row'[e] < row'[f]
    <3>1. key[f] \notin Direct /\ key[e] = key[f] /\ row[e] < row[f]
      BY <2>4 DEF RowsInv, Older
    <3>2. state[e] # "DIRECT" /\ state[f] # "DIRECT"
      BY <3>1 DEF RowsInv
    <3>3. row'[e] = row[e] /\ row'[f] = row[f]
      BY <1>5, <3>2
    <3> QED
      BY <3>1, <3>3
  <2> QED
    BY <1>3, <2>1, <2>2, <2>3, <2>4 DEF RowsInv
<1>8. /\ \A e \in Records : e # j => tried[e] = tries[e]
      /\ tried[j] = 2
  BY <1>2 DEF TypeOK
<1> HIDE DEF tried
<1> QED
  BY <1>1, <1>2, <1>3, <1>4, <1>5, <1>6, <1>7, <1>8, DoneKeeps

\* After a restart nothing is in flight.
LEMMA RestartKeeps ==
  ASSUME QueueInv, Restart
  PROVE  QueueInv'
<1> USE DEF QueueInv
<1>1. /\ UNCHANGED <<key, state, row, lastRow, recent, cloud, received>>
      /\ restarts < MaxRestarts /\ restarts' = restarts + 1
      /\ sender' = [s \in Senders |-> Idle]
      /\ tries' = [e \in Records |->
                     IF \E s \in InFlight : Item(s) = e THEN 2 ELSE tries[e]]
  BY DEF Restart, queueVars, cloudVars
<1>2. \A e \in stray' : e \in stray \/ \E s \in InFlight : Item(s) = e
  BY DEF Restart, GiveUp, InFlight
<1>3. \A s \in InFlight : Item(s) \in Records /\ tries[Item(s)] > 0
  <2>1. ASSUME NEW s \in InFlight PROVE Item(s) \in Records /\ tries[Item(s)] > 0
    BY ItemExists DEF TriesInv, Flying, TypeOK
  <2> QED
    BY <2>1
<1>4. \A e \in Records :
        /\ tries[e] \in 0..2 /\ tries'[e] \in 0..2
        /\ tries[e] = 0 <=> tries'[e] = 0
        /\ tries'[e] < 2 => tries'[e] = tries[e]
        /\ (\E s \in InFlight : Item(s) = e) => tries'[e] = 2
  BY <1>1, <1>3 DEF TypeOK
<1>5. TypeOK'
  BY <1>1, <1>2, <1>3, SyncQueueAssumption DEF TypeOK, InFlight, Sender, Idle
<1>6. RowsInv'
  BY <1>1 DEF RowsInv, Older
<1>7. SendInv'
  <2>1. \A e \in received : tries'[e] > 0
    BY <1>4 DEF SendInv, TypeOK
  <2> QED
    BY <1>1, <2>1 DEF SendInv, Idle
<1>8. TriesInv'
  <2>1. \A s \in Senders, e \in Records : ~Flying(s, e)'
    BY <1>1 DEF Flying, InFlight, Idle
  <2> QED
    BY <1>1, <1>2, <1>4, <2>1 DEF TriesInv
<1>9. OrderInv'
  <2>1. \A e \in Records : Served(e) => Served(e)'
    BY <1>1, <1>4 DEF Served
  <2> QED
    BY <1>1, <1>4, <2>1 DEF OrderInv, Older, Idle
<1> QED
  BY <1>5, <1>6, <1>7, <1>8, <1>9

\* The closure of a day is sent before it is queued.
LEMMA CloseKeeps ==
  ASSUME QueueInv, NEW n \in Records, NEW k \in Keys, CloseDay(n, k)
  PROVE  QueueInv'
<1> USE DEF QueueInv
<1>1. /\ k \in Direct /\ k \notin {key[f] : f \in Records}
      /\ Produced = {f \in Records : f < n}
      /\ key' = [key EXCEPT ![n] = k]
      /\ state' = [state EXCEPT ![n] = "DIRECT"]
      /\ UNCHANGED <<row, lastRow, recent, cloud, received, stray, restarts>>
  BY DEF CloseDay, Produce, cloudVars
<1>2. PICK s \in Senders : sender[s].pc = "idle" /\ SendFirst(s, {n}, row, tries)
  BY DEF CloseDay
<1>3. /\ \A f \in Records : state[f] # "NONE" <=> f < n
      /\ state[n] = "NONE" /\ tries[n] = 0 /\ tries \in [Records -> 0..2]
  <2>1. \A f \in Records : f \in Produced <=> f < n
    BY <1>1
  <2>2. \A f \in Records : state[f] # "NONE" <=> f < n
    BY <2>1 DEF Produced
  <2>3. state[n] = "NONE"
    BY <2>2 DEF Records
  <2> QED
    BY <2>2, <2>3 DEF TriesInv, TypeOK
<1>4. /\ sender' \in [Senders -> Sender]
      /\ sender'[s].todo = {n} /\ sender'[s].pc = "sending"
      /\ \A s2 \in Senders : s2 # s => sender'[s2] = sender[s2]
      /\ tries' \in [Records -> 0..2]
      /\ tries'[n] = 1
      /\ \A e \in Records : e # n => tries'[e] = tries[e]
  <2>1. {n} \in SUBSET Records /\ {n} # {}
    OBVIOUS
  <2>2. First({n}, row) = n
    BY <2>1, FirstExists DEF TypeOK
  <2> QED
    BY <1>2, <1>3, <2>1, <2>2, SendFirstEffect
<1>5. \A s2 \in Senders : s2 # s =>
        /\ Item(s2)' = Item(s2)
        /\ \A e \in Records : Flying(s2, e)' <=> Flying(s2, e)
  BY <1>1, <1>4, FlyingKept
<1>6. \A e \in Records : Flying(s, e)' <=> e = n
  <2>1. First({n}, row') = n
    BY <1>1, FirstExists DEF TypeOK
  <2> QED
    BY <1>4, <2>1 DEF Flying, InFlight, Item
<1>7. /\ \A e \in Records : e # n => state'[e] = state[e] /\ key'[e] = key[e]
      /\ state'[n] = "DIRECT" /\ key'[n] = k
      /\ n \notin received /\ n \notin stray /\ ~recent[n]
      /\ \A s2 \in Senders : n \notin sender[s2].todo
  BY <1>1, <1>3 DEF TypeOK, SendInv, TriesInv
<1>8. TypeOK'
  BY <1>1, <1>4 DEF TypeOK, InFlight, States
<1>9. \A e, f \in Records : Older(e, f)' <=> Older(e, f)
  <2>1. ASSUME NEW e \in Records, NEW f \in Records
        PROVE  Older(e, f)' <=> Older(e, f)
    <3>1. CASE f = n
      BY <1>1, <1>3, <1>7, <3>1 DEF Older, Records
    <3>2. CASE e = n /\ f # n
      BY <1>3, <1>7, <3>2 DEF Older, Records
    <3>3. CASE e # n /\ f # n
      BY <1>7, <3>3 DEF Older
    <3> QED
      BY <3>1, <3>2, <3>3
  <2> QED
    BY <2>1
<1>10. RowsInv'
  <2>1. \A e \in Records : (state'[e] = "NONE") <=> (key'[e] = NoKey)
    BY <1>7, SyncQueueAssumption DEF RowsInv
  <2>2. \A e \in Records : state'[e] = "DIRECT" => key'[e] \in Direct
    BY <1>1, <1>7 DEF RowsInv
  <2>3. \A e, f \in Records : state'[f] # "NONE" /\ e < f => state'[e] # "NONE"
    BY <1>3, <1>7 DEF RowsInv, Records
  <2>4. \A e, f \in Records : Older(e, f)' => key'[f] \notin Direct /\ row'[e] < row'[f]
    BY <1>1, <1>3, <1>7, <1>9 DEF RowsInv, Older
  <2> QED
    BY <1>1, <2>1, <2>2, <2>3, <2>4 DEF RowsInv
<1>11. SendInv'
  <2>1. \A s2 \in Senders : \A e \in sender'[s2].todo :
          e \in Records /\ (e = n => s2 = s) /\ (e # n => e \in sender[s2].todo)
    BY <1>4, <1>7 DEF TypeOK, Sender
  <2>2. \A s2 \in Senders : \A e \in sender'[s2].todo : state'[e] # "NONE"
    BY <1>7, <2>1 DEF SendInv
  <2>3. \A s2 \in Senders : \A e \in sender'[s2].todo : state'[e] = "DIRECT" =>
          \A s3 \in Senders : e \in sender'[s3].todo => s3 = s2
    BY <1>7, <2>1 DEF SendInv
  <2>4. \A s2 \in Senders : sender'[s2].pc = "applied" => Item(s2)' \in received
    BY <1>4, <1>5 DEF SendInv
  <2>5. \A e \in Records : state'[e] = "COMPLETED" => e \in received
    BY <1>7 DEF SendInv
  <2>6. \A e \in received : tries'[e] > 0
    BY <1>4, <1>7 DEF SendInv, TypeOK
  <2>7. \A k2 \in Keys : cloud[k2] # 0 => cloud[k2] \in received /\ key'[cloud[k2]] = k2
    BY <1>7 DEF SendInv, TypeOK
  <2> QED
    BY <1>1, <2>2, <2>3, <2>4, <2>5, <2>6, <2>7 DEF SendInv
<1>12. TriesInv'
  <2>1. \A e \in Records : tries'[e] = 0 => state'[e] \in {"NONE", "PENDING"}
    BY <1>4, <1>7 DEF TriesInv
  <2>2. \A e \in Records : tries'[e] > 0 => state'[e] # "NONE"
    BY <1>4, <1>7 DEF TriesInv
  <2>3. \A e \in Records : tries'[e] < 2 => e \notin stray' /\ ~recent'[e]
    BY <1>1, <1>4, <1>7 DEF TriesInv
  <2>4. \A e \in Records : state'[e] = "COMPLETED" =>
          state[e] = "COMPLETED" \/ (e # n /\ Flying(s, e))
    BY <1>7
  <2>5. \A e \in Records : e = n => tries'[e] = IF tries[e] = 0 THEN 1 ELSE 2
    BY <1>3, <1>4
  <2>6. \A e \in Records : e # n => tries'[e] \in {tries[e], 2}
    BY <1>4
  <2> QED
    BY <1>5, <1>6, <2>1, <2>2, <2>3, <2>4, <2>5, <2>6, TriesKeeps
<1>13. OrderInv'
  <2>1. \A e \in Records : Served(e) => Served(e)'
    BY <1>3, <1>4, <1>7 DEF Served
  <2>2. \A f \in {n}, e \in Records : Older(e, f) => e \in {n} \/ Served(e)'
    BY <1>3 DEF Older
  <2>3. n \in Records => n \in {n} /\ \A f \in {n} : row[n] <= row[f]
    BY DEF TypeOK
  <2>4. \A f \in Records : f # n /\ tries'[f] > 0 => tries[f] > 0
    BY <1>4
  <2>5. {n} \in SUBSET Records /\ n \in Records \cup {0}
    OBVIOUS
  <2>6. \A s2 \in Senders : s2 # s => sender'[s2].todo = sender[s2].todo
    BY <1>4
  <2> QED
    BY <1>4, <1>9, <2>1, <2>2, <2>3, <2>4, <2>5, <2>6, OrderKeeps
<1> QED
  BY <1>8, <1>10, <1>11, <1>12, <1>13

\* What queueing record n of entity k does to the rows.
LEMMA QueuedRows ==
  ASSUME QueueInv, NEW n \in Records, NEW k \in Keys, k \notin Direct,
         Produce(n, k), Insert(n)
  PROVE  /\ \A f \in Records : state[f] # "NONE" <=> f < n
         /\ state[n] = "NONE" /\ tries[n] = 0
         /\ \A e \in Records : e # n =>
              state'[e] = state[e] /\ key'[e] = key[e] /\ row'[e] = row[e]
         /\ state'[n] = "PENDING" /\ key'[n] = k
         /\ n \notin received /\ n \notin stray /\ ~recent[n]
         /\ \A s \in Senders : n \notin sender[s].todo /\ ~Flying(s, n)
         /\ UNCHANGED <<recent, cloud, received, stray, restarts>>
         /\ \A e, f \in Records : f # n => (Older(e, f)' <=> Older(e, f))
         /\ \A e \in Records : Older(e, n)' => e < n /\ key[e] = k
         /\ key' \in [Records -> Keys \cup {NoKey}]
         /\ state' \in [Records -> States]
         /\ row' \in [Records -> Nat]
         /\ lastRow' \in Nat
         /\ RowsInv'
<1> USE DEF QueueInv
<1>1. /\ Produced = {f \in Records : f < n}
      /\ key' = [key EXCEPT ![n] = k]
      /\ state' = [state EXCEPT ![n] = "PENDING"]
      /\ row' = [row EXCEPT ![n] = lastRow + 1]
      /\ lastRow' = lastRow + 1
      /\ UNCHANGED <<recent, cloud, received, stray, restarts>>
  BY DEF Produce, Insert, cloudVars
<1>2. /\ \A f \in Records : state[f] # "NONE" <=> f < n
      /\ state[n] = "NONE" /\ tries[n] = 0
  <2>1. \A f \in Records : f \in Produced <=> f < n
    BY <1>1
  <2>2. \A f \in Records : state[f] # "NONE" <=> f < n
    BY <2>1 DEF Produced
  <2>3. state[n] = "NONE"
    BY <2>2 DEF Records
  <2> QED
    BY <2>2, <2>3 DEF TriesInv, TypeOK
<1>3. /\ \A e \in Records : e # n =>
           state'[e] = state[e] /\ key'[e] = key[e] /\ row'[e] = row[e]
      /\ state'[n] = "PENDING" /\ key'[n] = k /\ row'[n] = lastRow + 1
      /\ n \notin received /\ n \notin stray /\ ~recent[n]
      /\ \A s \in Senders : n \notin sender[s].todo /\ ~Flying(s, n)
  BY <1>1, <1>2 DEF TypeOK, SendInv, TriesInv
<1>4. \A e, f \in Records : f # n => (Older(e, f)' <=> Older(e, f))
  <2>1. ASSUME NEW e \in Records, NEW f \in Records, f # n
        PROVE  Older(e, f)' <=> Older(e, f)
    <3>1. CASE e = n
      BY <1>2, <1>3, <2>1, <3>1 DEF Older, Records
    <3>2. CASE e # n
      BY <1>3, <2>1, <3>2 DEF Older
    <3> QED
      BY <3>1, <3>2
  <2> QED
    BY <2>1
<1>5. \A e \in Records : Older(e, n)' => e < n /\ key[e] = k
  BY <1>3 DEF Older, Records
<1>6. /\ key' \in [Records -> Keys \cup {NoKey}]
      /\ state' \in [Records -> States]
      /\ row' \in [Records -> Nat]
      /\ lastRow' \in Nat
  BY <1>1 DEF TypeOK, States
<1>7. RowsInv'
  <2>1. \A e \in Records : (state'[e] = "NONE") <=> (key'[e] = NoKey)
    BY <1>3, SyncQueueAssumption DEF RowsInv
  <2>2. \A e \in Records : state'[e] = "DIRECT" => key'[e] \in Direct
    BY <1>3 DEF RowsInv
  <2>3. \A e, f \in Records : state'[f] # "NONE" /\ e < f => state'[e] # "NONE"
    BY <1>2, <1>3 DEF RowsInv, Records
  <2>4. \A e \in Records : row'[e] <= lastRow'
    BY <1>1, <1>3 DEF RowsInv, TypeOK
  <2>5. ASSUME NEW e \in Records, NEW f \in Records, Older(e, f)'
        PROVE  key'[f] \notin Direct /\ row'[e] < row'[f]
    <3>1. CASE f = n
      <4>1. e # n /\ row'[e] = row[e] /\ row[e] <= lastRow
        BY <1>3, <1>5, <2>5, <3>1 DEF RowsInv, Records
      <4> QED
        BY <1>3, <3>1, <4>1 DEF TypeOK
    <3>2. CASE f # n
      <4>1. Older(e, f) /\ e # n
        BY <1>2, <1>4, <2>5, <3>2 DEF Older, Records
      <4> QED
        BY <1>3, <3>2, <4>1 DEF RowsInv
    <3> QED
      BY <3>1, <3>2
  <2> QED
    BY <2>1, <2>2, <2>3, <2>4, <2>5 DEF RowsInv
<1> QED
  BY <1>1, <1>2, <1>3, <1>4, <1>5, <1>6, <1>7

LEMMA EnqueueKeeps ==
  ASSUME QueueInv, NEW n \in Records, NEW k \in Keys, Enqueue(n, k)
  PROVE  QueueInv'
<1> USE DEF QueueInv
<1>1. /\ \A f \in Records : state[f] # "NONE" <=> f < n
      /\ state[n] = "NONE" /\ tries[n] = 0
      /\ \A e \in Records : e # n =>
           state'[e] = state[e] /\ key'[e] = key[e] /\ row'[e] = row[e]
      /\ state'[n] = "PENDING" /\ key'[n] = k
      /\ n \notin received /\ n \notin stray /\ ~recent[n]
      /\ \A s \in Senders : n \notin sender[s].todo /\ ~Flying(s, n)
      /\ UNCHANGED <<recent, cloud, received, stray, restarts>>
  BY QueuedRows DEF Enqueue
<1>2. /\ \A e, f \in Records : f # n => (Older(e, f)' <=> Older(e, f))
      /\ \A e \in Records : Older(e, n)' => e < n /\ key[e] = k
  BY QueuedRows DEF Enqueue
<1>3. /\ key' \in [Records -> Keys \cup {NoKey}]
      /\ state' \in [Records -> States]
      /\ row' \in [Records -> Nat]
      /\ lastRow' \in Nat
      /\ RowsInv'
  BY QueuedRows DEF Enqueue
<1>4. \A s \in Senders : \A e \in sender[s].todo : e \in Records /\ e # n
  BY <1>1 DEF TypeOK, Sender
<1>5. CASE k \notin Prompt
  <2>1. UNCHANGED <<sender, tries>>
    BY <1>5 DEF Enqueue
  <2>2. \A s \in Senders :
          /\ Item(s)' = Item(s)
          /\ \A e \in Records : Flying(s, e)' <=> Flying(s, e)
    BY <1>1, <1>4, <2>1, FlyingKept
  <2>3. TypeOK'
    BY <1>1, <1>3, <2>1 DEF TypeOK, InFlight
  <2>4. SendInv'
    BY <1>1, <1>4, <2>1, <2>2 DEF SendInv, TypeOK
  <2>5. TriesInv'
    BY <1>1, <2>1, <2>2 DEF TriesInv
  <2>6. OrderInv'
    <3>1. \A e \in Records : Served(e) => Served(e)'
      BY <1>1, <2>1 DEF Served
    <3>2. \A s \in Senders : \A f \in sender'[s].todo : \A e \in Records :
            Older(e, f)' => e \in sender'[s].todo \/ Served(e)'
      BY <1>2, <1>4, <2>1, <3>1 DEF OrderInv
    <3>3. \A e, f \in Records : Older(e, f)' /\ tries'[f] > 0 => Served(e)'
      BY <1>1, <1>2, <2>1, <3>1 DEF OrderInv
    <3> QED
      BY <3>2, <3>3 DEF OrderInv
  <2> QED
    BY <1>3, <2>3, <2>4, <2>5, <2>6
<1>6. CASE k \in Prompt
  <2> DEFINE pending == {f \in Pending : key[f] = k}
  <2>1. PICK i : i = IF pending = {} THEN n ELSE First(pending, row)
    OBVIOUS
  <2>2. PICK s \in Senders : sender[s].pc = "idle" /\ SendFirst(s, {i}, row, tries)
    BY <1>6, <2>1 DEF Enqueue, TriedAtOnce
  <2>3. /\ i \in Records /\ state'[i] = "PENDING"
        /\ i # n => state[i] = "PENDING"
        /\ pending = {} => i = n
        /\ pending # {} => i \in pending /\ \A f \in pending : row[i] <= row[f]
    <3>1. CASE pending = {}
      BY <1>1, <2>1, <3>1
    <3>2. CASE pending # {}
      <4>1. pending \in SUBSET Records
        BY DEF Pending
      <4>2. First(pending, row) \in pending
            /\ \A f \in pending : row[First(pending, row)] <= row[f]
        BY <3>2, <4>1, FirstExists DEF TypeOK
      <4>3. i \in pending /\ \A f \in pending : row[i] <= row[f]
        BY <2>1, <3>2, <4>2
      <4>4. i \in Records /\ state[i] = "PENDING"
        BY <4>3 DEF Pending
      <4> QED
        BY <1>1, <3>2, <4>3, <4>4
    <3> QED
      BY <3>1, <3>2
  <2>4. First({i}, row) = i /\ First({i}, row') = i
    <3>1. {i} \in SUBSET Records /\ {i} # {}
      BY <2>3
    <3> QED
      BY <1>3, <3>1, FirstExists DEF TypeOK
  <2>5. /\ sender' \in [Senders -> Sender]
        /\ sender'[s].todo = {i} /\ sender'[s].pc = "sending"
        /\ \A s2 \in Senders : s2 # s => sender'[s2] = sender[s2]
        /\ tries' \in [Records -> 0..2]
        /\ tries'[i] = IF tries[i] = 0 THEN 1 ELSE 2
        /\ \A e \in Records : e # i => tries'[e] = tries[e]
    <3> DEFINE todo == {i}
    <3>1. /\ todo \in SUBSET Records /\ todo # {} /\ tries \in [Records -> 0..2]
          /\ TypeOK /\ SendFirst(s, todo, row, tries) /\ First(todo, row) = i
      BY <2>2, <2>3, <2>4 DEF TypeOK
    <3> HIDE DEF todo, QueueInv
    <3>2. /\ sender' \in [Senders -> Sender]
          /\ sender'[s].todo = todo /\ sender'[s].pc = "sending"
          /\ \A s2 \in Senders : s2 # s => sender'[s2] = sender[s2]
          /\ tries' \in [Records -> 0..2]
          /\ tries'[i] = IF tries[i] = 0 THEN 1 ELSE 2
          /\ \A e \in Records : e # i => tries'[e] = tries[e]
      BY <3>1, SendFirstEffect
    <3> QED
      BY <3>2 DEF todo
  <2>6. \A s2 \in Senders : s2 # s =>
          /\ Item(s2)' = Item(s2)
          /\ \A e \in Records : Flying(s2, e)' <=> Flying(s2, e)
    BY <1>1, <1>4, <2>5, FlyingKept
  <2>7. \A e \in Records : Flying(s, e)' <=> e = i
    BY <2>4, <2>5 DEF Flying, InFlight, Item
  <2>8. TypeOK'
    <3>1. /\ recent' \in [Records -> BOOLEAN]
          /\ cloud' \in [Keys -> Records \cup {0}]
          /\ received' \subseteq Records /\ stray' \subseteq Records
          /\ restarts' \in 0..MaxRestarts
      BY <1>1 DEF TypeOK
    <3>2. \A s2 \in Senders : s2 \in InFlight' <=> sender'[s2].todo # {}
      BY <2>5 DEF TypeOK, InFlight
    <3> QED
      BY <1>3, <2>5, <3>1, <3>2 DEF TypeOK
  <2>9. \A e \in Records : tries[e] \in 0..2 /\ tries'[e] \in 0..2 /\ tries'[e] >= tries[e]
    BY <2>3, <2>5 DEF TypeOK
  <2>10. SendInv'
    <3>1. \A s2 \in Senders : \A e \in sender'[s2].todo :
            e = i \/ (e \in sender[s2].todo /\ e # n /\ e \in Records)
      BY <1>4, <2>5
    <3>2. \A s2 \in Senders : \A e \in sender'[s2].todo : state'[e] # "NONE"
      BY <1>1, <2>3, <3>1 DEF SendInv
    <3>3. \A s2 \in Senders : \A e \in sender'[s2].todo : state'[e] = "DIRECT" =>
            \A s3 \in Senders : e \in sender'[s3].todo => s3 = s2
      BY <1>1, <2>3, <3>1 DEF SendInv
    <3>4. \A s2 \in Senders : sender'[s2].pc = "applied" => Item(s2)' \in received
      BY <2>5, <2>6 DEF SendInv
    <3>5. \A e \in Records : state'[e] = "COMPLETED" => e \in received
      BY <1>1 DEF SendInv
    <3>6. \A e \in received : tries'[e] > 0
      BY <2>9 DEF SendInv, TypeOK
    <3>7. \A k2 \in Keys : cloud[k2] # 0 => cloud[k2] \in received /\ key'[cloud[k2]] = k2
      BY <1>1 DEF SendInv, TypeOK
    <3> QED
      BY <1>1, <3>2, <3>3, <3>4, <3>5, <3>6, <3>7 DEF SendInv
  <2>11. TriesInv'
    <3>1. \A e \in Records : tries'[e] = 0 => state'[e] \in {"NONE", "PENDING"}
      BY <1>1, <2>5, <2>9 DEF TriesInv
    <3>2. \A e \in Records : tries'[e] > 0 => state'[e] # "NONE"
      BY <1>1, <2>3, <2>5 DEF TriesInv
    <3>3. \A e \in Records : tries'[e] < 2 => e \notin stray' /\ ~recent'[e]
      BY <1>1, <2>9 DEF TriesInv
    <3>4. \A e \in Records : state'[e] = "COMPLETED" =>
            state[e] = "COMPLETED" \/ (e # i /\ Flying(s, e))
      BY <1>1
    <3>5. \A e \in Records : e = i => tries'[e] = IF tries[e] = 0 THEN 1 ELSE 2
      BY <2>5
    <3>6. \A e \in Records : e # i => tries'[e] \in {tries[e], 2}
      BY <2>5
    <3> QED
      BY <2>3, <2>6, <2>7, <3>1, <3>2, <3>3, <3>4, <3>5, <3>6, TriesKeeps
  <2>12. OrderInv'
    <3>1. \A e \in Records : Served(e) => Served(e)'
      BY <1>1, <2>9 DEF Served
    <3>2. ASSUME NEW e \in Records, Older(e, i)' PROVE Served(e)'
      <4>1. key[e] = k /\ e # n /\ e < i /\ state[e] # "NONE"
        <5>1. CASE i = n
          BY <1>1, <1>2, <3>2, <5>1 DEF Older, Records
        <5>2. CASE i # n
          <6>1. key[i] = k /\ Older(e, i)
            BY <1>2, <2>3, <3>2, <5>2
          <6> QED
            BY <1>1, <2>3, <5>2, <6>1 DEF Older, Records
        <5> QED
          BY <5>1, <5>2
      <4>2. e \notin pending
        <5>1. CASE i = n
          BY <1>1, <2>3, <5>1 DEF Pending
        <5>2. CASE i # n
          <6>1. Older(e, i) /\ row[e] < row[i] /\ pending # {}
            BY <1>2, <2>3, <3>2, <5>2 DEF RowsInv
          <6> QED
            BY <2>3, <6>1 DEF TypeOK
        <5> QED
          BY <5>1, <5>2
      <4>3. state[e] = "COMPLETED"
        <5>1. state[e] # "PENDING"
          BY <4>1, <4>2 DEF Pending
        <5>2. state[e] # "DIRECT"
          BY <4>1 DEF RowsInv, Enqueue
        <5> QED
          BY <4>1, <5>1, <5>2 DEF TypeOK, States
      <4> QED
        BY <2>9, <3>1, <4>3 DEF TriesInv, Served
    <3>3. \A s2 \in Senders : \A f \in sender'[s2].todo : \A e \in Records :
            Older(e, f)' => e \in sender'[s2].todo \/ Served(e)'
      BY <1>2, <1>4, <2>5, <3>1, <3>2 DEF OrderInv
    <3>4. ASSUME NEW e \in Records, NEW f \in Records, Older(e, f)', tries'[f] > 0
          PROVE  Served(e)'
      <4>1. CASE f = i
        BY <3>2, <3>4, <4>1
      <4>2. CASE f # i
        <5>1. tries[f] > 0 /\ f # n
          BY <1>1, <2>5, <3>4, <4>2
        <5> QED
          BY <1>2, <3>1, <3>4, <5>1 DEF OrderInv
      <4> QED
        BY <4>1, <4>2
    <3> QED
      BY <3>3, <3>4 DEF OrderInv
  <2> QED
    BY <1>3, <2>8, <2>10, <2>11, <2>12
<1> QED
  BY <1>5, <1>6

\* Every step keeps the invariant.
LEMMA NextKeeps ==
  ASSUME QueueInv, [Next]_vars
  PROVE  QueueInv'
<1>1. CASE UNCHANGED vars
  <2>1. /\ UNCHANGED <<key, state, row, lastRow, recent, sender, cloud, received,
                      stray, tries, restarts>>
        /\ UNCHANGED InFlight
        /\ \A s \in Senders : UNCHANGED Item(s)
    BY <1>1 DEF vars, queueVars, cloudVars, InFlight, Item
  <2>2. \A s \in Senders, e \in Records : Flying(s, e)' <=> Flying(s, e)
    BY <2>1 DEF Flying
  <2>3. TypeOK'
    BY <2>1 DEF QueueInv, TypeOK
  <2>4. RowsInv'
    BY <2>1 DEF QueueInv, RowsInv, Older
  <2>5. SendInv'
    BY <2>1 DEF QueueInv, SendInv
  <2>6. TriesInv'
    BY <2>1, <2>2 DEF QueueInv, TriesInv
  <2>7. OrderInv'
    BY <2>1 DEF QueueInv, OrderInv, Older, Served
  <2> QED
    BY <2>3, <2>4, <2>5, <2>6, <2>7 DEF QueueInv
<1>2. CASE \E e \in Records, k \in Keys : Enqueue(e, k) \/ CloseDay(e, k)
  BY <1>2, EnqueueKeeps, CloseKeeps
<1>3. CASE \E s \in Senders : SenderStep(s)
  BY <1>3, BeatKeeps, AnswerKeeps, CloudKeeps, SucceedKeeps, FailKeeps DEF SenderStep
<1>4. CASE \E e \in Records : StrayArrives(e) \/ TimePasses(e)
  BY <1>4, StrayKeeps, TimeKeeps
<1>5. CASE Restart
  BY <1>5, RestartKeeps
<1> QED
  BY <1>1, <1>2, <1>3, <1>4, <1>5 DEF Next

THEOREM QueueInvariant == Spec => []QueueInv
<1>1. Init => QueueInv
  BY InvInit
<1>2. QueueInv /\ [Next]_vars => QueueInv'
  BY NextKeeps
<1> QED
  BY <1>1, <1>2, PTL DEF Spec

-----------------------------------------------------------------------------
\* Theorems

\* The queue never leaves the types of its model: a sender that waits for an
\* answer always has a record to wait for (processSyncQueue).
THEOREM QueueTypes == Spec => []TypeOK
<1>1. QueueInv => TypeOK
  BY DEF QueueInv
<1> QED
  BY <1>1, QueueInvariant, PTL

\* What a step changes for the outbox.
LEMMA OutboxStep ==
  ASSUME QueueInv, QueueInv', [Next]_vars
  PROVE  [O!Next]_(O!outboxVars)
<1> DEFINE same == UNCHANGED <<Produced, received, Confirmed>>
<1>1. (Produced' = Produced /\ received' = received /\ Confirmed' = Confirmed)
        => UNCHANGED O!outboxVars
  BY DEF O!outboxVars
<1>2. CASE UNCHANGED vars
  BY <1>1, <1>2 DEF vars, queueVars, cloudVars, Produced, Confirmed
<1>3. ASSUME NEW e \in Records, NEW k \in Keys, Enqueue(e, k) \/ CloseDay(e, k)
      PROVE  O!Next
  <2>1. /\ Produced = {f \in Records : f < e}
        /\ \/ state' = [state EXCEPT ![e] = "PENDING"]
           \/ state' = [state EXCEPT ![e] = "DIRECT"]
        /\ received' = received
    BY <1>3 DEF Enqueue, CloseDay, Produce, Insert, cloudVars
  <2>2. e \notin Produced /\ state[e] = "NONE"
    BY <2>1 DEF Produced, Records
  <2>3. /\ \A f \in Records : f # e => state'[f] = state[f]
        /\ state'[e] \in {"PENDING", "DIRECT"}
    BY <2>1 DEF QueueInv, TypeOK
  <2>4. Produced' = Produced \cup {e} /\ Confirmed' = Confirmed
    BY <2>2, <2>3 DEF Produced, Confirmed
  <2>5. O!Accept(e)
    BY <2>1, <2>2, <2>4 DEF O!Accept
  <2> QED
    BY <2>5 DEF O!Next
<1>4. ASSUME NEW e \in Records, e \in Produced, Upsert(e), UNCHANGED <<key, state>>
      PROVE  O!Next
  <2>1. O!Receive(e)
    BY <1>4 DEF O!Receive, Upsert, Produced, Confirmed
  <2> QED
    BY <2>1 DEF O!Next
<1>5. ASSUME NEW s \in Senders, CloudApplies(s)
      PROVE  O!Next
  <2>1. s \in InFlight /\ Upsert(Item(s)) /\ UNCHANGED <<key, state>>
    BY <1>5 DEF CloudApplies, InFlight, queueVars
  <2>2. Item(s) \in Records /\ Item(s) \in Produced
    BY <2>1, ItemExists DEF QueueInv, SendInv, Produced
  <2> QED
    BY <1>4, <2>1, <2>2
<1>6. ASSUME NEW e \in Records, StrayArrives(e)
      PROVE  O!Next
  <2>1. e \in Produced /\ Upsert(e) /\ UNCHANGED <<key, state>>
    BY <1>6 DEF StrayArrives, queueVars, QueueInv, TypeOK, TriesInv, Produced
  <2> QED
    BY <1>4, <2>1
<1>7. ASSUME NEW s \in Senders, Succeed(s)
      PROVE  O!Next
  <2>1. PICK j : j = Item(s)
    OBVIOUS
  <2>2. /\ j \in Records /\ j \in received /\ state[j] # "NONE"
    BY <1>7, <2>1, ItemExists DEF Succeed, InFlight, QueueInv, SendInv
  <2>3. state' = [state EXCEPT ![j] = "COMPLETED"] /\ received' = received
    BY <1>7, <2>1 DEF Succeed, cloudVars
  <2>4. /\ \A f \in Records : f # j => state'[f] = state[f]
        /\ state'[j] = "COMPLETED"
    BY <2>2, <2>3 DEF QueueInv, TypeOK
  <2>5. Produced' = Produced /\ Confirmed' = Confirmed \cup {j}
    BY <2>2, <2>4 DEF Produced, Confirmed
  <2>6. O!Confirm(j)
    BY <2>2, <2>3, <2>5 DEF O!Confirm
  <2> QED
    BY <2>2, <2>6 DEF O!Next
<1>8. ASSUME NEW s \in Senders, Fail(s)
      PROVE  UNCHANGED O!outboxVars
  <2>1. PICK j : j = Item(s)
    OBVIOUS
  <2>2. j \in Records /\ state[j] # "NONE"
    BY <1>8, <2>1, ItemExists DEF Fail, QueueInv, SendInv
  <2>3. /\ state' = state \/ (state[j] = "DIRECT" /\ state' = [state EXCEPT ![j] = "PENDING"])
        /\ received' = received
    BY <1>8, <2>1 DEF Fail, Failed, Insert, cloudVars
  <2>4. \A f \in Records : /\ state'[f] = "NONE" <=> state[f] = "NONE"
                           /\ state'[f] = "COMPLETED" <=> state[f] = "COMPLETED"
    BY <2>2, <2>3 DEF QueueInv, TypeOK
  <2>5. Produced' = Produced /\ Confirmed' = Confirmed
    BY <2>4 DEF Produced, Confirmed
  <2> QED
    BY <1>1, <2>3, <2>5
<1>9. ASSUME NEW s \in Senders, Tick(s) \/ BeatFails(s) \/ BeatAnswered(s)
      PROVE  UNCHANGED O!outboxVars
  BY <1>1, <1>9 DEF Tick, BeatFails, BeatAnswered, queueVars, cloudVars, Produced, Confirmed
<1>10. ASSUME NEW e \in Records, TimePasses(e)
       PROVE  UNCHANGED O!outboxVars
  BY <1>1, <1>10 DEF TimePasses, cloudVars, Produced, Confirmed
<1>11. CASE Restart
  BY <1>1, <1>11 DEF Restart, queueVars, cloudVars, Produced, Confirmed
<1> QED
  BY <1>2, <1>3, <1>5, <1>6, <1>7, <1>8, <1>9, <1>10, <1>11 DEF Next, SenderStep

\* The queue implements the outbox (Outbox.tla).
THEOREM QueueImplementsOutbox == Spec => ImplementsOutbox
<1>1. Init => O!Init
  BY DEF Init, O!Init, Produced, Confirmed
<1>2. QueueInv /\ QueueInv' /\ [Next]_vars => [O!Next]_(O!outboxVars)
  BY OutboxStep
<1> QED
  BY <1>1, <1>2, QueueInvariant, PTL DEF Spec, ImplementsOutbox, O!Spec

\* An older version reaches the Cloud after a newer one only if it was tried again.
LEMMA UpsertOrder ==
  ASSUME QueueInv, NEW e \in Records, Upsert(e), tries[e] > 0,
         tries[e] = 1 => state[e] # "COMPLETED",
         UNCHANGED tries
  PROVE  \A k \in Keys : cloud'[k] < cloud[k] => tries[cloud'[k]] = 2
<1> SUFFICES ASSUME NEW k \in Keys, cloud'[k] < cloud[k]
             PROVE  tries[cloud'[k]] = 2
  OBVIOUS
<1>1. key[e] = k /\ cloud'[k] = e
  BY DEF Upsert, QueueInv, TypeOK, Records
<1>2. PICK f \in Records : f = cloud[k] /\ e < f
  BY <1>1 DEF QueueInv, TypeOK, Records
<1>3. f \in received /\ key[f] = k /\ tries[f] > 0
  BY <1>2 DEF QueueInv, SendInv, Records
<1>4. Older(e, f)
  BY <1>1, <1>2, <1>3 DEF Older, QueueInv, TriesInv
<1> QED
  BY <1>1, <1>3, <1>4 DEF QueueInv, OrderInv, Served

\* While all goes well the versions of an entity reach the Cloud in order.
THEOREM OrderKept == Spec => OvertakeOnlyAfterRetry
<1> DEFINE Step == \A k \in Keys : cloud'[k] < cloud[k] => tries[cloud'[k]] = 2
<1>1. ASSUME QueueInv, [Next]_vars PROVE [Step]_vars
  <2>1. CASE cloud' = cloud
    <3>1. \A k \in Keys : ~(cloud[k] < cloud[k])
      BY <1>1 DEF QueueInv, TypeOK, Records
    <3> QED
      BY <2>1, <3>1
  <2>2. ASSUME NEW s \in Senders, CloudApplies(s) PROVE Step
    <3>1. PICK j : j = Item(s)
      OBVIOUS
    <3>2. s \in InFlight /\ Upsert(j) /\ UNCHANGED tries
      BY <2>2, <3>1 DEF CloudApplies, InFlight
    <3>3. j \in Records /\ Flying(s, j)
      BY <1>1, <3>1, <3>2, ItemExists DEF QueueInv, Flying
    <3>4. tries[j] > 0 /\ (tries[j] = 1 => state[j] # "COMPLETED")
      BY <1>1, <3>3 DEF QueueInv, TypeOK, TriesInv
    <3> QED
      BY <1>1, <3>2, <3>3, <3>4, UpsertOrder
  <2>3. ASSUME NEW e \in Records, StrayArrives(e) PROVE Step
    <3>1. Upsert(e) /\ UNCHANGED tries /\ e \in stray
      BY <2>3 DEF StrayArrives
    <3>2. tries[e] = 2
      BY <1>1, <3>1 DEF QueueInv, TypeOK, TriesInv
    <3> QED
      BY <1>1, <3>1, <3>2, UpsertOrder
  <2>4. CASE UNCHANGED vars
    BY <2>1, <2>4 DEF vars, cloudVars
  <2>5. ASSUME NEW e \in Records, NEW k \in Keys, Enqueue(e, k) \/ CloseDay(e, k)
        PROVE  cloud' = cloud
    BY <2>5 DEF Enqueue, CloseDay, Produce, cloudVars
  <2>6. ASSUME NEW s \in Senders,
               Tick(s) \/ BeatFails(s) \/ BeatAnswered(s) \/ Succeed(s) \/ Fail(s)
        PROVE  cloud' = cloud
    BY <2>6 DEF Tick, BeatFails, BeatAnswered, Succeed, Fail, cloudVars
  <2>7. ASSUME NEW e \in Records, TimePasses(e) PROVE cloud' = cloud
    BY <2>7 DEF TimePasses, cloudVars
  <2>8. CASE Restart
    BY <2>1, <2>8 DEF Restart, cloudVars
  <2> HIDE DEF Step
  <2> QED
    BY <1>1, <2>1, <2>2, <2>3, <2>4, <2>5, <2>6, <2>7, <2>8 DEF Next, SenderStep
<1> QED
  BY <1>1, QueueInvariant, PTL DEF Spec, OvertakeOnlyAfterRetry

=============================================================================
