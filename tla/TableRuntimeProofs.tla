------------------------- MODULE TableRuntimeProofs -------------------------
(***************************************************************************)
(* Theorems about TableRuntime, for any number of tables, operators, lines *)
(* and requests.                                                           *)
(***************************************************************************)
EXTENDS TableRuntime, FiniteSetTheorems, TLAPS

-----------------------------------------------------------------------------
(* Records of tables *)

\* A record of t as every handler leaves it: of its type, not united on
\* itself, LOCKED by somebody.
Sound(r, t) ==
  /\ r \in Record
  /\ t \notin r.linked
  /\ r.status = "LOCKED" => r.by # Nobody

LEMMA RecordFields ==
  ASSUME NEW r \in Record
  PROVE  /\ r.status \in Statuses /\ r.by \in Operators \cup {Nobody}
         /\ r.guests \in BOOLEAN /\ r.into \in Tables \cup {NoTable}
         /\ r.linked \in SUBSET Tables
  BY DEF Record

LEMMA WithStatus ==
  ASSUME NEW r \in Record, NEW st \in Statuses, NEW b \in Operators \cup {Nobody}
  PROVE  /\ [r EXCEPT !.status = st, !.by = b] \in Record
         /\ [r EXCEPT !.status = st, !.by = b].status = st
         /\ [r EXCEPT !.status = st, !.by = b].by = b
         /\ [r EXCEPT !.status = st, !.by = b].linked = r.linked
         /\ [r EXCEPT !.status = st, !.by = b].guests = r.guests
         /\ [r EXCEPT !.status = st, !.by = b].into = r.into
  BY DEF Record

LEMMA WithGuests ==
  ASSUME NEW r \in Record, NEW g \in BOOLEAN
  PROVE  /\ [r EXCEPT !.guests = g] \in Record
         /\ [r EXCEPT !.guests = g].status = r.status
         /\ [r EXCEPT !.guests = g].by = r.by
         /\ [r EXCEPT !.guests = g].linked = r.linked
  BY DEF Record

LEMMA FreeRecord ==
  /\ FreeTable \in Record /\ FreeTable.status = "FREE" /\ FreeTable.linked = {}
  /\ FreeTable.by = Nobody
  /\ \A g \in BOOLEAN : /\ [FreeTable EXCEPT !.guests = g] \in Record
                        /\ [FreeTable EXCEPT !.guests = g].status = "FREE"
                        /\ [FreeTable EXCEPT !.guests = g].linked = {}
  /\ \A g \in BOOLEAN, h \in Tables :
       /\ [FreeTable EXCEPT !.into = h, !.guests = g] \in Record
       /\ [FreeTable EXCEPT !.into = h, !.guests = g].status = "FREE"
       /\ [FreeTable EXCEPT !.into = h, !.guests = g].linked = {}
  BY DEF FreeTable, Record, Statuses

LEMMA StatusesAre ==
  Statuses = {"FREE", "LOCKED", "OCCUPIED", "BILL_REQUESTED"}
  BY DEF Statuses

LEMMA NobodyIsNoOperator == Nobody \notin Operators
  BY TableRuntimeAssumption

LEMMA UnlockedSound ==
  ASSUME NEW t \in Tables, NEW r, Sound(r, t), NEW st \in Statuses, st # "LOCKED"
  PROVE  Sound(Unlocked(r, st), t) /\ Unlocked(r, st).status = st
<1>2. r \in Record /\ Nobody \in Operators \cup {Nobody}
  BY DEF Sound
<1>3. /\ Unlocked(r, st) \in Record /\ Unlocked(r, st).status = st
      /\ Unlocked(r, st).linked = r.linked
  BY <1>2 DEF Unlocked, Record
<1> QED  BY <1>3 DEF Sound

LEMMA LockedSound ==
  ASSUME NEW t \in Tables, NEW r, Sound(r, t), NEW o \in Operators
  PROVE  Sound(Locked(r, o), t) /\ Locked(r, o).status = "LOCKED"
<1>2. "LOCKED" \in Statuses
  BY StatusesAre
<1>3. r \in Record /\ o \in Operators \cup {Nobody}
  BY DEF Sound
<1>4. /\ Locked(r, o) \in Record /\ Locked(r, o).status = "LOCKED"
      /\ Locked(r, o).by = o /\ Locked(r, o).linked = r.linked
  BY <1>2, <1>3 DEF Locked, Record
<1> QED  BY <1>4, NobodyIsNoOperator DEF Sound

LEMMA OccupiedSound ==
  ASSUME NEW t \in Tables, NEW r, Sound(r, t)
  PROVE  Sound(Occupied(r), t) /\ Occupied(r).status \in {"OCCUPIED", "BILL_REQUESTED"}
<1>1. "OCCUPIED" \in Statuses
  BY StatusesAre
<1> QED  BY <1>1, UnlockedSound DEF Occupied

LEMMA FreeSound ==
  ASSUME NEW t \in Tables
  PROVE  /\ Sound(FreeTable, t)
         /\ \A g \in BOOLEAN : Sound([FreeTable EXCEPT !.guests = g], t)
         /\ \A g \in BOOLEAN, h \in Tables :
              Sound([FreeTable EXCEPT !.into = h, !.guests = g], t)
  BY FreeRecord DEF Sound

LEMMA ReleasedSound ==
  ASSUME NEW t \in Tables, NEW r, Sound(r, t), NEW b \in BOOLEAN
  PROVE  /\ Sound(Released(r, b), t)
         /\ b => Released(r, b).status = "OCCUPIED"
<1>1. "OCCUPIED" \in Statuses
  BY StatusesAre
<1>2. r.guests \in BOOLEAN
  BY RecordFields DEF Sound
<1> QED  BY <1>1, <1>2, UnlockedSound, FreeSound DEF Released

LEMMA WithGuestsOfSound ==
  ASSUME NEW t \in Tables, NEW r, Sound(r, t), NEW s \in Record
  PROVE  Sound(WithGuestsOf(s, r), t) /\ WithGuestsOf(s, r).status # "FREE"
<1> DEFINE st == IF r.status = "BILL_REQUESTED" THEN r.status ELSE "OCCUPIED"
           g == r.guests \/ s.guests
           x == [r EXCEPT !.guests = g, !.status = st]
<1>1. r \in Record /\ t \notin r.linked
  BY DEF Sound
<1>2. st \in {"OCCUPIED", "BILL_REQUESTED"} /\ st \in Statuses
  BY StatusesAre
<1>3. g \in BOOLEAN
  OBVIOUS
<1>4. WithGuestsOf(s, r) = x
  BY <1>1 DEF WithGuestsOf, Record
<1> HIDE DEF st, g
<1>5. x \in Record /\ x.status = st /\ x.linked = r.linked
  BY <1>1, <1>2, <1>3 DEF Record
<1> QED  BY <1>1, <1>2, <1>4, <1>5 DEF Sound

LEMMA LockTakenSound ==
  ASSUME NEW t \in Tables, NEW r, Sound(r, t), NEW o \in Operators, NEW u
  PROVE  /\ Sound(LockTaken(o, u, r), t)
         /\ LockTaken(o, u, r).status = "FREE" => r.status = "FREE"
  BY LockedSound DEF LockTaken

LEMMA GuestsSound ==
  ASSUME NEW t \in Tables, NEW r, Sound(r, t), NEW g \in BOOLEAN
  PROVE  /\ Sound([r EXCEPT !.guests = g], t)
         /\ [r EXCEPT !.guests = g].status = r.status
  BY WithGuests DEF Sound

LEMMA SeatedSound ==
  ASSUME NEW t \in Tables, NEW r, Sound(r, t), NEW seated \in BOOLEAN
  PROVE  /\ Sound(Seated(r, seated), t)
         /\ Seated(r, seated).status = r.status
<1> DEFINE g == r.guests \/ seated
<1>1. g \in BOOLEAN
  OBVIOUS
<1>2. Seated(r, seated) = [r EXCEPT !.guests = g]
  BY DEF Seated, Sound, Record
<1> HIDE DEF g
<1> QED  BY <1>1, <1>2, GuestsSound

LEMMA UnheldSound ==
  ASSUME NEW t \in Tables, NEW r, Sound(r, t), r.status # "LOCKED"
  PROVE  /\ Sound([r EXCEPT !.by = Nobody], t)
         /\ [r EXCEPT !.by = Nobody].status = r.status
<1>1. /\ [r EXCEPT !.by = Nobody] \in Record
      /\ [r EXCEPT !.by = Nobody].status = r.status
      /\ [r EXCEPT !.by = Nobody].linked = r.linked
  BY DEF Sound, Record
<1> QED  BY <1>1 DEF Sound

LEMMA UnionSound ==
  ASSUME NEW t \in Tables, NEW r, Sound(r, t), NEW more \in SUBSET Tables,
         t \notin more
  PROVE  /\ Sound([r EXCEPT !.linked = @ \cup more], t)
         /\ [r EXCEPT !.linked = @ \cup more].status = r.status
<1> DEFINE x == [r EXCEPT !.linked = r.linked \cup more]
<1>1. r \in Record /\ r.linked \cup more \in SUBSET Tables
  BY RecordFields DEF Sound
<1>2. /\ x \in Record /\ x.status = r.status /\ x.by = r.by
      /\ x.linked = r.linked \cup more
  BY <1>1 DEF Record
<1> QED  BY <1>2 DEF Sound

-----------------------------------------------------------------------------
(* The lines and the tables they are on *)

Kept(d, s, p) ==
  /\ \A l : l \in p <=> \E t \in Tables : l \in d[t] \cup s[t]
  /\ \A t, u \in Tables : t # u => (d[t] \cup s[t]) \cap (d[u] \cup s[u]) = {}
  /\ \A t \in Tables : d[t] \cap s[t] = {}

LEMMA KeptIs == LinesKept <=> Kept(draft, sent, placed)
  BY DEF LinesKept, Kept, LinesOf

Orders ==
  /\ draft \in [Tables -> SUBSET Lines]
  /\ sent \in [Tables -> SUBSET Lines]
  /\ placed \subseteq Lines /\ loose \subseteq placed
  /\ Kept(draft, sent, placed)

\* The records of the room.
Room == rt \in [Tables -> Record] /\ \A t \in Tables : Sound(rt[t], t)

\* Where the lines may be that no payment and no waiter looks after.
Stray ==
  /\ \A t \in Tables : rt[t].status = "FREE" => LinesOf(t) \subseteq loose
  /\ \A t \in gone : LinesOf(t) \subseteq loose
  /\ closing => placed \subseteq loose

Rest ==
  /\ asked \subseteq Tables /\ merges \in 0 .. MaxMerges
  /\ gone \subseteq Tables /\ closing \in BOOLEAN

IInv == Room /\ Orders /\ Stray /\ Rest
-----------------------------------------------------------------------------
(* Every handler leaves sound records *)

\* What a step may do to the status of a table that keeps its lines.
NoneHidden == \A t \in Tables :
  rt[t].status # "FREE" /\ rt'[t].status = "FREE" => LinesOf(t) = {}

LEMMA RoomButOne ==
  ASSUME Room, NEW t \in Tables, NEW r, Sound(r, t),
         rt' = [rt EXCEPT ![t] = r]
  PROVE  /\ Room' /\ rt'[t] = r
         /\ \A u \in Tables : u # t => rt'[u] = rt[u]
<1>1. /\ rt' \in [Tables -> Record] /\ rt'[t] = r
      /\ \A u \in Tables : u # t => rt'[u] = rt[u]
  BY DEF Room, Sound
<1> QED  BY <1>1 DEF Room, Sound

LEMMA RequestLockRoom ==
  ASSUME Room, NEW o \in Operators, NEW t \in Tables, NEW seated \in BOOLEAN,
         RequestLock(o, t, seated)
  PROVE  Room' /\ NoneHidden
<1> DEFINE l == Locked(rt[t], o)
           r == Seated(l, seated)
<1>1. Sound(l, t) /\ l.status = "LOCKED"
  BY LockedSound DEF Room
<1>2. rt' = [rt EXCEPT ![t] = r]
  BY DEF RequestLock
<1> HIDE DEF l
<1>3. Sound(r, t) /\ r.status = "LOCKED"
  BY <1>1, SeatedSound
<1> HIDE DEF r
<1> QED  BY <1>2, <1>3, RoomButOne DEF NoneHidden

LEMMA ReleaseLockRoom ==
  ASSUME Room, NEW o \in Operators, NEW t \in Tables, ReleaseLock(o, t)
  PROVE  Room' /\ NoneHidden
<1> DEFINE r == Released(rt[t], LinesOf(t) # {})
<1>1. Sound(r, t) /\ (LinesOf(t) # {} => r.status = "OCCUPIED")
  BY ReleasedSound DEF Room
<1>2. rt' = [rt EXCEPT ![t] = r]
  BY DEF ReleaseLock
<1> HIDE DEF r
<1> QED  BY <1>1, <1>2, RoomButOne DEF NoneHidden

LEMMA OpenTableRoom ==
  ASSUME Room, NEW t \in Tables, OpenTable(t)
  PROVE  Room' /\ NoneHidden
<1> DEFINE r == [FreeTable EXCEPT !.status = "OCCUPIED", !.guests = TRUE]
<1>1. Sound(r, t) /\ r.status = "OCCUPIED"
  BY FreeRecord DEF Sound, FreeTable, Record, Statuses
<1>2. rt' = [rt EXCEPT ![t] = r]
  BY DEF OpenTable
<1> HIDE DEF r
<1> QED  BY <1>1, <1>2, RoomButOne DEF NoneHidden

LEMMA UpdateGuestsRoom ==
  ASSUME Room, NEW t \in Tables, NEW u \in Tables, UpdateGuests(t, u)
  PROVE  Room' /\ NoneHidden
<1> DEFINE r == [rt[u] EXCEPT !.guests = TRUE]
<1>1. Sound(r, u) /\ r.status = rt[u].status
  BY GuestsSound DEF Room
<1>2. rt' = [rt EXCEPT ![u] = r]
  BY DEF UpdateGuests
<1> HIDE DEF r
<1>3. /\ Room' /\ rt'[u] = r
      /\ \A v \in Tables : v # u => rt'[v] = rt[v]
  BY <1>1, <1>2, RoomButOne
<1> QED  BY <1>1, <1>3 DEF NoneHidden

LEMMA OrderRoom ==
  ASSUME Room, NEW t \in Tables, rt' = [rt EXCEPT ![t] = Occupied(@)]
  PROVE  /\ Room' /\ rt'[t].status # "FREE"
         /\ \A u \in Tables : u # t => rt'[u] = rt[u]
<1> DEFINE r == Occupied(rt[t])
<1>1. Sound(r, t) /\ r.status # "FREE"
  BY OccupiedSound DEF Room
<1> HIDE DEF r
<1>2. rt' = [rt EXCEPT ![t] = r]
  BY DEF r
<1> QED  BY <1>1, <1>2, RoomButOne

LEMMA SubmitRoom ==
  ASSUME Room, NEW o \in Operators, NEW t \in Tables, Submit(o, t)
  PROVE  /\ Room' /\ rt'[t].status # "FREE"
         /\ \A u \in Tables : u # t => rt'[u] = rt[u]
<1> DEFINE r == Locked(Occupied(rt[t]), o)
<1>1. Sound(r, t) /\ r.status = "LOCKED"
  BY OccupiedSound, LockedSound DEF Room
<1>2. rt' = [rt EXCEPT ![t] = r]
  BY DEF Submit
<1> HIDE DEF r
<1> QED  BY <1>1, <1>2, RoomButOne

LEMMA RequestPaymentRoom ==
  ASSUME Room, NEW t \in Tables, RequestPayment(t)
  PROVE  Room' /\ NoneHidden
<1> DEFINE r == Unlocked(rt[t], "BILL_REQUESTED")
<1>1. "BILL_REQUESTED" \in Statuses
  BY StatusesAre
<1>2. Sound(r, t) /\ r.status = "BILL_REQUESTED"
  BY <1>1, UnlockedSound DEF Room
<1>3. rt' = [rt EXCEPT ![t] = r]
  BY DEF RequestPayment
<1> HIDE DEF r
<1> QED  BY <1>2, <1>3, RoomButOne DEF NoneHidden

LEMMA PayRoom ==
  ASSUME Room, NEW t \in Tables, Pay(t)
  PROVE  Room' /\ \A u \in Tables : u \notin {t} \cup rt[t].linked => rt'[u] = rt[u]
<1>1. rt' = [u \in Tables |-> IF u \in {t} \cup rt[t].linked THEN FreeTable ELSE rt[u]]
  BY DEF Pay
<1>2. \A u \in Tables : Sound(rt'[u], u)
  BY <1>1, FreeSound DEF Room
<1> QED  BY <1>1, <1>2 DEF Room, Sound

LEMMA RestartRoom ==
  ASSUME Room, Restart
  PROVE  Room' /\ NoneHidden
<1> DEFINE after(t) == CASE rt[t].by = Nobody -> rt[t]
                         [] rt[t].status = "LOCKED" -> Released(rt[t], LinesOf(t) # {})
                         [] OTHER -> [rt[t] EXCEPT !.by = Nobody]
<1>1. rt' = [t \in Tables |-> after(t)]
  BY DEF Restart
<1>2. ASSUME NEW t \in Tables
      PROVE  /\ Sound(after(t), t)
             /\ after(t).status = "FREE" => rt[t].status = "FREE" \/ LinesOf(t) = {}
  <2>0. Sound(rt[t], t)
    BY DEF Room
  <2>1. CASE rt[t].by = Nobody
    <3>1. rt[t].status # "LOCKED"
      BY <2>0, <2>1 DEF Sound
    <3>2. after(t) = rt[t]
      BY <2>1, <3>1
    <3> QED  BY <2>0, <3>2
  <2>2. CASE rt[t].by # Nobody /\ rt[t].status = "LOCKED"
    <3>1. after(t) = Released(rt[t], LinesOf(t) # {})
      BY <2>2
    <3>2. /\ Sound(Released(rt[t], LinesOf(t) # {}), t)
          /\ LinesOf(t) # {} => Released(rt[t], LinesOf(t) # {}).status = "OCCUPIED"
      BY <2>0, ReleasedSound
    <3> QED  BY <3>1, <3>2
  <2>3. CASE rt[t].by # Nobody /\ rt[t].status # "LOCKED"
    <3>1. after(t) = [rt[t] EXCEPT !.by = Nobody]
      BY <2>3
    <3> QED  BY <2>0, <2>3, <3>1, UnheldSound
  <2> QED  BY <2>1, <2>2, <2>3
<1> HIDE DEF after
<1>3. \A t \in Tables : rt'[t] = after(t)
  BY <1>1
<1>4. Room'
  BY <1>1, <1>2 DEF Room, Sound
<1> QED  BY <1>2, <1>3, <1>4 DEF NoneHidden

LEMMA TransferAllRoom ==
  ASSUME Room, NEW o \in Operators, NEW u \in Tables, NEW t \in Tables,
         TransferAll(o, u, t)
  PROVE  /\ Room' /\ rt'[t].status # "FREE"
         /\ \A v \in Tables : v \notin {u, t} => rt'[v] = rt[v]
<1> DEFINE target == WithGuestsOf(rt[u], rt[t])
           r == IF LinesOf(u) = {} THEN target ELSE Occupied(target)
<1>0. u # t
  BY DEF TransferAll, MayMove
<1>1. Sound(target, t) /\ target.status # "FREE"
  BY WithGuestsOfSound DEF Room, Sound
<1>2. Sound(r, t) /\ r.status # "FREE"
  <2> HIDE DEF target
  <2> QED  BY <1>1, OccupiedSound
<1>3. rt' = [rt EXCEPT ![u] = FreeTable, ![t] = r]
  BY DEF TransferAll
<1> HIDE DEF r
<1>4. /\ rt' \in [Tables -> Record] /\ rt'[t] = r /\ rt'[u] = FreeTable
      /\ \A v \in Tables : v \notin {u, t} => rt'[v] = rt[v]
  BY <1>0, <1>2, <1>3, FreeRecord DEF Room, Sound
<1> QED  BY <1>2, <1>4, FreeSound DEF Room

LEMMA TransferLinesRoom ==
  ASSUME Room, NEW o \in Operators, NEW u \in Tables, NEW t \in Tables,
         NEW moved, TransferLines(o, u, t, moved)
  PROVE  /\ Room' /\ rt'[t].status # "FREE" /\ rt'[u].status # "FREE"
         /\ \A v \in Tables : v \notin {u, t} => rt'[v] = rt[v]
<1> DEFINE p == Occupied(LockTaken(o, u, rt[u]))
           q == Occupied(rt[t])
<1>0. u # t
  BY DEF TransferLines, MayMove
<1>1. Sound(p, u) /\ p.status # "FREE"
  BY LockTakenSound, OccupiedSound DEF Room
<1>2. Sound(q, t) /\ q.status # "FREE"
  BY OccupiedSound DEF Room
<1>3. rt' = [rt EXCEPT ![u] = p, ![t] = q]
  BY DEF TransferLines
<1> HIDE DEF p, q
<1>4. /\ rt' \in [Tables -> Record] /\ rt'[t] = q /\ rt'[u] = p
      /\ \A v \in Tables : v \notin {u, t} => rt'[v] = rt[v]
  BY <1>0, <1>1, <1>2, <1>3 DEF Room, Sound
<1> QED  BY <1>1, <1>2, <1>4 DEF Room

LEMMA TransferRefusedRoom ==
  ASSUME Room, NEW o \in Operators, NEW u \in Tables, NEW t \in Tables,
         TransferRefused(o, u, t)
  PROVE  Room' /\ NoneHidden
<1> DEFINE r == Locked(rt[u], o)
<1>1. Sound(r, u) /\ r.status = "LOCKED"
  BY LockedSound DEF Room
<1>2. rt' = [rt EXCEPT ![u] = r]
  BY DEF TransferRefused
<1> HIDE DEF r
<1>3. /\ Room' /\ rt'[u] = r
      /\ \A v \in Tables : v # u => rt'[v] = rt[v]
  BY <1>1, <1>2, RoomButOne
<1> QED  BY <1>1, <1>3 DEF NoneHidden

LEMMA MergeRefusedRoom ==
  ASSUME Room, NEW o \in Operators, NEW before \in SUBSET Tables, NEW t \in Tables,
         MergeRefused(o, before, t)
  PROVE  Room' /\ NoneHidden
<1>1. rt' = [u \in Tables |-> IF u \in before THEN LockTaken(o, u, rt[u]) ELSE rt[u]]
  BY DEF MergeRefused
<1>2. ASSUME NEW u \in Tables
      PROVE  /\ Sound(LockTaken(o, u, rt[u]), u)
             /\ LockTaken(o, u, rt[u]).status = "FREE" => rt[u].status = "FREE"
  BY LockTakenSound DEF Room
<1>3. Room'
  BY <1>1, <1>2 DEF Room, Sound
<1> QED  BY <1>1, <1>2, <1>3 DEF NoneHidden

\* What Gathered makes of the records: sound ones, and only a table moved,
\* or one that was, is FREE.
LEMMA GatheredRoom ==
  ASSUME Room, NEW o \in Operators, NEW sources \in SUBSET Tables,
         NEW moved \in SUBSET sources, NEW t \in Tables, t \notin sources
  PROVE  LET g == Gathered(o, sources, moved, t)
         IN  /\ g \in [Tables -> Record]
             /\ \A u \in Tables : Sound(g[u], u)
             /\ \A u \in Tables \ moved : g[u].status = "FREE" => rt[u].status = "FREE"
             /\ (moved # {} /\ \E u \in moved : LinesOf(u) # {}) =>
                  g[t].status # "FREE"
<1> DEFINE taken(u) == IF u \in sources THEN LockTaken(o, u, rt[u]) ELSE rt[u]
           left(u) == [FreeTable EXCEPT !.guests = rt[u].guests]
           isMoved(u) == IF LinesOf(u) = {} /\ rt[u].guests THEN taken(u) ELSE left(u)
           withLines == \E u \in moved : LinesOf(u) # {}
           opened == moved # {} /\ (withLines \/ rt[t].status = "FREE")
           g == Gathered(o, sources, moved, t)
           after(u) == CASE u \in moved -> isMoved(u)
                         [] u = t /\ moved # {} /\ (withLines \/ rt[t].status = "FREE") ->
                              Occupied(rt[t])
                         [] OTHER -> taken(u)
<1>1. g = [u \in Tables |-> after(u)]
  BY DEF Gathered
<1>2. ASSUME NEW u \in Tables
      PROVE  /\ Sound(taken(u), u)
             /\ taken(u).status = "FREE" => rt[u].status = "FREE"
  <2>1. Sound(rt[u], u)
    BY DEF Room
  <2> QED  BY <2>1, LockTakenSound
<1>3. ASSUME NEW u \in Tables
      PROVE  Sound(left(u), u)
  <2>1. rt[u].guests \in BOOLEAN
    BY RecordFields DEF Room
  <2> QED  BY <2>1, FreeSound
<1>4. ASSUME NEW u \in Tables
      PROVE  Sound(isMoved(u), u)
  <2> HIDE DEF taken, left
  <2> QED  BY <1>2, <1>3
<1>5. Sound(Occupied(rt[t]), t) /\ Occupied(rt[t]).status # "FREE"
  BY OccupiedSound DEF Room
<1>6. ASSUME NEW u \in Tables
      PROVE  /\ u \in moved => after(u) = isMoved(u)
             /\ u = t /\ opened => after(u) = Occupied(rt[t])
             /\ u \notin moved /\ ~(u = t /\ opened) => after(u) = taken(u)
  <2>1. CASE u \in moved
    <3>1. u # t
      BY <2>1
    <3>2. after(u) = isMoved(u)
      <4> HIDE DEF isMoved, taken
      <4> QED  BY <2>1, <3>1
    <3> HIDE DEF after
    <3> QED  BY <2>1, <3>1, <3>2
  <2>2. CASE u = t /\ opened
    <3>1. u \notin moved
      BY <2>2
    <3>2. after(u) = Occupied(rt[t])
      <4> HIDE DEF isMoved, taken, withLines
      <4> QED  BY <2>2, <3>1
    <3> HIDE DEF after
    <3> QED  BY <2>2, <3>1, <3>2
  <2>3. CASE u \notin moved /\ ~(u = t /\ opened)
    <3>1. after(u) = taken(u)
      <4> HIDE DEF isMoved, taken, withLines
      <4> QED  BY <2>3
    <3> HIDE DEF after
    <3> QED  BY <2>3, <3>1
  <2> QED  BY <2>1, <2>2, <2>3
<1> HIDE DEF after, isMoved, taken, g
<1>7. \A u \in Tables : g[u] = after(u) /\ Sound(g[u], u)
  BY <1>1, <1>2, <1>4, <1>5, <1>6
<1>8. g \in [Tables -> Record]
  BY <1>1, <1>7 DEF Sound
<1>9. \A u \in Tables \ moved : g[u].status = "FREE" => rt[u].status = "FREE"
  BY <1>2, <1>5, <1>6, <1>7
<1>10. moved # {} /\ withLines => g[t].status # "FREE"
  BY <1>5, <1>6, <1>7
<1> QED  BY <1>7, <1>8, <1>9, <1>10 DEF g

LEMMA MergeStopsRoom ==
  ASSUME Room, NEW o \in Operators, NEW sources \in SUBSET Tables,
         NEW moved \in SUBSET sources, NEW t \in Tables,
         MergeStops(o, sources, moved, t)
  PROVE  /\ Room'
         /\ \A u \in Tables \ moved : rt'[u].status = "FREE" => rt[u].status = "FREE"
         /\ (\E u \in moved : LinesOf(u) # {}) => rt'[t].status # "FREE"
<1>1. t \notin sources /\ rt' = Gathered(o, sources, moved, t)
  BY DEF MergeStops
<1>2. \A u \in moved : moved # {}
  OBVIOUS
<1> QED  BY <1>1, <1>2, GatheredRoom DEF Room

LEMMA MergeRoom ==
  ASSUME Room, NEW o \in Operators, NEW sources \in SUBSET Tables,
         NEW t \in Tables, NEW seated \in BOOLEAN,
         Merge(o, sources, t, seated)
  PROVE  /\ Room'
         /\ \A u \in Tables \ sources : rt'[u].status = "FREE" => rt[u].status = "FREE"
         /\ (\E u \in sources : LinesOf(u) # {}) => rt'[t].status # "FREE"
<1> DEFINE g == Gathered(o, sources, sources, t)
           host == [g[t] EXCEPT !.linked = @ \cup sources]
           joined(u) == [FreeTable EXCEPT !.into = t, !.guests = g[u].guests]
           records == United(g, sources, t)
           seats(u) == [records[u] EXCEPT !.guests = TRUE]
           after(u) == IF seated /\ u \in sources \cup {t} THEN seats(u)
                       ELSE records[u]
<1>1. t \notin sources /\ sources # {}
  BY DEF Merge
<1>2. /\ g \in [Tables -> Record]
      /\ \A u \in Tables : Sound(g[u], u)
      /\ \A u \in Tables \ sources : g[u].status = "FREE" => rt[u].status = "FREE"
      /\ (\E u \in sources : LinesOf(u) # {}) => g[t].status # "FREE"
  <2>1. sources \in SUBSET sources
    OBVIOUS
  <2>2. ASSUME NEW moved \in SUBSET sources
        PROVE  LET h == Gathered(o, sources, moved, t)
               IN  /\ h \in [Tables -> Record]
                   /\ \A u \in Tables : Sound(h[u], u)
                   /\ \A u \in Tables \ moved : h[u].status = "FREE" => rt[u].status = "FREE"
                   /\ (moved # {} /\ \E u \in moved : LinesOf(u) # {}) => h[t].status # "FREE"
    <3> HIDE DEF g
    <3> QED  BY <1>1, GatheredRoom
  <2> QED  BY <1>1, <2>1, <2>2
<1>3. rt' = [u \in Tables |-> after(u)]
  BY DEF Merge
<1>4. Sound(host, t) /\ host.status = g[t].status
  <2>1. Sound(g[t], t) /\ sources \in SUBSET Tables /\ t \notin sources
    BY <1>1, <1>2
  <2> HIDE DEF g
  <2> QED  BY <2>1, UnionSound
<1>5. ASSUME NEW u \in Tables
      PROVE  Sound(joined(u), u)
  <2>1. g[u].guests \in BOOLEAN
    BY <1>2, RecordFields
  <2> HIDE DEF g
  <2> QED  BY <2>1, FreeSound
<1>6. ASSUME NEW u \in Tables
      PROVE  records[u] = IF u = t THEN host
                          ELSE IF u \in sources THEN joined(u) ELSE g[u]
  <2> HIDE DEF g
  <2>1. CASE u = t
    BY <1>1, <2>1 DEF United
  <2>2. CASE u \in sources
    <3>1. u # t
      BY <1>1, <2>2
    <3> QED  BY <2>2, <3>1 DEF United
  <2>3. CASE u # t /\ u \notin sources
    BY <2>3 DEF United
  <2> QED  BY <2>1, <2>2, <2>3
<1>7. ASSUME NEW u \in Tables
      PROVE  /\ Sound(records[u], u)
             /\ u \notin sources => records[u].status = g[u].status
  <2> HIDE DEF g, host, joined, records
  <2> QED  BY <1>1, <1>2, <1>4, <1>5, <1>6
<1>8. ASSUME NEW u \in Tables
      PROVE  Sound(after(u), u) /\ after(u).status = records[u].status
  <2>1. Sound(seats(u), u) /\ seats(u).status = records[u].status
    <3> HIDE DEF records
    <3> QED  BY <1>7, GuestsSound
  <2> HIDE DEF records, seats
  <2> QED  BY <1>7, <2>1
<1> HIDE DEF after, records, g
<1>9. \A u \in Tables : rt'[u] = after(u)
  BY <1>3
<1>10. Room'
  BY <1>3, <1>8 DEF Room, Sound
<1>11. \A u \in Tables \ sources : rt'[u].status = "FREE" => rt[u].status = "FREE"
  BY <1>2, <1>7, <1>8, <1>9
<1>12. (\E u \in sources : LinesOf(u) # {}) => rt'[t].status # "FREE"
  BY <1>1, <1>2, <1>7, <1>8, <1>9
<1> QED  BY <1>10, <1>11, <1>12

LEMMA EndClosureRoom ==
  ASSUME Room, EndClosure
  PROVE  Room'
<1> DEFINE kept == gone \ UNION {rt[t].linked : t \in Tables \ gone}
<1>1. rt' = [t \in Tables |-> IF t \in kept THEN rt[t] ELSE FreeTable]
  BY DEF EndClosure
<1> HIDE DEF kept
<1> QED  BY <1>1, FreeSound DEF Room, Sound

-----------------------------------------------------------------------------
(* What becomes of the lines *)

\* A step that leaves the orders alone, and hides none.
LEMMA QuietStep ==
  ASSUME Room, Orders, Stray, UNCHANGED <<orderVars, gone>>,
         NoneHidden, closing' => closing
  PROVE  Orders' /\ Stray'
<1>1. \A t : LinesOf(t)' = LinesOf(t)
  BY DEF LinesOf, orderVars
<1>2. Orders'
  BY DEF Orders, orderVars
<1>3. /\ placed' = placed /\ loose' = loose /\ gone' = gone
  BY DEF orderVars
<1>4. \A t \in Tables : rt'[t].status = "FREE" => LinesOf(t) \subseteq loose
  BY DEF Stray, NoneHidden
<1> QED  BY <1>1, <1>2, <1>3, <1>4 DEF Stray

\* Lines put together on t, taken from the tables of from.
LEMMA GatheredKept ==
  ASSUME Orders, NEW from \in SUBSET Tables, NEW t \in Tables, t \notin from,
         OrdersGathered(from, t), UNCHANGED <<placed, loose>>
  PROVE  /\ Orders'
         /\ \A u \in Tables : u \notin from \cup {t} => LinesOf(u)' = LinesOf(u)
         /\ \A u \in from : LinesOf(u)' = {}
         /\ LinesOf(t)' = LinesOf(t) \cup UNION {LinesOf(u) : u \in from}
<1> DEFINE put(of) == [u \in Tables |->
                         IF u \in from THEN {}
                         ELSE IF u = t THEN of[t] \cup UNION {of[m] : m \in from}
                         ELSE of[u]]
<1>1. draft' = put(draft) /\ sent' = put(sent)
  BY DEF OrdersGathered
<1>2. ASSUME NEW of \in [Tables -> SUBSET Lines]
      PROVE  /\ put(of) \in [Tables -> SUBSET Lines]
             /\ \A u \in from : put(of)[u] = {}
             /\ \A u \in Tables : u \notin from \cup {t} => put(of)[u] = of[u]
             /\ put(of)[t] = of[t] \cup UNION {of[m] : m \in from}
  OBVIOUS
<1>3. draft \in [Tables -> SUBSET Lines] /\ sent \in [Tables -> SUBSET Lines]
  BY DEF Orders
<1> HIDE DEF put
<1>4. /\ draft' \in [Tables -> SUBSET Lines] /\ sent' \in [Tables -> SUBSET Lines]
      /\ \A u \in from : draft'[u] = {} /\ sent'[u] = {}
      /\ \A u \in Tables : u \notin from \cup {t} => draft'[u] = draft[u] /\ sent'[u] = sent[u]
      /\ draft'[t] = draft[t] \cup UNION {draft[m] : m \in from}
      /\ sent'[t] = sent[t] \cup UNION {sent[m] : m \in from}
  BY <1>1, <1>2, <1>3
<1>5. LinesOf(t)' = LinesOf(t) \cup UNION {LinesOf(u) : u \in from}
  BY <1>4 DEF LinesOf
<1>6. Kept(draft, sent, placed)'
  <2>1. \A l : l \in placed' <=> \E u \in Tables : l \in draft'[u] \cup sent'[u]
    BY <1>4 DEF Orders, Kept
  <2>2. \A u, v \in Tables : u # v => (draft'[u] \cup sent'[u]) \cap (draft'[v] \cup sent'[v]) = {}
    BY <1>4 DEF Orders, Kept
  <2>3. \A u \in Tables : draft'[u] \cap sent'[u] = {}
    BY <1>4 DEF Orders, Kept
  <2> QED  BY <2>1, <2>2, <2>3 DEF Kept
<1> QED  BY <1>4, <1>5, <1>6 DEF Orders, LinesOf

LEMMA TransferAllOrders ==
  ASSUME Orders, NEW o \in Operators, NEW u \in Tables, NEW t \in Tables,
         TransferAll(o, u, t)
  PROVE  /\ Orders' /\ LinesOf(u)' = {}
         /\ LinesOf(t)' = LinesOf(u) \cup LinesOf(t)
         /\ \A v \in Tables : v \notin {u, t} => LinesOf(v)' = LinesOf(v)
<1>1. u # t /\ placed' = placed /\ loose' = loose
  BY DEF TransferAll, MayMove
<1>2. /\ draft' = [draft EXCEPT ![u] = {}, ![t] = @ \cup draft[u]]
      /\ sent' = [sent EXCEPT ![u] = {}, ![t] = @ \cup sent[u]]
  BY DEF TransferAll
<1>3. /\ draft' \in [Tables -> SUBSET Lines] /\ sent' \in [Tables -> SUBSET Lines]
      /\ draft'[u] = {} /\ sent'[u] = {}
      /\ draft'[t] = draft[t] \cup draft[u] /\ sent'[t] = sent[t] \cup sent[u]
      /\ \A v \in Tables : v \notin {u, t} => draft'[v] = draft[v] /\ sent'[v] = sent[v]
  BY <1>1, <1>2 DEF Orders
<1>4. Kept(draft, sent, placed)'
  <2>1. \A l : l \in placed' <=> \E v \in Tables : l \in draft'[v] \cup sent'[v]
    BY <1>1, <1>3 DEF Orders, Kept
  <2>2. \A v, w \in Tables : v # w => (draft'[v] \cup sent'[v]) \cap (draft'[w] \cup sent'[w]) = {}
    BY <1>1, <1>3 DEF Orders, Kept
  <2>3. \A v \in Tables : draft'[v] \cap sent'[v] = {}
    BY <1>1, <1>3 DEF Orders, Kept
  <2> QED  BY <2>1, <2>2, <2>3 DEF Kept
<1> QED  BY <1>1, <1>3, <1>4 DEF Orders, LinesOf

LEMMA TransferLinesOrders ==
  ASSUME Orders, NEW o \in Operators, NEW u \in Tables, NEW t \in Tables,
         NEW moved, TransferLines(o, u, t, moved)
  PROVE  /\ Orders' /\ LinesOf(u)' = LinesOf(u) \ moved
         /\ \A v \in Tables : v \notin {u, t} => LinesOf(v)' = LinesOf(v)
<1>1. u # t /\ placed' = placed /\ loose' = loose /\ moved \subseteq LinesOf(u)
  BY DEF TransferLines, MayMove
<1>2. /\ draft' = [draft EXCEPT ![u] = @ \ moved, ![t] = @ \cup (moved \cap draft[u])]
      /\ sent' = [sent EXCEPT ![u] = @ \ moved, ![t] = @ \cup (moved \cap sent[u])]
  BY DEF TransferLines
<1>3. /\ draft' \in [Tables -> SUBSET Lines] /\ sent' \in [Tables -> SUBSET Lines]
      /\ draft'[u] = draft[u] \ moved /\ sent'[u] = sent[u] \ moved
      /\ draft'[t] = draft[t] \cup (moved \cap draft[u])
      /\ sent'[t] = sent[t] \cup (moved \cap sent[u])
      /\ \A v \in Tables : v \notin {u, t} => draft'[v] = draft[v] /\ sent'[v] = sent[v]
  BY <1>1, <1>2 DEF Orders
<1>4. Kept(draft, sent, placed)'
  <2>1. \A l : l \in placed' <=> \E v \in Tables : l \in draft'[v] \cup sent'[v]
    BY <1>1, <1>3 DEF Orders, Kept, LinesOf
  <2>2. \A v, w \in Tables : v # w => (draft'[v] \cup sent'[v]) \cap (draft'[w] \cup sent'[w]) = {}
    BY <1>1, <1>3 DEF Orders, Kept
  <2>3. \A v \in Tables : draft'[v] \cap sent'[v] = {}
    BY <1>1, <1>3 DEF Orders, Kept
  <2> QED  BY <2>1, <2>2, <2>3 DEF Kept
<1> QED  BY <1>1, <1>3, <1>4 DEF Orders, LinesOf

LEMMA AddLineOrders ==
  ASSUME Orders, NEW t \in Tables, NEW l \in Lines, AddLine(t, l)
  PROVE  /\ Orders' /\ LinesOf(t)' = LinesOf(t) \cup {l}
         /\ \A v \in Tables : v # t => LinesOf(v)' = LinesOf(v)
<1>1. /\ l \notin placed /\ placed' = placed \cup {l} /\ sent' = sent
      /\ loose' \in {loose, loose \cup {l}}
      /\ draft' = [draft EXCEPT ![t] = @ \cup {l}]
  BY DEF AddLine
<1>2. /\ draft' \in [Tables -> SUBSET Lines] /\ draft'[t] = draft[t] \cup {l}
      /\ \A v \in Tables : v # t => draft'[v] = draft[v]
  BY <1>1 DEF Orders
<1>3. \A v \in Tables : l \notin draft[v] \cup sent[v]
  BY <1>1 DEF Orders, Kept
<1>4. Kept(draft, sent, placed)'
  <2>1. \A k : k \in placed' <=> \E v \in Tables : k \in draft'[v] \cup sent'[v]
    BY <1>1, <1>2 DEF Orders, Kept
  <2>2. \A v, w \in Tables : v # w => (draft'[v] \cup sent'[v]) \cap (draft'[w] \cup sent'[w]) = {}
    BY <1>1, <1>2, <1>3 DEF Orders, Kept
  <2>3. \A v \in Tables : draft'[v] \cap sent'[v] = {}
    BY <1>1, <1>2, <1>3 DEF Orders, Kept
  <2> QED  BY <2>1, <2>2, <2>3 DEF Kept
<1> QED  BY <1>1, <1>2, <1>4 DEF Orders, LinesOf

LEMMA WithdrawLineOrders ==
  ASSUME Orders, NEW t \in Tables, NEW l \in Lines, WithdrawLine(t, l)
  PROVE  /\ Orders' /\ loose' = loose \ {l} /\ placed' = placed \ {l}
         /\ \A v \in Tables : LinesOf(v)' = LinesOf(v) \ {l}
<1>1. /\ l \in draft[t] /\ sent' = sent /\ draft' = [draft EXCEPT ![t] = @ \ {l}]
      /\ placed' = placed \cap (Lines \ {l}) /\ loose' = loose \cap (Lines \ {l})
  BY DEF WithdrawLine, Keep
<1>2. placed' = placed \ {l} /\ loose' = loose \ {l}
  BY <1>1 DEF Orders
<1>3. /\ draft' \in [Tables -> SUBSET Lines] /\ draft'[t] = draft[t] \ {l}
      /\ \A v \in Tables : v # t => draft'[v] = draft[v] /\ l \notin draft[v] \cup sent[v]
      /\ l \notin sent[t]
  BY <1>1 DEF Orders, Kept
<1>4. \A v \in Tables : draft'[v] = draft[v] \ {l} /\ sent'[v] = sent[v] \ {l}
  BY <1>1, <1>3
<1>5. Kept(draft, sent, placed)'
  <2>1. \A k : k \in placed' <=> \E v \in Tables : k \in draft'[v] \cup sent'[v]
    BY <1>2, <1>4 DEF Orders, Kept
  <2>2. \A v, w \in Tables : v # w => (draft'[v] \cup sent'[v]) \cap (draft'[w] \cup sent'[w]) = {}
    BY <1>4 DEF Orders, Kept
  <2>3. \A v \in Tables : draft'[v] \cap sent'[v] = {}
    BY <1>4 DEF Orders, Kept
  <2> QED  BY <2>1, <2>2, <2>3 DEF Kept
<1> QED  BY <1>1, <1>2, <1>3, <1>4, <1>5 DEF Orders, LinesOf

LEMMA SubmitOrders ==
  ASSUME Orders, NEW o \in Operators, NEW t \in Tables, Submit(o, t)
  PROVE  Orders' /\ \A v \in Tables : LinesOf(v)' = LinesOf(v)
<1>1. /\ placed' = placed /\ loose' = loose
      /\ sent' = [sent EXCEPT ![t] = @ \cup draft[t]]
      /\ draft' = [draft EXCEPT ![t] = {}]
  BY DEF Submit
<1>2. /\ draft' \in [Tables -> SUBSET Lines] /\ sent' \in [Tables -> SUBSET Lines]
      /\ draft'[t] = {} /\ sent'[t] = sent[t] \cup draft[t]
      /\ \A v \in Tables : v # t => draft'[v] = draft[v] /\ sent'[v] = sent[v]
  BY <1>1 DEF Orders
<1>3. Kept(draft, sent, placed)'
  <2>1. \A k : k \in placed' <=> \E v \in Tables : k \in draft'[v] \cup sent'[v]
    BY <1>1, <1>2 DEF Orders, Kept
  <2>2. \A v, w \in Tables : v # w => (draft'[v] \cup sent'[v]) \cap (draft'[w] \cup sent'[w]) = {}
    BY <1>2 DEF Orders, Kept
  <2>3. \A v \in Tables : draft'[v] \cap sent'[v] = {}
    BY <1>2 DEF Orders, Kept
  <2> QED  BY <2>1, <2>2, <2>3 DEF Kept
<1> QED  BY <1>1, <1>2, <1>3 DEF Orders, LinesOf

LEMMA PayOrders ==
  ASSUME Orders, Room, NEW t \in Tables, Pay(t)
  PROVE  /\ Orders' /\ LinesOf(t)' = {} /\ placed' = placed \ LinesOf(t)
         /\ loose \ LinesOf(t) \subseteq loose'
         /\ \A v \in Tables : v # t => LinesOf(v)' = LinesOf(v)
         /\ \A v \in rt[t].linked : v # t => LinesOf(v) \subseteq loose'
<1> DEFINE hidden == UNION {LinesOf(u) : u \in rt[t].linked}
<1>1. /\ placed' = placed \ LinesOf(t) /\ loose' = (loose \cup hidden) \ LinesOf(t)
      /\ draft' = [draft EXCEPT ![t] = {}] /\ sent' = [sent EXCEPT ![t] = {}]
  BY DEF Pay
<1>2. rt[t].linked \subseteq Tables
  BY RecordFields DEF Room
<1>3. /\ \A v \in Tables : LinesOf(v) \subseteq placed
      /\ \A v, w \in Tables : v # w => LinesOf(v) \cap LinesOf(w) = {}
  BY DEF Orders, Kept, LinesOf
<1>4. hidden \subseteq placed
  BY <1>2, <1>3
<1>5. \A v \in rt[t].linked : v # t => LinesOf(v) \subseteq loose'
  BY <1>1, <1>2, <1>3
<1>6. /\ draft' \in [Tables -> SUBSET Lines] /\ sent' \in [Tables -> SUBSET Lines]
      /\ draft'[t] = {} /\ sent'[t] = {}
      /\ \A v \in Tables : v # t => draft'[v] = draft[v] /\ sent'[v] = sent[v]
  BY <1>1 DEF Orders
<1>7. Kept(draft, sent, placed)'
  <2>1. \A k : k \in placed' <=> \E v \in Tables : k \in draft'[v] \cup sent'[v]
    <3>1. placed' = placed \ (draft[t] \cup sent[t])
      BY <1>1 DEF LinesOf
    <3> QED  BY <1>6, <3>1 DEF Orders, Kept
  <2>2. \A v, w \in Tables : v # w => (draft'[v] \cup sent'[v]) \cap (draft'[w] \cup sent'[w]) = {}
    BY <1>6 DEF Orders, Kept
  <2>3. \A v \in Tables : draft'[v] \cap sent'[v] = {}
    BY <1>6 DEF Orders, Kept
  <2> QED  BY <2>1, <2>2, <2>3 DEF Kept
<1> HIDE DEF hidden
<1>8. loose' \subseteq placed' /\ placed' \subseteq Lines
  BY <1>1, <1>4 DEF Orders
<1> QED  BY <1>1, <1>5, <1>6, <1>7, <1>8 DEF Orders, LinesOf

LEMMA EndClosureOrders ==
  ASSUME Orders, gone \subseteq Tables, EndClosure
  PROVE  /\ Orders'
         /\ \A t \in gone : LinesOf(t)' = LinesOf(t) /\ loose \cap LinesOf(t) \subseteq loose'
         /\ \A t \in Tables \ gone : LinesOf(t)' = {}
<1> DEFINE stay == UNION {LinesOf(t) : t \in gone}
<1>1. /\ draft' = [t \in Tables |-> IF t \in gone THEN draft[t] ELSE {}]
      /\ sent' = [t \in Tables |-> IF t \in gone THEN sent[t] ELSE {}]
      /\ placed' = placed \cap stay /\ loose' = loose \cap stay
  BY DEF EndClosure, Keep
<1>2. /\ draft' \in [Tables -> SUBSET Lines] /\ sent' \in [Tables -> SUBSET Lines]
      /\ \A t \in gone : draft'[t] = draft[t] /\ sent'[t] = sent[t]
      /\ \A t \in Tables \ gone : draft'[t] = {} /\ sent'[t] = {}
  BY <1>1 DEF Orders
<1>3. \A k : k \in placed' <=> k \in placed /\ \E t \in gone : k \in draft[t] \cup sent[t]
  BY <1>1 DEF LinesOf
<1>4. Kept(draft, sent, placed)'
  <2>1. \A k : k \in placed' <=> \E v \in Tables : k \in draft'[v] \cup sent'[v]
    BY <1>2, <1>3 DEF Orders, Kept
  <2>2. \A v, w \in Tables : v # w => (draft'[v] \cup sent'[v]) \cap (draft'[w] \cup sent'[w]) = {}
    BY <1>2 DEF Orders, Kept
  <2>3. \A v \in Tables : draft'[v] \cap sent'[v] = {}
    BY <1>2 DEF Orders, Kept
  <2> QED  BY <2>1, <2>2, <2>3 DEF Kept
<1>5. /\ \A t \in gone : LinesOf(t)' = LinesOf(t) /\ loose \cap LinesOf(t) \subseteq loose'
      /\ \A t \in Tables \ gone : LinesOf(t)' = {}
  BY <1>1, <1>2 DEF LinesOf
<1>6. loose' \subseteq placed' /\ placed' \subseteq Lines
  BY <1>1 DEF Orders
<1> QED  BY <1>2, <1>4, <1>5, <1>6 DEF Orders

-----------------------------------------------------------------------------
(* The invariant is inductive, and who may hide an account *)

NoneHides == \A t \in Tables : Hidden(t)' => Hidden(t)

\* A step that leaves the orders alone.
LEMMA QuietInvariant ==
  ASSUME IInv, UNCHANGED <<orderVars, gone>>, Room', NoneHidden, Rest',
         closing' => closing
  PROVE  IInv' /\ NoneHides
<1>1. Orders' /\ Stray'
  BY QuietStep DEF IInv
<1>2. NoneHides
  BY DEF NoneHides, NoneHidden, Hidden, LinesOf, orderVars
<1> QED  BY <1>1, <1>2 DEF IInv

\* A step that moves lines, or takes some away, and closes nothing.
LEMMA OrdersInvariant ==
  ASSUME IInv, Room', Orders', Rest', NoneHides, gone' = gone, closing' = closing,
         loose \cap placed' \subseteq loose', closing => placed' \subseteq placed \cup loose',
         \A t \in gone : LinesOf(t)' \subseteq LinesOf(t) \cup loose',
         \A t \in Tables : Hidden(t)' => LinesOf(t)' \subseteq LinesOf(t)
  PROVE  IInv'
<1>1. \A t \in Tables : LinesOf(t)' \subseteq placed'
  BY DEF Orders, Kept, LinesOf
<1>2. ASSUME NEW t \in Tables, rt'[t].status = "FREE"
      PROVE  LinesOf(t)' \subseteq loose'
  <2>1. CASE LinesOf(t)' = {}
    BY <2>1
  <2>2. CASE LinesOf(t)' # {}
    <3>1. Hidden(t)'
      BY <1>2, <2>2 DEF Hidden
    <3>2. Hidden(t) /\ LinesOf(t)' \subseteq LinesOf(t)
      BY <3>1 DEF NoneHides
    <3>3. LinesOf(t) \subseteq loose
      BY <3>2 DEF IInv, Stray, Hidden
    <3> QED  BY <1>1, <3>2, <3>3
  <2> QED  BY <2>1, <2>2
<1>3. ASSUME NEW t \in gone
      PROVE  LinesOf(t)' \subseteq loose'
  <2>1. t \in Tables /\ LinesOf(t) \subseteq loose
    BY DEF IInv, Rest, Stray
  <2> QED  BY <1>1, <2>1
<1>4. closing => placed' \subseteq loose'
  BY DEF IInv, Stray
<1> QED  BY <1>2, <1>3, <1>4 DEF IInv, Stray

LEMMA LockSteps ==
  ASSUME IInv, NEW o \in Operators, NEW t \in Tables, NEW seated \in BOOLEAN,
         RequestLock(o, t, seated) \/ ReleaseLock(o, t)
  PROVE  IInv' /\ NoneHides
<1>1. UNCHANGED <<orderVars, gone>> /\ Rest' /\ closing' = closing
  BY DEF RequestLock, ReleaseLock, roomVars, IInv, Rest
<1>2. Room' /\ NoneHidden
  BY RequestLockRoom, ReleaseLockRoom DEF IInv
<1> QED  BY <1>1, <1>2, QuietInvariant

LEMMA GuestSteps ==
  ASSUME IInv, NEW t \in Tables, NEW u \in Tables,
         OpenTable(t) \/ UpdateGuests(t, u)
  PROVE  IInv' /\ NoneHides
<1>1. UNCHANGED <<orderVars, gone>> /\ Rest' /\ closing' = closing
  BY DEF OpenTable, UpdateGuests, roomVars, IInv, Rest
<1>2. Room' /\ NoneHidden
  BY OpenTableRoom, UpdateGuestsRoom DEF IInv
<1> QED  BY <1>1, <1>2, QuietInvariant

LEMMA RequestSteps ==
  ASSUME IInv, NEW t \in Tables, RequestPayment(t) \/ RejectRequest(t)
  PROVE  IInv' /\ NoneHides
<1>1. UNCHANGED <<orderVars, gone>> /\ Rest' /\ closing' = closing
  BY DEF RequestPayment, RejectRequest, roomVars, IInv, Rest
<1>2. CASE RequestPayment(t)
  BY <1>1, <1>2, RequestPaymentRoom, QuietInvariant DEF IInv
<1>3. CASE RejectRequest(t)
  <2>1. Room' /\ NoneHidden
    BY <1>3 DEF RejectRequest, IInv, Room, NoneHidden
  <2> QED  BY <1>1, <2>1, QuietInvariant
<1> QED  BY <1>2, <1>3

LEMMA RefusedSteps ==
  ASSUME IInv, NEW o \in Operators, NEW t \in Tables, NEW u \in Tables,
         NEW before \in SUBSET Tables,
         TransferRefused(o, u, t) \/ MergeRefused(o, before, t)
  PROVE  IInv' /\ NoneHides
<1>1. UNCHANGED <<orderVars, gone>> /\ Rest' /\ closing' = closing
  BY DEF TransferRefused, MergeRefused, roomVars, IInv, Rest
<1>2. Room' /\ NoneHidden
  BY TransferRefusedRoom, MergeRefusedRoom DEF IInv
<1> QED  BY <1>1, <1>2, QuietInvariant

LEMMA RestartStep ==
  ASSUME IInv, Restart
  PROVE  IInv' /\ NoneHides
<1>1. UNCHANGED <<orderVars, gone>> /\ Rest' /\ (closing' => closing)
  BY DEF Restart, IInv, Rest
<1> QED  BY <1>1, RestartRoom, QuietInvariant DEF IInv

LEMMA AddLineStep ==
  ASSUME IInv, NEW t \in Tables, NEW l \in Lines, AddLine(t, l)
  PROVE  IInv' /\ NoneHides
<1>1. /\ Orders' /\ LinesOf(t)' = LinesOf(t) \cup {l}
      /\ \A v \in Tables : v # t => LinesOf(v)' = LinesOf(v)
  BY AddLineOrders DEF IInv
<1>2. rt' = [rt EXCEPT ![t] = Occupied(@)]
  BY DEF AddLine
<1>3. /\ Room' /\ rt'[t].status # "FREE"
      /\ \A v \in Tables : v # t => rt'[v] = rt[v]
  BY <1>2, OrderRoom DEF IInv
<1>4. /\ Rest' /\ gone' = gone /\ closing' = closing /\ loose \subseteq loose'
      /\ placed' = placed \cup {l} /\ (closing \/ t \in gone => l \in loose')
  BY DEF AddLine, roomVars, IInv, Rest
<1>5. \A v \in Tables : Hidden(v)' => v # t
  BY <1>3 DEF Hidden
<1>6. NoneHides
  BY <1>1, <1>3, <1>5 DEF NoneHides, Hidden
<1>7. \A v \in gone : LinesOf(v)' \subseteq LinesOf(v) \cup loose'
  BY <1>1, <1>4 DEF IInv, Rest
<1> QED  BY <1>1, <1>3, <1>4, <1>5, <1>6, <1>7, OrdersInvariant

LEMMA WithdrawLineStep ==
  ASSUME IInv, NEW t \in Tables, NEW l \in Lines, WithdrawLine(t, l)
  PROVE  IInv' /\ NoneHides
<1>1. /\ Orders' /\ loose' = loose \ {l} /\ placed' = placed \ {l}
      /\ \A v \in Tables : LinesOf(v)' = LinesOf(v) \ {l}
  BY WithdrawLineOrders DEF IInv
<1>2. rt' = [rt EXCEPT ![t] = Occupied(@)]
  BY DEF WithdrawLine
<1>3. /\ Room' /\ rt'[t].status # "FREE"
      /\ \A v \in Tables : v # t => rt'[v] = rt[v]
  BY <1>2, OrderRoom DEF IInv
<1>4. Rest' /\ gone' = gone /\ closing' = closing
  BY DEF WithdrawLine, roomVars, IInv, Rest
<1>5. NoneHides
  BY <1>1, <1>3 DEF NoneHides, Hidden
<1>6. \A v \in gone : LinesOf(v)' \subseteq LinesOf(v)
  BY <1>1 DEF IInv, Rest
<1> QED  BY <1>1, <1>3, <1>4, <1>5, <1>6, OrdersInvariant

LEMMA SubmitStep ==
  ASSUME IInv, NEW o \in Operators, NEW t \in Tables, Submit(o, t)
  PROVE  IInv' /\ NoneHides
<1>1. Orders' /\ \A v \in Tables : LinesOf(v)' = LinesOf(v)
  BY SubmitOrders DEF IInv
<1>2. /\ Room' /\ rt'[t].status # "FREE"
      /\ \A v \in Tables : v # t => rt'[v] = rt[v]
  BY SubmitRoom DEF IInv
<1>3. /\ Rest' /\ gone' = gone /\ closing' = closing /\ loose' = loose /\ placed' = placed
  BY DEF Submit, roomVars, IInv, Rest
<1>4. NoneHides
  BY <1>1, <1>2 DEF NoneHides, Hidden
<1>5. \A v \in gone : LinesOf(v)' \subseteq LinesOf(v)
  BY <1>1 DEF IInv, Rest
<1> QED  BY <1>1, <1>2, <1>3, <1>4, <1>5, OrdersInvariant

LEMMA TransferAllStep ==
  ASSUME IInv, NEW o \in Operators, NEW u \in Tables, NEW t \in Tables,
         TransferAll(o, u, t)
  PROVE  IInv' /\ NoneHides
<1>1. /\ Orders' /\ LinesOf(u)' = {}
      /\ LinesOf(t)' = LinesOf(u) \cup LinesOf(t)
      /\ \A v \in Tables : v \notin {u, t} => LinesOf(v)' = LinesOf(v)
  BY TransferAllOrders DEF IInv
<1>2. /\ Room' /\ rt'[t].status # "FREE"
      /\ \A v \in Tables : v \notin {u, t} => rt'[v] = rt[v]
  BY TransferAllRoom DEF IInv
<1>3. /\ Rest' /\ gone' = gone /\ closing' = closing /\ loose' = loose /\ placed' = placed
      /\ t \notin gone
  BY DEF TransferAll, Exist, roomVars, IInv, Rest
<1>4. NoneHides /\ \A v \in Tables : Hidden(v)' => LinesOf(v)' \subseteq LinesOf(v)
  BY <1>1, <1>2 DEF NoneHides, Hidden
<1>5. \A v \in gone : LinesOf(v)' \subseteq LinesOf(v)
  BY <1>1, <1>3 DEF IInv, Rest
<1> QED  BY <1>1, <1>2, <1>3, <1>4, <1>5, OrdersInvariant

LEMMA TransferLinesStep ==
  ASSUME IInv, NEW o \in Operators, NEW u \in Tables, NEW t \in Tables,
         NEW moved, TransferLines(o, u, t, moved)
  PROVE  IInv' /\ NoneHides
<1>1. /\ Orders' /\ LinesOf(u)' = LinesOf(u) \ moved
      /\ \A v \in Tables : v \notin {u, t} => LinesOf(v)' = LinesOf(v)
  BY TransferLinesOrders DEF IInv
<1>2. /\ Room' /\ rt'[t].status # "FREE" /\ rt'[u].status # "FREE"
      /\ \A v \in Tables : v \notin {u, t} => rt'[v] = rt[v]
  BY TransferLinesRoom DEF IInv
<1>3. /\ Rest' /\ gone' = gone /\ closing' = closing /\ loose' = loose /\ placed' = placed
      /\ t \notin gone
  BY DEF TransferLines, Exist, roomVars, IInv, Rest
<1>4. NoneHides /\ \A v \in Tables : Hidden(v)' => LinesOf(v)' \subseteq LinesOf(v)
  BY <1>1, <1>2 DEF NoneHides, Hidden
<1>5. \A v \in gone : LinesOf(v)' \subseteq LinesOf(v)
  BY <1>1, <1>3 DEF IInv, Rest
<1> QED  BY <1>1, <1>2, <1>3, <1>4, <1>5, OrdersInvariant

\* Merge and MergeStops, once their records and lines are known.
LEMMA GatheredStep ==
  ASSUME IInv, Room', Rest', NEW from \in SUBSET Tables, NEW t \in Tables,
         t \notin from, OrdersGathered(from, t),
         UNCHANGED <<placed, loose, gone, closing>>, t \notin gone,
         \A u \in Tables \ from : rt'[u].status = "FREE" => rt[u].status = "FREE",
         (\E u \in from : LinesOf(u) # {}) => rt'[t].status # "FREE"
  PROVE  IInv' /\ NoneHides
<1>1. /\ Orders'
      /\ \A u \in Tables : u \notin from \cup {t} => LinesOf(u)' = LinesOf(u)
      /\ \A u \in from : LinesOf(u)' = {}
      /\ LinesOf(t)' = LinesOf(t) \cup UNION {LinesOf(u) : u \in from}
  BY GatheredKept DEF IInv
<1>2. rt'[t].status = "FREE" => LinesOf(t)' = LinesOf(t)
  <2> SUFFICES ASSUME rt'[t].status = "FREE"
               PROVE  LinesOf(t)' = LinesOf(t)
    OBVIOUS
  <2>1. \A u \in from : LinesOf(u) = {}
    OBVIOUS
  <2>2. UNION {LinesOf(u) : u \in from} = {}
    BY <2>1
  <2> QED  BY <1>1, <2>2
<1>3. NoneHides /\ \A v \in Tables : Hidden(v)' => LinesOf(v)' \subseteq LinesOf(v)
  BY <1>1, <1>2 DEF NoneHides, Hidden
<1>4. \A v \in gone : LinesOf(v)' \subseteq LinesOf(v)
  BY <1>1 DEF IInv, Rest
<1> QED  BY <1>1, <1>3, <1>4, OrdersInvariant

LEMMA MergeStep ==
  ASSUME IInv, NEW o \in Operators, NEW sources \in SUBSET Tables,
         NEW t \in Tables, NEW seated \in BOOLEAN, Merge(o, sources, t, seated)
  PROVE  IInv' /\ NoneHides
<1>1. /\ Rest' /\ t \notin sources /\ t \notin gone /\ OrdersGathered(sources, t)
      /\ UNCHANGED <<placed, loose, gone, closing>>
  BY TableRuntimeAssumption DEF Merge, Exist, roomVars, IInv, Rest
<1> QED  BY <1>1, MergeRoom, GatheredStep DEF IInv

LEMMA MergeStopsStep ==
  ASSUME IInv, NEW o \in Operators, NEW sources \in SUBSET Tables,
         NEW moved \in SUBSET sources, NEW t \in Tables,
         MergeStops(o, sources, moved, t)
  PROVE  IInv' /\ NoneHides
<1>1. /\ Rest' /\ t \notin moved /\ t \notin gone /\ OrdersGathered(moved, t)
      /\ UNCHANGED <<placed, loose, gone, closing>>
  BY TableRuntimeAssumption DEF MergeStops, Exist, roomVars, IInv, Rest
<1>2. moved \in SUBSET Tables
  OBVIOUS
<1> QED  BY <1>1, <1>2, MergeStopsRoom, GatheredStep DEF IInv

LEMMA PayStep ==
  ASSUME IInv, NEW t \in Tables, Pay(t)
  PROVE  /\ IInv'
         /\ \A v \in Tables : Hidden(v)' /\ ~Hidden(v) => v # t /\ v \in rt[t].linked
<1>1. /\ Orders' /\ LinesOf(t)' = {} /\ placed' = placed \ LinesOf(t)
      /\ loose \ LinesOf(t) \subseteq loose'
      /\ \A v \in Tables : v # t => LinesOf(v)' = LinesOf(v)
      /\ \A v \in rt[t].linked : v # t => LinesOf(v) \subseteq loose'
  BY PayOrders DEF IInv
<1>2. Room' /\ \A v \in Tables : v \notin {t} \cup rt[t].linked => rt'[v] = rt[v]
  BY PayRoom DEF IInv
<1>3. Rest' /\ gone' = gone /\ closing' = closing
  BY DEF Pay, roomVars, IInv, Rest
<1>4. \A v \in Tables : v # t => LinesOf(v) \cap LinesOf(t) = {}
  BY DEF IInv, Orders, Kept, LinesOf
<1>5. \A v \in Tables : LinesOf(v) \subseteq loose => LinesOf(v)' \subseteq loose'
  BY <1>1, <1>4
<1>6. \A v \in Tables : rt'[v].status = "FREE" => LinesOf(v)' \subseteq loose'
  BY <1>1, <1>2, <1>5 DEF IInv, Stray
<1>7. \A v \in gone : LinesOf(v)' \subseteq loose'
  BY <1>5 DEF IInv, Stray, Rest
<1>8. closing => placed' \subseteq loose'
  BY <1>1 DEF IInv, Stray
<1>9. Stray'
  BY <1>3, <1>6, <1>7, <1>8 DEF Stray
<1>10. \A v \in Tables : Hidden(v)' /\ ~Hidden(v) => v # t /\ v \in rt[t].linked
  BY <1>1, <1>2 DEF Hidden
<1> QED  BY <1>1, <1>2, <1>3, <1>9, <1>10 DEF IInv

LEMMA DeleteTablesStep ==
  ASSUME IInv, NEW doomed \in SUBSET Tables, DeleteTables(doomed)
  PROVE  IInv' /\ NoneHides
<1>1. /\ rt' = rt /\ draft' = draft /\ sent' = sent /\ placed' = placed
      /\ loose' = loose /\ closing' = closing /\ gone' = gone \cup doomed
      /\ \A t \in doomed : rt[t].status = "FREE"
  BY DEF DeleteTables, orderVars
<1>2. \A t : LinesOf(t)' = LinesOf(t)
  BY <1>1 DEF LinesOf
<1>3. Room' /\ Orders' /\ NoneHides
  BY <1>1, <1>2 DEF IInv, Room, Orders, NoneHides, Hidden
<1>4. Rest'
  BY <1>1 DEF DeleteTables, IInv, Rest
<1>5. \A t \in Tables : rt[t].status = "FREE" => LinesOf(t) \subseteq loose
  BY DEF IInv, Stray
<1>6. \A t \in gone' : LinesOf(t) \subseteq loose
  BY <1>1, <1>5 DEF IInv, Stray
<1>7. Stray'
  BY <1>1, <1>2, <1>5, <1>6 DEF IInv, Stray
<1> QED  BY <1>3, <1>4, <1>7 DEF IInv

LEMMA StartClosureStep ==
  ASSUME IInv, StartClosure
  PROVE  IInv' /\ NoneHides
<1>1. /\ rt' = rt /\ draft' = draft /\ sent' = sent /\ placed' = placed
      /\ loose' = loose /\ gone' = gone
      /\ \A t \in Tables : rt[t].status = "FREE"
  BY DEF StartClosure, orderVars
<1>2. \A t : LinesOf(t)' = LinesOf(t)
  BY <1>1 DEF LinesOf
<1>3. Room' /\ Orders' /\ NoneHides
  BY <1>1, <1>2 DEF IInv, Room, Orders, NoneHides, Hidden
<1>4. Rest'
  BY <1>1 DEF StartClosure, IInv, Rest
<1>5. \A t \in Tables : LinesOf(t) \subseteq loose
  BY <1>1 DEF IInv, Stray
<1>6. placed \subseteq loose
  BY <1>5 DEF IInv, Orders, Kept, LinesOf
<1>7. Stray'
  BY <1>1, <1>2, <1>4, <1>5, <1>6 DEF IInv, Stray, Rest
<1> QED  BY <1>3, <1>4, <1>7 DEF IInv

LEMMA EndClosureStep ==
  ASSUME IInv, EndClosure
  PROVE  /\ IInv'
         /\ \A v \in Tables : Hidden(v)' /\ ~Hidden(v) =>
              \E h \in Tables \ {v} : v \in rt[h].linked
<1>1. /\ Orders'
      /\ \A t \in gone : LinesOf(t)' = LinesOf(t) /\ loose \cap LinesOf(t) \subseteq loose'
      /\ \A t \in Tables \ gone : LinesOf(t)' = {}
  BY EndClosureOrders DEF IInv, Rest
<1>2. Room' /\ Rest' /\ gone' = gone /\ closing' = FALSE
  BY EndClosureRoom DEF EndClosure, IInv, Rest
<1>3. \A t \in gone : LinesOf(t)' \subseteq loose'
  BY <1>1 DEF IInv, Stray
<1>4. \A t \in Tables : LinesOf(t)' \subseteq loose'
  BY <1>1, <1>3
<1>5. Stray'
  BY <1>2, <1>3, <1>4 DEF Stray
<1>6. ASSUME NEW v \in Tables, Hidden(v)', ~Hidden(v)
      PROVE  \E h \in Tables \ {v} : v \in rt[h].linked
  <2>1. v \in gone /\ LinesOf(v) # {}
    BY <1>1, <1>6 DEF Hidden
  <2>2. rt[v].status # "FREE"
    BY <1>6, <2>1 DEF Hidden
  <2>3. rt'[v] # rt[v]
    BY <1>6, <2>2 DEF Hidden
  <2>4. v \notin gone \ UNION {rt[t].linked : t \in Tables \ gone}
    BY <2>3 DEF EndClosure
  <2> QED  BY <2>1, <2>4
<1> QED  BY <1>1, <1>2, <1>5, <1>6 DEF IInv

LEMMA InitInvariant == Init => IInv
<1> SUFFICES ASSUME Init
             PROVE  IInv
  OBVIOUS
<1>1. Room
  BY FreeSound, FreeRecord DEF Init, Room
<1>2. \A t \in Tables : draft[t] = {} /\ sent[t] = {} /\ LinesOf(t) = {}
  BY DEF Init, LinesOf
<1>3. Orders
  BY <1>2 DEF Init, Orders, Kept
<1>4. Stray
  BY <1>2 DEF Init, Stray
<1>5. Rest
  <2>1. merges \in 0 .. MaxMerges
    BY TableRuntimeAssumption DEF Init
  <2>2. closing \in BOOLEAN
    BY DEF Init
  <2>3. asked \subseteq Tables /\ gone \subseteq Tables
    BY DEF Init
  <2> QED  BY <2>1, <2>2, <2>3 DEF Rest
<1> QED  BY <1>1, <1>3, <1>4, <1>5 DEF IInv

LEMMA StepInvariant ==
  ASSUME IInv, Next
  PROVE  IInv' /\ HiddenByHost
<1> USE DEF NoneHides, HiddenByHost
<1>1. CASE \E o \in Operators : Transfers(o)
  <2>1. PICK o \in Operators : Transfers(o)
    BY <1>1
  <2>2. PICK u, t \in Tables :
          \/ TransferAll(o, u, t)
          \/ \E moved \in SUBSET LinesOf(u) : TransferLines(o, u, t, moved)
          \/ TransferRefused(o, u, t)
    BY <2>1 DEF Transfers
  <2>3. {} \in SUBSET Tables
    OBVIOUS
  <2> QED  BY <2>2, <2>3, TransferAllStep, TransferLinesStep, RefusedSteps
<1>2. CASE \E o \in Operators : Merges(o)
  <2>1. PICK o \in Operators : Merges(o)
    BY <1>2
  <2>2. PICK t \in Tables, sources \in SUBSET Tables :
          \/ \E seated \in BOOLEAN : Merge(o, sources, t, seated)
          \/ \E moved \in SUBSET sources : MergeStops(o, sources, moved, t)
          \/ MergeRefused(o, sources, t)
    BY <2>1 DEF Merges
  <2> QED  BY <2>2, MergeStep, MergeStopsStep, RefusedSteps
<1>3. ASSUME NEW o \in Operators, NEW t \in Tables,
             \/ \E seated \in BOOLEAN : RequestLock(o, t, seated)
             \/ ReleaseLock(o, t)
             \/ Submit(o, t)
      PROVE  IInv' /\ HiddenByHost
  BY <1>3, LockSteps, SubmitStep
<1>4. ASSUME NEW t \in Tables, NEW u \in Tables, OpenTable(t) \/ UpdateGuests(t, u)
      PROVE  IInv' /\ HiddenByHost
  BY <1>4, GuestSteps
<1>5. ASSUME NEW t \in Tables, NEW l \in Lines, AddLine(t, l) \/ WithdrawLine(t, l)
      PROVE  IInv' /\ HiddenByHost
  BY <1>5, AddLineStep, WithdrawLineStep
<1>6. ASSUME NEW t \in Tables, RequestPayment(t) \/ RejectRequest(t)
      PROVE  IInv' /\ HiddenByHost
  BY <1>6, RequestSteps
<1>7. ASSUME NEW t \in Tables, Pay(t)
      PROVE  IInv' /\ HiddenByHost
  <2>1. /\ IInv'
        /\ \A v \in Tables : Hidden(v)' /\ ~Hidden(v) => v # t /\ v \in rt[t].linked
    BY <1>7, PayStep
  <2> QED  BY <1>7, <2>1
<1>8. ASSUME NEW doomed \in SUBSET Tables, DeleteTables(doomed)
      PROVE  IInv' /\ HiddenByHost
  BY <1>8, DeleteTablesStep
<1>9. CASE StartClosure
  BY <1>9, StartClosureStep
<1>10. CASE EndClosure
  BY <1>10, EndClosureStep
<1>11. CASE Restart
  BY <1>11, RestartStep
<1> QED
  BY <1>1, <1>2, <1>3, <1>4, <1>5, <1>6, <1>7, <1>8, <1>9, <1>10, <1>11 DEF Next

LEMMA StutterInvariant == ASSUME IInv, UNCHANGED vars PROVE IInv' /\ HiddenByHost
<1>1. /\ rt' = rt /\ draft' = draft /\ sent' = sent /\ placed' = placed /\ loose' = loose
      /\ asked' = asked /\ merges' = merges /\ gone' = gone /\ closing' = closing
  BY DEF vars, orderVars, roomVars
<1>2. \A t : LinesOf(t)' = LinesOf(t)
  BY <1>1 DEF LinesOf
<1>3. Room' /\ Orders' /\ Rest'
  BY <1>1 DEF IInv, Room, Orders, Rest
<1>4. Stray'
  BY <1>1, <1>2 DEF IInv, Stray
<1> QED  BY <1>1, <1>2, <1>3, <1>4 DEF IInv, Hidden, HiddenByHost

THEOREM Invariance == Spec => []IInv
<1>1. IInv /\ [Next]_vars => IInv'
  BY StepInvariant, StutterInvariant
<1> QED  BY InitInvariant, <1>1, PTL DEF Spec

-----------------------------------------------------------------------------
(* What it gives *)

\* Whatever the devices do, in whatever order, the variables keep their
\* types and no table is united on itself (registerTableUnion,
\* clearTableUnion of lib/runtime.ts).
THEOREM TypeCorrect == Spec => []TypeOK
<1>1. IInv => TypeOK
  BY DEF IInv, Room, Orders, Rest, Sound, TypeOK
<1> QED  BY Invariance, <1>1, PTL

\* However accounts are moved, split over two tables, merged and stopped half
\* way, deleted tables and closures included, a line ordered is on exactly
\* one table, once, until it is withdrawn, paid or wiped by the closure.
THEOREM LinesAreKept == Spec => []LinesKept
<1>1. IInv => LinesKept
  BY KeptIs DEF IInv, Orders
<1> QED  BY Invariance, <1>1, PTL

\* No handler, transfer refused half way or restart leaves a table LOCKED by
\* nobody: requestLock would refuse it to everybody for ever.
THEOREM LocksHaveHolders == Spec => []LockedHasHolder
<1>1. IInv => LockedHasHolder
  BY DEF IInv, Room, Sound, LockedHasHolder
<1> QED  BY Invariance, <1>1, PTL

\* Whoever deletes a table or a room takes no account with it but those a
\* payment of a united table had left hidden (routes/sala.ts).
THEOREM DeletionTakesNoOrders == Spec => []DeletedTablesHadNoOrders
<1>1. IInv => DeletedTablesHadNoOrders
  BY DEF IInv, Stray, DeletedTablesHadNoOrders
<1> QED  BY Invariance, <1>1, PTL

\* The closure of the day wipes no line but those hidden by the payment of a
\* united table, ordered on a deleted table, or ordered after its pre-check
\* (complete of routes/closure.ts).
THEOREM ClosureWipesNothingElse == Spec => ClosureWipesOnlyStrays
<1>1. IInv /\ EndClosure => placed \ placed' \subseteq loose
  BY DEF IInv, Stray, EndClosure
<1> QED  BY Invariance, <1>1, PTL DEF Spec, ClosureWipesOnlyStrays

\* An account open on a table the room shows as FREE comes only from the
\* payment, or the closing of the day, of the table it was united to: no lock,
\* transfer, union, timeout or restart hides one (clearTableUnion).
THEOREM HiddenByTheHost == Spec => HiddenOnlyByHost
<1>1. IInv /\ [Next]_vars => HiddenByHost
  BY StepInvariant, StutterInvariant
<1> QED  BY Invariance, <1>1, PTL DEF Spec, HiddenOnlyByHost

-----------------------------------------------------------------------------
(* Guests left on a free table *)

\* Who hosts a union is not FREE: to free a host is to free all its union
\* (clearTableUnion).
HostsOpen == \A t \in Tables : rt[t].linked # {} => rt[t].status # "FREE"

\* A record of a table after a step that makes no host FREE.
KeepsHost(before, after) ==
  after.status = "FREE" =>
    after.linked = {} \/ (before.status = "FREE" /\ after.linked = before.linked)

\* A record after a step that leaves no guests on a FREE table in no union.
LeavesNoGuests(before, after) ==
  after.status = "FREE" =>
    \/ ~after.guests
    \/ after.into # NoTable
    \/ /\ before.status = "FREE"
       /\ after.guests = before.guests /\ after.into = before.into

\* Both, of every step but two.
Tame(before, after) == KeepsHost(before, after) /\ LeavesNoGuests(before, after)

LEMMA TameIs ==
  /\ \A r : Tame(r, r) /\ Tame(r, FreeTable)
  /\ \A r, s : s.status # "FREE" => Tame(r, s)
<1>1. FreeTable.linked = {} /\ FreeTable.guests = FALSE
  BY DEF FreeTable
<1> QED  BY <1>1 DEF Tame, KeepsHost, LeavesNoGuests

\* A step that changes one table, and that one tamely.
LEMMA TameOne ==
  ASSUME Room, NEW t \in Tables, NEW r, Sound(r, t), Tame(rt[t], r),
         rt' = [rt EXCEPT ![t] = r]
  PROVE  \A u \in Tables : Tame(rt[u], rt'[u])
  BY RoomButOne, TameIs

LEMMA TameSteps ==
  ASSUME HostsOpen, \A t \in Tables : Tame(rt[t], rt'[t])
  PROVE  HostsOpen' /\ \A t \in Tables : GuestsLeft(t)' => GuestsLeft(t)
<1>1. ASSUME NEW t \in Tables, rt'[t].linked # {}, rt'[t].status = "FREE"
      PROVE  FALSE
  BY <1>1 DEF HostsOpen, Tame, KeepsHost
<1>2. ASSUME NEW t \in Tables, GuestsLeft(t)'
      PROVE  GuestsLeft(t)
  BY <1>2 DEF GuestsLeft, Tame, LeavesNoGuests
<1> QED  BY <1>1, <1>2 DEF HostsOpen

\* requestLock and releaseLock.
LEMMA LocksTame ==
  ASSUME Room, NEW o \in Operators, NEW t \in Tables,
         \/ \E seated \in BOOLEAN : RequestLock(o, t, seated)
         \/ ReleaseLock(o, t)
  PROVE  \A u \in Tables : Tame(rt[u], rt'[u])
<1>0. Sound(rt[t], t)
  BY DEF Room
<1>1. ASSUME NEW seated \in BOOLEAN, RequestLock(o, t, seated)
      PROVE  \A u \in Tables : Tame(rt[u], rt'[u])
  <2> DEFINE l == Locked(rt[t], o)
             r == Seated(l, seated)
  <2>1. Sound(l, t) /\ l.status = "LOCKED"
    BY <1>0, LockedSound
  <2>2. rt' = [rt EXCEPT ![t] = r]
    BY <1>1 DEF RequestLock
  <2> HIDE DEF l
  <2>3. Sound(r, t) /\ r.status = "LOCKED"
    BY <2>1, SeatedSound
  <2> HIDE DEF r
  <2>4. Tame(rt[t], r)
    BY <2>3, TameIs
  <2> QED  BY <2>2, <2>3, <2>4, TameOne
<1>2. CASE ReleaseLock(o, t)
  <2> DEFINE r == Released(rt[t], LinesOf(t) # {})
  <2>1. Sound(r, t)
    BY <1>0, ReleasedSound
  <2>2. rt' = [rt EXCEPT ![t] = r]
    BY <1>2 DEF ReleaseLock
  <2>3. r = FreeTable \/ r.status = "OCCUPIED"
    <3>1. "OCCUPIED" \in Statuses
      BY StatusesAre
    <3> QED  BY <1>0, <3>1, UnlockedSound DEF Released
  <2> HIDE DEF r
  <2>4. Tame(rt[t], r)
    BY <2>3, TameIs
  <2> QED  BY <2>1, <2>2, <2>4, TameOne
<1> QED  BY <1>1, <1>2

\* A reservation seated (openTableWithGuests).
LEMMA OpenTableTame ==
  ASSUME Room, NEW t \in Tables, OpenTable(t)
  PROVE  \A u \in Tables : Tame(rt[u], rt'[u])
<1> DEFINE r == [FreeTable EXCEPT !.status = "OCCUPIED", !.guests = TRUE]
<1>1. Sound(r, t) /\ r.status = "OCCUPIED"
  BY FreeRecord DEF Sound, FreeTable, Record, Statuses
<1>2. rt' = [rt EXCEPT ![t] = r]
  BY DEF OpenTable
<1> HIDE DEF r
<1>3. Tame(rt[t], r)
  BY <1>1, TameIs
<1> QED  BY <1>1, <1>2, <1>3, TameOne

\* A line more or less.
LEMMA LinesTame ==
  ASSUME Room, NEW t \in Tables, NEW l \in Lines, AddLine(t, l) \/ WithdrawLine(t, l)
  PROVE  \A u \in Tables : Tame(rt[u], rt'[u])
<1>1. rt' = [rt EXCEPT ![t] = Occupied(@)]
  BY DEF AddLine, WithdrawLine
<1> QED  BY <1>1, OrderRoom, TameIs

\* A bill asked for or refused.
LEMMA RequestsTame ==
  ASSUME Room, NEW t \in Tables, RequestPayment(t) \/ RejectRequest(t)
  PROVE  \A u \in Tables : Tame(rt[u], rt'[u])
<1>1. CASE RequestPayment(t)
  <2> DEFINE r == Unlocked(rt[t], "BILL_REQUESTED")
  <2>1. "BILL_REQUESTED" \in Statuses
    BY StatusesAre
  <2>2. Sound(r, t) /\ r.status = "BILL_REQUESTED"
    BY <2>1, UnlockedSound DEF Room
  <2>3. rt' = [rt EXCEPT ![t] = r]
    BY <1>1 DEF RequestPayment
  <2> HIDE DEF r
  <2>4. Tame(rt[t], r)
    BY <2>2, TameIs
  <2> QED  BY <2>2, <2>3, <2>4, TameOne
<1>2. CASE RejectRequest(t)
  BY <1>2, TameIs DEF RejectRequest
<1> QED  BY <1>1, <1>2

\* An account moved, or not, to another table.
LEMMA TransfersTame ==
  ASSUME Room, NEW o \in Operators, NEW u \in Tables, NEW t \in Tables,
         NEW moved \in SUBSET LinesOf(u),
         TransferAll(o, u, t) \/ TransferLines(o, u, t, moved) \/ TransferRefused(o, u, t)
  PROVE  \A v \in Tables : Tame(rt[v], rt'[v])
<1>0. /\ Sound(rt[u], u) /\ Sound(rt[t], t) /\ rt[u] \in Record
      /\ rt \in [Tables -> Record]
  BY DEF Room
<1>1. CASE TransferAll(o, u, t)
  <2>1. u # t /\ rt' = [rt EXCEPT ![u] = FreeTable, ![t] = rt'[t]] /\ rt'[t].status # "FREE"
    <3> DEFINE target == WithGuestsOf(rt[u], rt[t])
               r == IF LinesOf(u) = {} THEN target ELSE Occupied(target)
    <3>1. u # t /\ rt' = [rt EXCEPT ![u] = FreeTable, ![t] = r]
      BY <1>1 DEF TransferAll, MayMove
    <3>2. Sound(target, t) /\ target.status # "FREE"
      BY <1>0, WithGuestsOfSound
    <3> HIDE DEF target
    <3>3. r.status # "FREE"
      BY <3>2, OccupiedSound
    <3> HIDE DEF r
    <3> QED  BY <1>0, <3>1, <3>3
  <2>2. rt'[u] = FreeTable /\ \A v \in Tables \ {u, t} : rt'[v] = rt[v]
    BY <1>0, <2>1
  <2> QED  BY <2>1, <2>2, TameIs
<1>2. CASE TransferLines(o, u, t, moved)
  <2> DEFINE l == LockTaken(o, u, rt[u])
             r == Occupied(l)
             s == Occupied(rt[t])
  <2>1. u # t /\ rt' = [rt EXCEPT ![u] = r, ![t] = s]
    BY <1>2 DEF TransferLines, MayMove
  <2>2. Sound(l, u)
    BY <1>0, LockTakenSound
  <2> HIDE DEF l
  <2>3. r.status # "FREE" /\ s.status # "FREE"
    BY <1>0, <2>2, OccupiedSound
  <2> HIDE DEF r, s
  <2>4. rt'[u] = r /\ rt'[t] = s /\ \A v \in Tables \ {u, t} : rt'[v] = rt[v]
    BY <1>0, <2>1
  <2> QED  BY <2>3, <2>4, TameIs
<1>3. CASE TransferRefused(o, u, t)
  <2> DEFINE r == Locked(rt[u], o)
  <2>1. Sound(r, u) /\ r.status = "LOCKED"
    BY <1>0, LockedSound
  <2>2. rt' = [rt EXCEPT ![u] = r]
    BY <1>3 DEF TransferRefused
  <2> HIDE DEF r
  <2>3. Tame(rt[u], r)
    BY <2>1, TameIs
  <2> QED  BY <2>1, <2>2, <2>3, TameOne
<1> QED  BY <1>1, <1>2, <1>3

\* A lock taken on the way leaves the guests where they are.
LEMMA LockTakenTame ==
  ASSUME NEW t \in Tables, NEW r, Sound(r, t), NEW o \in Operators, NEW u
  PROVE  LockTaken(o, u, r) = r \/ LockTaken(o, u, r).status # "FREE"
  BY LockedSound DEF LockTaken

\* What is freed, of the tables a payment, a closure or a restart frees.
LEMMA FreedTame ==
  ASSUME Room, (\E t \in Tables : Pay(t)) \/ EndClosure \/ Restart \/ StartClosure
               \/ (\E doomed \in SUBSET Tables : DeleteTables(doomed))
  PROVE  \A u \in Tables : Tame(rt[u], rt'[u])
<1>1. CASE (\E t \in Tables : Pay(t)) \/ EndClosure
  <2>1. \A u \in Tables : rt'[u] \in {FreeTable, rt[u]}
    BY <1>1 DEF Pay, EndClosure
  <2> QED  BY <2>1, TameIs
<1>2. CASE StartClosure \/ \E doomed \in SUBSET Tables : DeleteTables(doomed)
  BY <1>2, TameIs DEF StartClosure, DeleteTables
<1>3. CASE Restart
  <2> SUFFICES ASSUME NEW t \in Tables PROVE Tame(rt[t], rt'[t])
    OBVIOUS
  <2> DEFINE unheld == [rt[t] EXCEPT !.by = Nobody]
             freed == Released(rt[t], LinesOf(t) # {})
  <2>1. rt'[t] = CASE rt[t].by = Nobody -> rt[t]
                   [] rt[t].status = "LOCKED" -> freed
                   [] OTHER -> unheld
    BY <1>3 DEF Restart
  <2>2. Sound(rt[t], t)
    BY DEF Room
  <2>3. freed = FreeTable \/ freed.status = "OCCUPIED"
    <3>1. "OCCUPIED" \in Statuses
      BY StatusesAre
    <3> QED  BY <2>2, <3>1, UnlockedSound DEF Released
  <2>4. /\ unheld.status = rt[t].status /\ unheld.linked = rt[t].linked
        /\ unheld.guests = rt[t].guests /\ unheld.into = rt[t].into
    BY <2>2 DEF Sound, Record
  <2> HIDE DEF freed, unheld
  <2>5. Tame(rt[t], unheld)
    BY <2>4 DEF Tame, KeepsHost, LeavesNoGuests
  <2>6. Tame(rt[t], freed) /\ Tame(rt[t], rt[t])
    BY <2>3, TameIs
  <2>7. CASE rt[t].by = Nobody
    <3>1. rt[t].status # "LOCKED"
      BY <2>2, <2>7 DEF Sound
    <3> QED  BY <2>1, <2>6, <2>7, <3>1
  <2>8. CASE rt[t].by # Nobody
    BY <2>1, <2>5, <2>6, <2>8
  <2> QED  BY <2>7, <2>8
<1> QED  BY <1>1, <1>2, <1>3

\* Guests written on a table (PATCH /tables/:id/guests): if the ends of the
\* unions agree, the table is in use or in a union.
LEMMA UpdateGuestsTame ==
  ASSUME Room, HostsOpen, NEW t \in Tables, NEW u \in Tables, UpdateGuests(t, u)
  PROVE  HostsOpen' /\ \A v \in Tables : GuestsLeft(v)' /\ UnionConsistent => GuestsLeft(v)
<1> DEFINE r == [rt[u] EXCEPT !.guests = TRUE]
<1>1. Sound(rt[u], u) /\ rt[u] \in Record /\ rt \in [Tables -> Record]
  BY DEF Room
<1>2. /\ r.status = rt[u].status /\ r.linked = rt[u].linked /\ r.into = rt[u].into
      /\ Sound(r, u)
  BY <1>1, GuestsSound DEF Record
<1>3. rt' = [rt EXCEPT ![u] = r]
  BY DEF UpdateGuests
<1> HIDE DEF r
<1>4. rt'[u] = r /\ \A v \in Tables : v # u => rt'[v] = rt[v]
  BY <1>1, <1>3
<1>5. HostsOpen'
  BY <1>2, <1>4 DEF HostsOpen
<1>6. ASSUME UnionConsistent, rt[u].status = "FREE", rt[u].into = NoTable
      PROVE  FALSE
  <2>1. u \in Members(t) \cup {t} /\ (rt[t].status # "FREE" \/ rt[t].into # NoTable)
    BY DEF UpdateGuests
  <2>2. u # t
    BY <1>6, <2>1
  <2>3. HostOf(t) \in Tables /\ (HostOf(t) # t => rt[t].into = HostOf(t))
    BY DEF HostOf, Room, Record
  <2>4. CASE u = HostOf(t)
    <3>1. t \in rt[u].linked
      BY <1>6, <2>2, <2>3, <2>4 DEF UnionConsistent
    <3> QED  BY <1>6, <3>1 DEF HostsOpen
  <2>5. CASE u \in rt[HostOf(t)].linked
    <3>1. rt[u].into = HostOf(t)
      BY <1>6, <2>3, <2>5 DEF UnionConsistent
    <3> QED  BY <1>6, <2>3, <3>1, TableRuntimeAssumption
  <2> QED  BY <2>1, <2>2, <2>4, <2>5 DEF Members
<1>7. ASSUME NEW v \in Tables, GuestsLeft(v)', UnionConsistent
      PROVE  GuestsLeft(v)
  <2>1. CASE v = u
    BY <1>2, <1>4, <1>6, <1>7, <2>1 DEF GuestsLeft
  <2>2. CASE v # u
    BY <1>4, <1>7, <2>2 DEF GuestsLeft
  <2> QED  BY <2>1, <2>2
<1> QED  BY <1>5, <1>7

\* The records of a merge on the way: a table moved may be left FREE with its
\* guests; the one they move to is not FREE.
LEMMA GatheredTame ==
  ASSUME Room, NEW o \in Operators, NEW sources \in SUBSET Tables,
         NEW moved \in SUBSET sources, NEW t \in Tables, t \notin sources
  PROVE  LET g == Gathered(o, sources, moved, t)
         IN  /\ \A u \in Tables : KeepsHost(rt[u], g[u])
             /\ \A u \in Tables \ moved : Tame(rt[u], g[u])
             /\ \A u \in Tables \ (sources \cup {t}) : g[u] = rt[u]
             /\ moved # {} => g[t].status # "FREE"
<1> DEFINE taken(u) == IF u \in sources THEN LockTaken(o, u, rt[u]) ELSE rt[u]
           left(u) == [FreeTable EXCEPT !.guests = rt[u].guests]
           isMoved(u) == IF LinesOf(u) = {} /\ rt[u].guests THEN taken(u) ELSE left(u)
           withLines == \E u \in moved : LinesOf(u) # {}
           opened == moved # {} /\ (withLines \/ rt[t].status = "FREE")
           g == Gathered(o, sources, moved, t)
           after(u) == CASE u \in moved -> isMoved(u)
                         [] u = t /\ moved # {} /\ (withLines \/ rt[t].status = "FREE") ->
                              Occupied(rt[t])
                         [] OTHER -> taken(u)
<1>1. g = [u \in Tables |-> after(u)]
  BY DEF Gathered
<1>2. ASSUME NEW u \in Tables
      PROVE  /\ Tame(rt[u], taken(u))
             /\ u \notin sources => taken(u) = rt[u]
  <2>1. Sound(rt[u], u)
    BY DEF Room
  <2> QED  BY <2>1, LockTakenTame, TameIs
<1>3. ASSUME NEW u \in Tables
      PROVE  left(u).linked = {}
  BY DEF FreeTable
<1>4. ASSUME NEW u \in Tables
      PROVE  KeepsHost(rt[u], isMoved(u))
  <2>1. KeepsHost(rt[u], taken(u))
    BY <1>2 DEF Tame
  <2>2. KeepsHost(rt[u], left(u))
    BY <1>3 DEF KeepsHost
  <2> HIDE DEF taken, left
  <2> QED  BY <2>1, <2>2
<1>5. Occupied(rt[t]).status # "FREE" /\ Tame(rt[t], Occupied(rt[t]))
  BY OccupiedSound, TameIs DEF Room
<1>6. ASSUME NEW u \in Tables
      PROVE  /\ u \in moved => after(u) = isMoved(u)
             /\ u = t /\ opened => after(u) = Occupied(rt[t])
             /\ u \notin moved /\ ~(u = t /\ opened) => after(u) = taken(u)
  <2>1. CASE u \in moved
    <3>1. u # t
      BY <2>1
    <3>2. after(u) = isMoved(u)
      <4> HIDE DEF isMoved, taken
      <4> QED  BY <2>1, <3>1
    <3> HIDE DEF after
    <3> QED  BY <2>1, <3>1, <3>2
  <2>2. CASE u = t /\ opened
    <3>1. u \notin moved
      BY <2>2
    <3>2. after(u) = Occupied(rt[t])
      <4> HIDE DEF isMoved, taken, withLines
      <4> QED  BY <2>2, <3>1
    <3> HIDE DEF after
    <3> QED  BY <2>2, <3>1, <3>2
  <2>3. CASE u \notin moved /\ ~(u = t /\ opened)
    <3>1. after(u) = taken(u)
      <4> HIDE DEF isMoved, taken, withLines
      <4> QED  BY <2>3
    <3> HIDE DEF after
    <3> QED  BY <2>3, <3>1
  <2> QED  BY <2>1, <2>2, <2>3
<1> HIDE DEF after, isMoved, taken, g
<1>7. \A u \in Tables : g[u] = after(u)
  BY <1>1
<1>8. \A u \in Tables \ moved : Tame(rt[u], g[u])
  BY <1>2, <1>5, <1>6, <1>7
<1>9. \A u \in Tables : KeepsHost(rt[u], g[u])
  BY <1>4, <1>6, <1>7, <1>8 DEF Tame
<1>10. \A u \in Tables \ (sources \cup {t}) : g[u] = rt[u]
  BY <1>2, <1>6, <1>7
<1>11. moved # {} => g[t].status # "FREE"
  <2>1. CASE opened
    BY <1>5, <1>6, <1>7, <2>1
  <2>2. CASE moved # {} /\ ~opened
    <3>1. g[t] = rt[t] /\ rt[t].status # "FREE"
      <4>1. t \notin moved
        OBVIOUS
      <4>2. g[t] = rt[t]
        BY <1>2, <1>6, <1>7, <2>2, <4>1
      <4> QED  BY <2>2, <4>2
    <3> QED  BY <3>1
  <2> QED  BY <2>1, <2>2
<1> QED  BY <1>8, <1>9, <1>10, <1>11 DEF g

\* A merge that is done: its sources are in the union, its host is in use.
LEMMA MergeTame ==
  ASSUME Room, NEW o \in Operators, NEW sources \in SUBSET Tables,
         NEW t \in Tables, NEW seated \in BOOLEAN,
         Merge(o, sources, t, seated)
  PROVE  \A u \in Tables : Tame(rt[u], rt'[u])
<1> DEFINE g == Gathered(o, sources, sources, t)
           records == United(g, sources, t)
           seats(u) == [records[u] EXCEPT !.guests = TRUE]
           host == [g[t] EXCEPT !.linked = @ \cup sources]
           joined(u) == [FreeTable EXCEPT !.into = t, !.guests = g[u].guests]
<1>1. t \notin sources /\ sources # {}
  BY DEF Merge
<1>2. /\ \A u \in Tables \ (sources \cup {t}) : g[u] = rt[u]
      /\ g[t].status # "FREE"
      /\ g \in [Tables -> Record]
  <2>1. sources \in SUBSET sources
    OBVIOUS
  <2>2. ASSUME NEW moved \in SUBSET sources
        PROVE  LET h == Gathered(o, sources, moved, t)
               IN  /\ \A u \in Tables : KeepsHost(rt[u], h[u])
                   /\ \A u \in Tables \ moved : Tame(rt[u], h[u])
                   /\ \A u \in Tables \ (sources \cup {t}) : h[u] = rt[u]
                   /\ moved # {} => h[t].status # "FREE"
    <3> HIDE DEF g
    <3> QED  BY <1>1, GatheredTame
  <2>3. ASSUME NEW moved \in SUBSET sources
        PROVE  LET h == Gathered(o, sources, moved, t)
               IN  /\ h \in [Tables -> Record]
                   /\ \A u \in Tables : Sound(h[u], u)
                   /\ \A u \in Tables \ moved : h[u].status = "FREE" => rt[u].status = "FREE"
                   /\ (moved # {} /\ \E u \in moved : LinesOf(u) # {}) => h[t].status # "FREE"
    <3> HIDE DEF g
    <3> QED  BY <1>1, GatheredRoom
  <2> QED  BY <1>1, <2>1, <2>2, <2>3
<1>3. rt' = [u \in Tables |-> IF seated /\ u \in sources \cup {t} THEN seats(u) ELSE records[u]]
  BY DEF Merge
<1>4. ASSUME NEW u \in Tables
      PROVE  records[u] = IF u = t THEN host
                          ELSE IF u \in sources THEN joined(u) ELSE g[u]
  <2> HIDE DEF g
  <2>1. CASE u = t
    BY <1>1, <2>1 DEF United
  <2>2. CASE u \in sources
    <3>1. u # t
      BY <1>1, <2>2
    <3> QED  BY <2>2, <3>1 DEF United
  <2>3. CASE u # t /\ u \notin sources
    BY <2>3 DEF United
  <2> QED  BY <2>1, <2>2, <2>3
<1> HIDE DEF g
<1>5. host.status # "FREE" /\ [host EXCEPT !.guests = TRUE].status # "FREE"
  BY <1>2 DEF Record
<1>6. ASSUME NEW u \in Tables
      PROVE  /\ joined(u).linked = {} /\ joined(u).into = t
             /\ [joined(u) EXCEPT !.guests = TRUE].linked = {}
             /\ [joined(u) EXCEPT !.guests = TRUE].into = t
  BY DEF FreeTable
<1>7. t # NoTable
  BY TableRuntimeAssumption
<1> SUFFICES ASSUME NEW u \in Tables PROVE Tame(rt[u], rt'[u])
  OBVIOUS
<1> HIDE DEF records, host, joined
<1>8. CASE u = t
  <2>1. rt'[u] = host \/ rt'[u] = [host EXCEPT !.guests = TRUE]
    BY <1>3, <1>4, <1>8
  <2> QED  BY <1>5, <2>1, TameIs
<1>9. CASE u \in sources
  <2>1. u # t
    BY <1>1, <1>9
  <2>2. rt'[u] = joined(u) \/ rt'[u] = [joined(u) EXCEPT !.guests = TRUE]
    BY <1>3, <1>4, <1>9, <2>1
  <2>3. rt'[u].linked = {} /\ rt'[u].into = t
    BY <1>6, <2>2
  <2> QED  BY <1>7, <2>3 DEF Tame, KeepsHost, LeavesNoGuests
<1>10. CASE u \notin sources \cup {t}
  <2>1. rt'[u] = rt[u]
    BY <1>2, <1>3, <1>4, <1>10
  <2> QED  BY <2>1, TameIs
<1> QED  BY <1>8, <1>9, <1>10

\* A merge that stops: only the tables moved may be left with their guests.
LEMMA MergeStopsTame ==
  ASSUME Room, HostsOpen, NEW o \in Operators, NEW sources \in SUBSET Tables,
         NEW moved \in SUBSET sources, NEW t \in Tables,
         MergeStops(o, sources, moved, t)
  PROVE  /\ HostsOpen'
         /\ \A u \in Tables : GuestsLeft(u)' /\ ~GuestsLeft(u) => u \in moved
<1>1. t \notin sources /\ rt' = Gathered(o, sources, moved, t)
  BY DEF MergeStops
<1>2. /\ \A u \in Tables : KeepsHost(rt[u], rt'[u])
      /\ \A u \in Tables \ moved : Tame(rt[u], rt'[u])
  BY <1>1, GatheredTame
<1>3. HostsOpen'
  BY <1>2 DEF HostsOpen, KeepsHost
<1>4. \A u \in Tables \ moved : GuestsLeft(u)' => GuestsLeft(u)
  BY <1>2 DEF GuestsLeft, Tame, LeavesNoGuests
<1> QED  BY <1>3, <1>4

\* A merge refused takes locks.
LEMMA MergeRefusedTame ==
  ASSUME Room, NEW o \in Operators, NEW before \in SUBSET Tables, NEW t \in Tables,
         MergeRefused(o, before, t)
  PROVE  \A u \in Tables : Tame(rt[u], rt'[u])
<1>1. rt' = [u \in Tables |-> IF u \in before THEN LockTaken(o, u, rt[u]) ELSE rt[u]]
  BY DEF MergeRefused
<1>2. ASSUME NEW u \in Tables
      PROVE  LockTaken(o, u, rt[u]) = rt[u] \/ LockTaken(o, u, rt[u]).status # "FREE"
  BY LockTakenTame DEF Room
<1> QED  BY <1>1, <1>2, TameIs

\* What GuestsLeftOnlyByHalfMerge says of one step.
NoGuestsLeft ==
  \A t \in Tables :
    GuestsLeft(t)' /\ ~GuestsLeft(t) /\ UnionConsistent =>
      \E o \in Operators, u \in Tables :
        \E sources \in SUBSET Tables : \E moved \in SUBSET sources :
          t \in moved /\ MergeStops(o, sources, moved, u)

LEMMA StepLeavesNoGuests ==
  ASSUME Room, HostsOpen, [Next]_vars
  PROVE  HostsOpen' /\ NoGuestsLeft
<1>0. ASSUME \A u \in Tables : Tame(rt[u], rt'[u])
      PROVE  HostsOpen' /\ NoGuestsLeft
  BY <1>0, TameSteps DEF NoGuestsLeft
<1>1. ASSUME NEW o \in Operators, Transfers(o)
      PROVE  HostsOpen' /\ NoGuestsLeft
  <2>1. PICK u, t \in Tables :
          \/ TransferAll(o, u, t)
          \/ \E moved \in SUBSET LinesOf(u) : TransferLines(o, u, t, moved)
          \/ TransferRefused(o, u, t)
    BY <1>1 DEF Transfers
  <2>2. {} \in SUBSET LinesOf(u)
    OBVIOUS
  <2> QED  BY <1>0, <2>1, <2>2, TransfersTame
<1>2. ASSUME NEW o \in Operators, Merges(o)
      PROVE  HostsOpen' /\ NoGuestsLeft
  <2>1. PICK t \in Tables, sources \in SUBSET Tables :
          \/ \E seated \in BOOLEAN : Merge(o, sources, t, seated)
          \/ \E moved \in SUBSET sources : MergeStops(o, sources, moved, t)
          \/ MergeRefused(o, sources, t)
    BY <1>2 DEF Merges
  <2>2. ASSUME NEW moved \in SUBSET sources, MergeStops(o, sources, moved, t)
        PROVE  HostsOpen' /\ NoGuestsLeft
    <3>1. /\ HostsOpen'
          /\ \A u \in Tables : GuestsLeft(u)' /\ ~GuestsLeft(u) => u \in moved
      BY <2>2, MergeStopsTame
    <3> QED  BY <2>2, <3>1 DEF NoGuestsLeft
  <2> QED  BY <1>0, <2>1, <2>2, MergeTame, MergeRefusedTame
<1>3. ASSUME NEW o \in Operators, NEW t \in Tables,
             \/ \E seated \in BOOLEAN : RequestLock(o, t, seated)
             \/ ReleaseLock(o, t)
      PROVE  HostsOpen' /\ NoGuestsLeft
  BY <1>0, <1>3, LocksTame
<1>4. ASSUME NEW o \in Operators, NEW t \in Tables, Submit(o, t)
      PROVE  HostsOpen' /\ NoGuestsLeft
  BY <1>0, <1>4, SubmitRoom, TameIs
<1>5. ASSUME NEW t \in Tables, NEW u \in Tables, UpdateGuests(t, u)
      PROVE  HostsOpen' /\ NoGuestsLeft
  BY <1>5, UpdateGuestsTame DEF NoGuestsLeft
<1>6. ASSUME NEW t \in Tables,
             \/ OpenTable(t) \/ RequestPayment(t) \/ RejectRequest(t)
             \/ \E l \in Lines : AddLine(t, l) \/ WithdrawLine(t, l)
      PROVE  HostsOpen' /\ NoGuestsLeft
  BY <1>0, <1>6, OpenTableTame, LinesTame, RequestsTame
<1>7. ASSUME (\E t \in Tables : Pay(t)) \/ EndClosure \/ Restart \/ StartClosure
             \/ (\E doomed \in SUBSET Tables : DeleteTables(doomed))
      PROVE  HostsOpen' /\ NoGuestsLeft
  BY <1>0, <1>7, FreedTame
<1>8. CASE UNCHANGED vars
  BY <1>0, <1>8, TameIs DEF vars
<1> QED  BY <1>1, <1>2, <1>3, <1>4, <1>5, <1>6, <1>7, <1>8 DEF Next

\* Guests are left on a FREE table in no union, for its next account to pay,
\* only by a merge that stops half way: no lock that times out, payment of a
\* union, transfer or restart leaves any (preserveMemberGuests of
\* transferTableAccount).
THEOREM GuestsLeftByHalfMerges == Spec => GuestsLeftOnlyByHalfMerge
<1>1. Init => HostsOpen
  BY FreeRecord DEF Init, HostsOpen
<1>2. IInv => Room
  BY DEF IInv
<1>3. Room /\ HostsOpen /\ [Next]_vars => HostsOpen' /\ NoGuestsLeft
  BY StepLeavesNoGuests
<1>4. NoGuestsLeft =>
        [\A t \in Tables :
           GuestsLeft(t)' /\ ~GuestsLeft(t) /\ UnionConsistent =>
             \E o \in Operators, u \in Tables :
               \E sources \in SUBSET Tables : \E moved \in SUBSET sources :
                 t \in moved /\ MergeStops(o, sources, moved, u)]_vars
  BY DEF NoGuestsLeft
<1> QED  BY Invariance, <1>1, <1>2, <1>3, <1>4, PTL DEF Spec, GuestsLeftOnlyByHalfMerge
=============================================================================
