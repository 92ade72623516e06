---------------------------- MODULE IngestProofs ----------------------------
(***************************************************************************)
(* What Ingest promises for every number of connections, requests, entries, *)
(* players, maps and versions.                                             *)
(*                                                                         *)
(* The argument: a transaction keeps the version row and the map row until *)
(* it ends, and the counter row from its first id on (LocksHeld).  So the  *)
(* rows of its map are those it read when it came to the map, and its view *)
(* of them, were it committed now, is a sound table in which every row is  *)
(* as good as the one it replaces, with ids nobody published (TablesSound).*)
(* That the best time is on record needs, on top, that a view has the best *)
(* of the committed times and of those t is through with (BestSoFar); that *)
(* each delivery is counted once, that t has noted exactly the entries it  *)
(* is through with (NotesSound).                                           *)
(***************************************************************************)
EXTENDS Ingest, TLAPS, FiniteSetTheorems, SumTheorems

-----------------------------------------------------------------------------
(* Locks.                                                                  *)

\* A step of t leaves every other transaction with what it has.
Others(t) ==
  \A u \in Txs \ {t} :
    tx'[u] = tx[u] /\ work'[u] = work[u] /\ \A l \in Locks : lock'[l] = u <=> lock[l] = u

\* The version, map and counter rows are rows that can be locked.
LEMMA LockNames ==
  /\ \A v \in Versions : <<"version", v>> \in Locks
  /\ \A m \in Maps : <<"map", m>> \in Locks
  /\ CounterLock \in Locks
  BY DEF Locks, CounterLock

\* A lock statement gives t the row it needs and takes none from anybody.
LEMMA Acquired ==
  ASSUME RowsTyped, NEW t \in Txs, Acquire(t)
  PROVE  /\ lock' \in [Locks -> Txs \cup {None}]
         /\ \A l \in Locks : \A u \in Txs \ {t} : lock'[l] = u <=> lock[l] = u
         /\ \A l \in Locks : lock[l] = t => lock'[l] = t
         /\ Needs(t) \in Locks => lock'[Needs(t)] = t
<1> DEFINE n == Needs(t)
<1>1. CASE n \notin Locks BY <1>1 DEF Acquire, RowsTyped
<1>2. CASE n \in Locks
  <2>1. lock' = [lock EXCEPT ![n] = t] BY <1>2 DEF Acquire
  <2>2. \A u \in Txs \ {t} : lock[n] # u BY <1>2 DEF Acquire, Blocked, WaitsFor
  <2> HIDE DEF n
  <2>3. \A l \in Locks : lock'[l] = (IF l = n THEN t ELSE lock[l]) BY <2>1 DEF RowsTyped
  <2>4. lock' \in [Locks -> Txs \cup {None}] BY <2>1 DEF RowsTyped
  <2>5. \A l \in Locks : \A u \in Txs \ {t} : lock'[l] = u <=> lock[l] = u BY <1>2, <2>2, <2>3
  <2>6. (\A l \in Locks : lock[l] = t => lock'[l] = t) /\ lock'[n] = t BY <1>2, <2>3
  <2> QED BY <2>4, <2>5, <2>6 DEF n
<1> QED BY <1>1, <1>2

\* COMMIT and ROLLBACK drop all of t's locks and no other.
LEMMA Released ==
  ASSUME RowsTyped, NEW t \in Txs, Release(t)
  PROVE  /\ lock' \in [Locks -> Txs \cup {None}]
         /\ \A l \in Locks : \A u \in Txs \ {t} : lock'[l] = u <=> lock[l] = u
         /\ \A l \in Locks : lock'[l] # t
<1>1. \A l \in Locks : lock'[l] = IF lock[l] = t THEN None ELSE lock[l] BY DEF Release
<1>2. None \notin Txs BY IngestAssumption DEF IngestAssumption
<1> QED BY <1>1, <1>2 DEF RowsTyped, Release

\* A transaction that wrote nothing is well typed.
LEMMA NothingWritten == NoWork \in Writes
  BY DEF NoWork, Writes

\* Between its first entry and its last, t has an entry, whose run key is on
\* t's map.
LEMMA EntryTyped ==
  ASSUME RowsTyped, LocksHeld, NEW t \in Txs, Asking(t)
  PROVE  /\ tx[t].req \in Reqs /\ Entry(t) \in [player : Players, time : Nat, count : Nat]
         /\ Run(t) \in RunKeys /\ Run(t)[2] = Req(t).map /\ Key(t) \in CanonKeys
<1>1. tx[t].req \in Reqs /\ tx[t].at \in 1..Len(Req(t).entries)
  <2>1. tx[t].at \in Nat \ {0} BY DEF RowsTyped, TxStates
  <2>2. tx[t].req \in Reqs /\ tx[t].at <= Len(Req(t).entries) BY DEF LocksHeld, Holds, Asking, InTx
  <2>3. Len(Req(t).entries) \in Nat BY <2>2, IngestAssumption DEF IngestAssumption, Req
  <2> QED BY <2>1, <2>2, <2>3
<1>2. Req(t).entries \in Seq([player : Players, time : Nat, count : Nat])
      /\ Req(t).map \in Maps /\ Req(t).version \in Versions
  BY <1>1, IngestAssumption DEF IngestAssumption, Req
<1>3. Entry(t) \in [player : Players, time : Nat, count : Nat]
  <2> DEFINE E == [player : Players, time : Nat, count : Nat]  es == Req(t).entries  i == tx[t].at
  <2>1. es \in Seq(E) /\ i \in 1..Len(es) BY <1>1, <1>2
  <2> HIDE DEF E, es, i
  <2>2. es[i] \in E BY <2>1
  <2> QED BY <2>2 DEF Entry, E, es, i
<1> QED BY <1>1, <1>2, <1>3 DEF Run, RunKeys, Key, CanonKeys

\* A step of t only has to look at what t holds.
LEMMA OneAtATime ==
  ASSUME LocksHeld, NEW t \in Txs, Others(t), Holds(t)'
  PROVE  LocksHeld'
<1>1. ASSUME NEW u \in Txs \ {t} PROVE Holds(u)'
  <2>1. tx'[u] = tx[u] /\ work'[u] = work[u] /\ \A l \in Locks : lock'[l] = u <=> lock[l] = u
    BY DEF Others
  <2>2. Holds(u) BY DEF LocksHeld
  <2>3. InTx(u) => <<"version", Req(u).version>> \in Locks /\ <<"map", Req(u).map>> \in Locks
    BY <2>2, LockNames, IngestAssumption DEF Holds, Req, IngestAssumption
  <2> QED BY <2>1, <2>2, <2>3, LockNames DEF Holds, InTx, OnMap, Asking, Req
<1> QED BY <1>1 DEF LocksHeld

\* Where an entry leads to.
LEMMA AfterEntry ==
  ASSUME RowsTyped, LocksHeld, NEW t \in Txs, Asking(t), NEW wrote \in BOOLEAN, NextEntry(t, wrote)
  PROVE  /\ tx' \in [Txs -> TxStates]
         /\ \A u \in Txs \ {t} : tx'[u] = tx[u]
         /\ tx'[t].req = tx[t].req
         /\ \/ tx'[t].pc = "player" /\ tx'[t].at = tx[t].at + 1 /\ tx'[t].at <= Len(Req(t).entries)
            \/ tx'[t].pc = (IF wrote THEN "rank" ELSE "commit") /\ tx'[t].at = tx[t].at
               /\ tx[t].at = Len(Req(t).entries)
<1>1. tx[t].at \in Nat \ {0} /\ tx[t] \in TxStates
  BY DEF RowsTyped, TxStates
<1>2. tx[t].at <= Len(Req(t).entries) /\ tx[t].req \in Reqs
  BY DEF LocksHeld, Holds, Asking, InTx
<1>3. Len(Req(t).entries) \in Nat BY <1>2, IngestAssumption DEF IngestAssumption, Req
<1>4. CASE tx[t].at < Len(Req(t).entries)
  <2>1. tx' = [tx EXCEPT ![t].pc = "player", ![t].at = @ + 1] BY <1>4 DEF NextEntry
  <2>2. tx'[t] = [tx[t] EXCEPT !.pc = "player", !.at = @ + 1] /\ \A u \in Txs \ {t} : tx'[u] = tx[u]
    BY <2>1 DEF RowsTyped
  <2>3. tx'[t] \in TxStates
    <3>1. "player" \in Steps /\ tx[t].at + 1 \in Nat \ {0} BY <1>1 DEF Steps
    <3> QED BY <1>1, <2>2, <3>1 DEF TxStates
  <2> QED BY <1>1, <1>3, <1>4, <2>1, <2>2, <2>3 DEF RowsTyped
<1>5. CASE ~(tx[t].at < Len(Req(t).entries))
  <2>1. tx' = [tx EXCEPT ![t].pc = IF wrote THEN "rank" ELSE "commit"] BY <1>5 DEF NextEntry, Goto
  <2>2. tx'[t] = [tx[t] EXCEPT !.pc = IF wrote THEN "rank" ELSE "commit"] /\ \A u \in Txs \ {t} : tx'[u] = tx[u]
    BY <2>1 DEF RowsTyped
  <2>3. (IF wrote THEN "rank" ELSE "commit") \in Steps BY DEF Steps
  <2>4. tx'[t] \in TxStates
    BY <1>1, <2>2, <2>3 DEF TxStates
  <2> QED BY <1>1, <1>2, <1>3, <1>5, <2>4, <2>1, <2>2, <2>3 DEF RowsTyped
<1> QED BY <1>4, <1>5

\* Going to a step changes t's program counter only.
LEMMA Moved ==
  ASSUME RowsTyped, NEW t \in Txs, NEW l \in Steps, Goto(t, l)
  PROVE  /\ tx' \in [Txs -> TxStates]
         /\ \A u \in Txs \ {t} : tx'[u] = tx[u]
         /\ tx'[t].pc = l /\ tx'[t].req = tx[t].req /\ tx'[t].at = tx[t].at
<1>1. tx' = [tx EXCEPT ![t] = [tx[t] EXCEPT !.pc = l]] BY DEF Goto
<1>2. tx[t] \in TxStates
  BY DEF RowsTyped
<1> QED BY <1>1, <1>2 DEF RowsTyped, TxStates

-----------------------------------------------------------------------------
(* Ranks.                                                                  *)

Faster(r, rows) == {q \in rows : q.time < r.time}
Place(r, rows) == Cardinality(Faster(r, rows)) + 1
OfVersion(rows, v) == {q \in rows : q.run[3] = v}
Rank(r, rows) == [r EXCEPT !.grank = Place(r, rows), !.vrank = Place(r, OfVersion(rows, r.run[3]))]
\* id, run and time do not depend on the ranking
Same(r, q) == r.id = q.id /\ r.run = q.run /\ r.time = q.time

\* The ranking, row by row: each row with its place among all rows and among
\* those of its version.
LEMMA RankedIs == \A rows : Ranked(rows) = {Rank(r, rows) : r \in rows}
  BY DEF Ranked, Rank, Place, Faster, OfVersion

\* A place is a positive number.
LEMMA PlaceTyped ==
  ASSUME NEW S, IsFiniteSet(S), NEW r
  PROVE  Place(r, S) \in Nat \ {0} /\ IsFiniteSet(Faster(r, S)) /\ IsFiniteSet(OfVersion(S, r.run[3]))
<1>1. IsFiniteSet(Faster(r, S)) /\ IsFiniteSet(OfVersion(S, r.run[3]))
  BY FS_Subset DEF Faster, OfVersion
<1>2. Cardinality(Faster(r, S)) \in Nat BY <1>1, FS_CardinalityType
<1> QED BY <1>1, <1>2 DEF Place

\* Ranking a row leaves its id, run key and time.
LEMMA RankTyped ==
  ASSUME NEW S \in SUBSET Rows, IsFiniteSet(S), NEW r \in S
  PROVE  /\ Rank(r, S) \in Rows /\ Same(Rank(r, S), r)
         /\ Rank(r, S).grank = Place(r, S)
         /\ Rank(r, S).vrank = Place(r, OfVersion(S, r.run[3]))
<1>1. Place(r, S) \in Nat BY PlaceTyped
<1>2. Place(r, OfVersion(S, r.run[3])) \in Nat BY PlaceTyped
<1> QED BY <1>1, <1>2 DEF Rows, Rank, Same

\* Ranking a table maps its rows to rows of the same id, run key and time.
LEMMA RankedTyped ==
  ASSUME NEW S \in SUBSET Rows, IsFiniteSet(S)
  PROVE  /\ Ranked(S) \subseteq Rows /\ IsFiniteSet(Ranked(S))
         /\ \A r \in S : \E q \in Ranked(S) : Same(q, r)
         /\ \A q \in Ranked(S) : \E r \in S : q = Rank(r, S) /\ Same(q, r)
<1>1. Ranked(S) = {Rank(r, S) : r \in S} BY RankedIs
<1>2. IsFiniteSet({Rank(r, S) : r \in S})
  <2> DEFINE T == {Rank(r, S) : r \in S}  f == [r \in S |-> Rank(r, S)]
  <2>1. f \in Surjection(S, T) BY DEF Surjection
  <2> HIDE DEF T, f
  <2>2. IsFiniteSet(T) BY <2>1, FS_Surjection
  <2> QED BY <2>2 DEF T
<1> QED BY <1>1, <1>2, RankTyped

(* A row is beaten by at least as many in T as in S, if T has for each row *)
(* of S one of the same run that is as fast.                               *)
LEMMA PlaceGrows ==
  ASSUME NEW S \in SUBSET Rows, NEW T \in SUBSET Rows, IsFiniteSet(T),
         \A r, q \in S : r.run = q.run => r = q,
         \A r \in S : \E q \in T : q.run = r.run /\ q.time <= r.time,
         NEW x \in Rows, NEW y \in Rows, x.time = y.time
  PROVE  Place(x, S) <= Place(y, T)
<1> DEFINE A == Faster(x, S)  B == Faster(y, T)
           f == [r \in A |-> CHOOSE q \in B : q.run = r.run]
<1>1. \A r \in A : \E q \in B : q.run = r.run
  <2> SUFFICES ASSUME NEW r \in A PROVE \E q \in B : q.run = r.run OBVIOUS
  <2>1. PICK q \in T : q.run = r.run /\ q.time <= r.time BY DEF Faster
  <2>2. r \in S /\ r.time < x.time BY DEF Faster
  <2>3. q.time \in Nat /\ r.time \in Nat /\ x.time \in Nat BY <2>2 DEF Rows
  <2>4. q.time < y.time BY <2>1, <2>2, <2>3
  <2> QED BY <2>1, <2>4 DEF Faster
<1>2. \A r \in A : f[r] \in B /\ f[r].run = r.run BY <1>1
<1>3. \A r, q \in A : f[r] = f[q] => r = q
  <2>1. A \subseteq S BY DEF Faster
  <2> HIDE DEF f
  <2> QED BY <1>2, <2>1
<1>4. f \in Injection(A, B) BY <1>2, <1>3 DEF Injection, IsInjective
<1>5. IsFiniteSet(B) BY FS_Subset DEF Faster
<1>6. IsFiniteSet(A) /\ Cardinality(A) <= Cardinality(B)
  <2> HIDE DEF f, A, B
  <2> QED BY <1>4, <1>5, FS_Injection
<1>7. Cardinality(A) \in Nat /\ Cardinality(B) \in Nat BY <1>5, <1>6, FS_CardinalityType
<1> QED BY <1>6, <1>7 DEF Place

\* A row's place does not depend on the ranks the table stores.
LEMMA SamePlace ==
  ASSUME NEW S \in SUBSET Rows, NEW T \in SUBSET Rows, IsFiniteSet(S), IsFiniteSet(T),
         \A r, q \in S : r.run = q.run => r = q, \A r, q \in T : r.run = q.run => r = q,
         \A r \in S : \E q \in T : Same(q, r), \A q \in T : \E r \in S : Same(q, r),
         NEW x \in S, NEW y \in T, Same(y, x)
  PROVE  Place(x, S) = Place(y, T)
<1>1. \A r \in S \cup T : r.time \in Nat /\ r \in Rows BY DEF Rows
<1>2. \A r \in S : \E q \in T : q.run = r.run /\ q.time <= r.time BY <1>1 DEF Same
<1>3. \A r \in T : \E q \in S : q.run = r.run /\ q.time <= r.time BY <1>1 DEF Same
<1>4. Place(x, S) <= Place(y, T) BY <1>1, <1>2, PlaceGrows DEF Same
<1>5. Place(y, T) <= Place(x, S) BY <1>1, <1>3, PlaceGrows DEF Same
<1>6. Place(x, S) \in Nat /\ Place(y, T) \in Nat BY PlaceTyped
<1> QED BY <1>4, <1>5, <1>6

\* Ranking twice is ranking once, and keeps ids and run keys apart.
LEMMA RankedOnce ==
  ASSUME NEW S \in SUBSET Rows, IsFiniteSet(S),
         \A r, q \in S : r.id = q.id \/ r.run = q.run => r = q
  PROVE  /\ \A r, q \in Ranked(S) : r.id = q.id \/ r.run = q.run => r = q
         /\ Ranked(Ranked(S)) = Ranked(S)
<1> DEFINE T == Ranked(S)
<1>1. /\ T \subseteq Rows /\ IsFiniteSet(T)
      /\ \A r \in S : \E q \in T : Same(q, r)
      /\ \A q \in T : \E r \in S : q = Rank(r, S) /\ Same(q, r)
  BY RankedTyped
<1>2. \A r, q \in T : r.id = q.id \/ r.run = q.run => r = q
  BY <1>1 DEF Same
<1>3. ASSUME NEW q \in T PROVE Rank(q, T) = q
  <2>1. PICK r \in S : q = Rank(r, S) /\ Same(q, r) BY <1>1
  <2>2. Place(r, S) = Place(q, T)
    <3> HIDE DEF T
    <3> QED BY <1>1, <1>2, <2>1, SamePlace
  <2>3. Place(r, OfVersion(S, r.run[3])) = Place(q, OfVersion(T, r.run[3]))
    <3> DEFINE A == OfVersion(S, r.run[3])  B == OfVersion(T, r.run[3])
    <3>1. /\ A \in SUBSET S /\ B \in SUBSET T /\ IsFiniteSet(A) /\ IsFiniteSet(B)
      BY <1>1, FS_Subset DEF OfVersion
    <3>2. r \in A /\ q \in B BY <2>1 DEF OfVersion, Same
    <3>3. (\A a \in A : \E b \in B : Same(b, a)) /\ (\A b \in B : \E a \in A : Same(b, a))
      <4> HIDE DEF T
      <4> QED BY <1>1 DEF OfVersion, Same
    <3>4. A \in SUBSET Rows /\ B \in SUBSET Rows BY <1>1, <3>1
    <3>5. (\A a, b \in A : a.run = b.run => a = b) /\ (\A a, b \in B : a.run = b.run => a = b)
      BY <1>2, <3>1
    <3>6. Place(r, A) = Place(q, B)
      <4> HIDE DEF A, B
      <4> QED BY <2>1, <3>1, <3>2, <3>3, <3>4, <3>5, SamePlace
    <3> QED BY <3>6
  <2>4. q.grank = Place(r, S) /\ q.vrank = Place(r, OfVersion(S, r.run[3])) /\ q \in Rows
    BY <2>1, RankTyped
  <2>5. q.run[3] = r.run[3] BY <2>1 DEF Same
  <2> QED BY <2>2, <2>3, <2>4, <2>5 DEF Rank, Rows
<1>4. Ranked(T) = T BY <1>3, RankedIs
<1> QED BY <1>2, <1>4

(* An exact ranking gives every row its place.                             *)
LEMMA ExactPlace ==
  ASSUME NEW S \in SUBSET Rows, IsFiniteSet(S), \A r, q \in S : r.id = q.id => r = q,
         S = Ranked(S), NEW q \in S
  PROVE  q.grank = Place(q, S)
<1>1. PICK r \in S : q = Rank(r, S) /\ Same(q, r) BY RankedTyped
<1>2. q = r BY <1>1 DEF Same
<1> QED BY <1>1, <1>2, RankTyped

-----------------------------------------------------------------------------
(* Steps.                                                                  *)

Inv == RowsTyped /\ LocksHeld /\ TablesSound

\* What a transaction wrote and sees is well typed.
LEMMA WorkTyped ==
  ASSUME RowsTyped, NEW t \in Txs
  PROVE  /\ work[t] \in Writes /\ work[t].race \in SUBSET Rows /\ work[t].gone \in SUBSET Nat
         /\ work[t].nextId \in Nat /\ SeenNextId(t) \in Nat \ {0}
         /\ View(t) \in SUBSET Rows
<1>1. work[t] \in Writes /\ nextId \in Nat \ {0} /\ race \in SUBSET Rows BY DEF RowsTyped
<1>2. work[t].race \in SUBSET Rows /\ work[t].gone \in SUBSET Nat /\ work[t].nextId \in Nat
  BY <1>1 DEF Writes
<1> QED BY <1>1, <1>2 DEF SeenNextId, View

(* Before the ranking, the fresh rows hide nothing: what t sees is what it *)
(* would leave.                                                            *)
LEMMA SeenIsView ==
  ASSUME Inv, NEW t \in Txs, OnMap(t), tx[t].pc # "commit"
  PROVE  View(t) = SeenRace(t)
<1>1. (\A r \in work[t].race : r.id >= nextId) /\ (\A r \in race : r.id < nextId)
  BY DEF Inv, TablesSound, ViewSound, Table
<1>2. \A r \in work[t].race \cup race : r.id \in Nat BY WorkTyped DEF Inv, RowsTyped, Rows
<1>3. nextId \in Nat BY DEF Inv, RowsTyped
<1>4. \A r \in race : r.id \notin IdsOf(work[t].race) BY <1>1, <1>2, <1>3 DEF IdsOf
<1> QED BY <1>4 DEF View, SeenRace

\* The view of a transaction on its map is a table.
LEMMA ViewTable ==
  ASSUME Inv, NEW t \in Txs, OnMap(t)
  PROVE  ViewSound(t) /\ Table(View(t), SeenNextId(t)) /\ View(t) \in SUBSET Rows
  BY WorkTyped DEF Inv, TablesSound, ViewSound

\* The row _nextRaceId's id goes into is well typed.
LEMMA InsertTyped ==
  ASSUME Inv, NEW t \in Txs, tx[t].pc = "counter"
  PROVE  InsertRow(t, SeenNextId(t)) \in Writes
<1> DEFINE id == SeenNextId(t)
           row == [id |-> id, run |-> Run(t), time |-> Entry(t).time, grank |-> Unranked, vrank |-> Unranked]
           old == {r.id : r \in Existing(t)}
<1>1. id \in Nat /\ work[t] \in Writes BY WorkTyped DEF Inv
<1>2. Run(t) \in RunKeys /\ Entry(t).time \in Nat BY EntryTyped DEF Inv, Asking
<1>3. row \in Rows BY <1>1, <1>2 DEF Rows, Unranked
<1>4. old \subseteq Nat
  <2>1. View(t) = SeenRace(t) /\ View(t) \in SUBSET Rows BY SeenIsView, ViewTable DEF OnMap
  <2> QED BY <2>1 DEF Existing, Rows
<1>5. InsertRow(t, id) = [work[t] EXCEPT !.race = {r \in @ : r.id \notin old} \cup {row},
                                         !.gone = @ \cup old, !.nextId = id + 1]
  BY DEF InsertRow
<1> DEFINE R == {r \in work[t].race : r.id \notin old} \cup {row}  G == work[t].gone \cup old
<1>6. R \in SUBSET Rows /\ G \in SUBSET Nat /\ id + 1 \in Nat
  BY <1>1, <1>3, <1>4, WorkTyped DEF Inv
<1>7. InsertRow(t, id) = [work[t] EXCEPT !.race = R, !.gone = G, !.nextId = id + 1] BY <1>5
<1> HIDE DEF id, row, old, R, G
<1>8. InsertRow(t, id) \in Writes BY <1>1, <1>6, <1>7 DEF Writes
<1> QED BY <1>8 DEF id

\* So are the ranked rows of the map.
LEMMA RankMapTyped ==
  ASSUME Inv, NEW t \in Txs, tx[t].pc = "rank"
  PROVE  /\ Ranked({r \in SeenRace(t) : r.run[2] = Req(t).map}) \in SUBSET Rows
         /\ IsFiniteSet({r \in SeenRace(t) : r.run[2] = Req(t).map})
         /\ {r \in SeenRace(t) : r.run[2] = Req(t).map} \in SUBSET Rows
<1>1. View(t) = SeenRace(t) /\ View(t) \in SUBSET Rows /\ IsFiniteSet(View(t))
  BY SeenIsView, ViewTable DEF OnMap, Table
<1>2. IsFiniteSet({r \in SeenRace(t) : r.run[2] = Req(t).map}) BY <1>1, FS_Subset
<1> QED BY <1>1, <1>2, RankedTyped

\* The greatest id a commit publishes is the last one t drew.
LEMMA NewestAfter ==
  ASSUME Inv, NEW t \in Txs, tx[t].pc = "commit"
  PROVE  /\ Max({newest} \cup IdsOf(work[t].race)) =
              (IF work[t].nextId = 0 THEN newest ELSE work[t].nextId - 1)
<1>1. ViewSound(t) /\ work[t].nextId \in Nat /\ newest \in Nat /\ nextId \in Nat /\ newest < nextId
  BY ViewTable, WorkTyped DEF OnMap, Inv, RowsTyped, TablesSound
<1>2. CASE work[t].nextId = 0
  <2>1. {newest} \cup IdsOf(work[t].race) = {newest} BY <1>1, <1>2 DEF ViewSound, IdsOf
  <2> QED BY <1>1, <1>2, <2>1 DEF Max
<1>3. CASE work[t].nextId # 0
  <2> DEFINE S == {newest} \cup IdsOf(work[t].race)  n == work[t].nextId - 1
  <2>1. n \in S /\ newest <= n BY <1>1, <1>3 DEF ViewSound
  <2>2. \A r \in work[t].race : r.id \in Nat /\ r.id < work[t].nextId
    BY <1>1, <1>3, WorkTyped DEF ViewSound, Table, View, SeenNextId, Inv, Rows
  <2>3. \A i \in S : i \in Nat /\ i <= n BY <1>1, <2>1, <2>2 DEF IdsOf
  <2> HIDE DEF S
  <2>4. Max(S) = n
    <3>1. Max(S) \in S /\ Max(S) >= n BY <2>1, <2>3 DEF Max
    <3> QED BY <1>1, <2>3, <3>1
  <2> QED BY <1>3, <2>4 DEF S
<1> QED BY <1>2, <1>3

\* A transaction begins with nothing held and nothing written.
LEMMA BeginHeld ==
  ASSUME Inv, NEW t \in Txs, NEW r \in Reqs, Begin(t, r)
  PROVE  RowsTyped' /\ Others(t) /\ Holds(t)'
<1>1. [pc |-> "version", req |-> r, at |-> 1, tries |-> 1] \in TxStates
  BY IngestAssumption DEF TxStates, Steps, IngestAssumption
<1>2. /\ tx' = [tx EXCEPT ![t] = [pc |-> "version", req |-> r, at |-> 1, tries |-> 1]]
      /\ UNCHANGED <<race, nextId, newest, canon, lock, work, commits>> /\ tx[t].pc = "idle"
  BY DEF Begin, tables
<1>3. /\ tx' \in [Txs -> TxStates] /\ tx'[t] = [pc |-> "version", req |-> r, at |-> 1, tries |-> 1]
      /\ \A u \in Txs \ {t} : tx'[u] = tx[u]
  BY <1>1, <1>2 DEF Inv, RowsTyped
<1>4. RowsTyped' BY <1>2, <1>3 DEF Inv, RowsTyped
<1>5. Others(t) BY <1>2, <1>3 DEF Others
<1>6. Holds(t) BY DEF Inv, LocksHeld
<1>7. Holds(t)' BY <1>2, <1>3, <1>6 DEF Holds, InTx, OnMap, Asking, NoWork
<1> QED BY <1>4, <1>5, <1>7

\* Statements that lock, write nothing to a table and go on.
LEMMA UpsertHeld ==
  ASSUME Inv, NEW t \in Txs, UpsertVersion(t) \/ UpsertMap(t) \/ UpsertPlayer(t)
  PROVE  RowsTyped' /\ Others(t) /\ Holds(t)'
<1> DEFINE to == IF tx[t].pc = "version" THEN "map" ELSE IF tx[t].pc = "map" THEN "player" ELSE "canon"
<1>1. /\ Acquire(t) /\ Goto(t, to) /\ UNCHANGED <<race, nextId, newest, canon, work, commits>>
      /\ tx[t].pc \in {"version", "map", "player"}
  BY DEF UpsertVersion, UpsertMap, UpsertPlayer, tables
<1>2. to \in Steps /\ RowsTyped /\ Holds(t) BY <1>1 DEF Steps, Inv, LocksHeld
<1>3. /\ tx' \in [Txs -> TxStates] /\ \A u \in Txs \ {t} : tx'[u] = tx[u]
      /\ tx'[t].pc = to /\ tx'[t].req = tx[t].req /\ tx'[t].at = tx[t].at
  BY <1>1, <1>2, Moved
<1>4. /\ lock' \in [Locks -> Txs \cup {None}]
      /\ \A l \in Locks : \A u \in Txs \ {t} : lock'[l] = u <=> lock[l] = u
      /\ \A l \in Locks : lock[l] = t => lock'[l] = t
      /\ Needs(t) \in Locks => lock'[Needs(t)] = t
  BY <1>1, <1>2, Acquired
<1>5. RowsTyped' BY <1>1, <1>3, <1>4 DEF Inv, RowsTyped
<1>6. Others(t) BY <1>1, <1>3, <1>4 DEF Others
<1>7. /\ tx[t].req \in Reqs /\ <<"version", Req(t).version>> \in Locks /\ <<"map", Req(t).map>> \in Locks
      /\ Req(t)' = Req(t)
  BY <1>1, <1>2, <1>3, LockNames, IngestAssumption DEF Holds, InTx, Req, IngestAssumption
<1>8. tx[t].pc = "version" => Needs(t) = <<"version", Req(t).version>> BY DEF Needs
<1>9. tx[t].pc = "map" => Needs(t) = <<"map", Req(t).map>> BY DEF Needs
<1>10. Len(Req(t).entries) >= 1
  BY <1>7, IngestAssumption DEF IngestAssumption, Req
<1>11. Holds(t)'
  <2>1. CASE tx[t].pc = "version"
    BY <2>1, <1>1, <1>2, <1>3, <1>4, <1>7, <1>8 DEF Holds, InTx, OnMap, Asking, NoWork
  <2>2. CASE tx[t].pc = "map"
    <3>1. tx'[t].pc = "player" /\ tx'[t].at = 1 /\ work'[t] = NoWork
      BY <1>1, <1>2, <1>3, <2>2 DEF Holds, OnMap
    <3>2. lock'[<<"version", Req(t).version>>] = t /\ lock'[<<"map", Req(t).map>>] = t
      BY <1>2, <1>4, <1>7, <1>9, <2>2 DEF Holds, InTx
    <3> QED BY <3>1, <3>2, <1>3, <1>7, <1>10 DEF Holds, InTx, OnMap, Asking, NoWork
  <2>3. CASE tx[t].pc = "player"
    BY <2>3, <1>1, <1>2, <1>3, <1>4, <1>7, LockNames DEF Holds, InTx, OnMap, Asking
  <2> QED BY <1>1, <2>1, <2>2, <2>3
<1> QED BY <1>5, <1>6, <1>11

\* A statement of a transaction that holds its map.
LEMMA OnMapHeld ==
  ASSUME Inv, NEW t \in Txs, OnMap(t),
         work' \in [Txs -> Writes], \A u \in Txs \ {t} : work'[u] = work[u],
         work'[t].nextId # 0 => lock'[CounterLock] = t,
         tx' \in [Txs -> TxStates], \A u \in Txs \ {t} : tx'[u] = tx[u],
         tx'[t].req = tx[t].req, OnMap(t)', Asking(t)' => tx'[t].at <= Len(Req(t).entries),
         lock' \in [Locks -> Txs \cup {None}],
         \A l \in Locks : \A u \in Txs \ {t} : lock'[l] = u <=> lock[l] = u,
         \A l \in Locks : lock[l] = t => lock'[l] = t,
         UNCHANGED <<race, nextId, newest, canon, commits>>
  PROVE  RowsTyped' /\ Others(t) /\ Holds(t)'
<1>1. RowsTyped' BY DEF Inv, RowsTyped
<1>2. Others(t) BY DEF Others
<1>3. Holds(t) BY DEF Inv, LocksHeld
<1>4. /\ tx[t].req \in Reqs /\ <<"version", Req(t).version>> \in Locks /\ <<"map", Req(t).map>> \in Locks
      /\ Req(t)' = Req(t)
  BY <1>3, LockNames, IngestAssumption DEF Holds, InTx, OnMap, Req, IngestAssumption
<1>5. Holds(t)' BY <1>3, <1>4 DEF Holds, InTx, OnMap
<1> QED BY <1>1, <1>2, <1>5

\* _resolvePlayer writes no race row and draws no id.
LEMMA CanonicalHeld ==
  ASSUME Inv, NEW t \in Txs, ReadCanonical(t) \/ ClaimCanonical(t)
  PROVE  /\ RowsTyped' /\ Others(t) /\ Holds(t)'
         /\ work'[t].race = work[t].race /\ work'[t].gone = work[t].gone /\ work'[t].nextId = work[t].nextId
         /\ tx'[t].pc \in {"claim", "entry"} /\ tx'[t].req = tx[t].req /\ tx'[t].at = tx[t].at
         /\ tx[t].pc \in {"canon", "claim"} /\ UNCHANGED tables /\ UNCHANGED <<commits, newest>>
<1> DEFINE p == Entry(t).player  rep == SeenCanon(t, Key(t))  k == Key(t)
<1>1. /\ \E to \in {"claim", "entry"} : Goto(t, to)
      /\ tx[t].pc \in {"canon", "claim"} /\ UNCHANGED tables /\ UNCHANGED <<commits, newest>>
      /\ lock' = lock \/ Acquire(t)
      /\ \/ UNCHANGED work
         \/ rep # None /\ work' = [work EXCEPT ![t].group[p] = rep]
         \/ work' = [work EXCEPT ![t].canon[k] = p, ![t].group[p] = p]
  BY DEF ReadCanonical, ClaimCanonical
<1>2. Asking(t) /\ OnMap(t) /\ RowsTyped /\ LocksHeld /\ Holds(t) BY <1>1 DEF Asking, OnMap, Inv, LocksHeld
<1>3. p \in Players /\ k \in CanonKeys BY <1>2, EntryTyped
<1>4. work[t] \in Writes /\ work \in [Txs -> Writes] BY WorkTyped DEF Inv, RowsTyped
<1>5. rep \in Players \cup {None} BY <1>2, <1>3, <1>4 DEF SeenCanon, RowsTyped, Writes
<1> HIDE DEF p, k, rep
<1>6. work' \in [Txs -> Writes] /\ (\A u \in Txs \ {t} : work'[u] = work[u])
      /\ work'[t].race = work[t].race /\ work'[t].gone = work[t].gone /\ work'[t].nextId = work[t].nextId
  <2>1. CASE UNCHANGED work BY <1>4, <2>1
  <2>2. CASE work' = [work EXCEPT ![t].group[p] = rep]
    <3> DEFINE w == [work[t] EXCEPT !.group[p] = rep]
    <3>1. w.race = work[t].race /\ w.gone = work[t].gone /\ w.nextId = work[t].nextId BY <1>4 DEF Writes
    <3>2. w \in Writes BY <1>3, <1>4, <1>5 DEF Writes
    <3>3. work' = [work EXCEPT ![t] = w] BY <2>2
    <3> HIDE DEF w
    <3> QED BY <1>4, <3>1, <3>2, <3>3
  <2>3. CASE work' = [work EXCEPT ![t].canon[k] = p, ![t].group[p] = p]
    <3> DEFINE w == [work[t] EXCEPT !.canon[k] = p, !.group[p] = p]
    <3>1. w.race = work[t].race /\ w.gone = work[t].gone /\ w.nextId = work[t].nextId BY <1>4 DEF Writes
    <3>2. w \in Writes BY <1>3, <1>4 DEF Writes
    <3>3. work' = [work EXCEPT ![t] = w] BY <1>4, <2>3
    <3> HIDE DEF w
    <3> QED BY <1>4, <3>1, <3>2, <3>3
  <2> QED BY <1>1, <2>1, <2>2, <2>3
<1>7. PICK to \in {"claim", "entry"} : Goto(t, to) BY <1>1
<1>8. /\ tx' \in [Txs -> TxStates] /\ \A u \in Txs \ {t} : tx'[u] = tx[u]
      /\ tx'[t].pc = to /\ tx'[t].req = tx[t].req /\ tx'[t].at = tx[t].at
  BY <1>2, <1>7, Moved DEF Steps
<1>9. /\ lock' \in [Locks -> Txs \cup {None}]
      /\ \A l \in Locks : \A u \in Txs \ {t} : lock'[l] = u <=> lock[l] = u
      /\ \A l \in Locks : lock[l] = t => lock'[l] = t
  BY <1>1, <1>2, Acquired DEF RowsTyped
<1>10. work'[t].nextId # 0 => lock'[CounterLock] = t BY <1>2, <1>6, <1>9, LockNames DEF Holds
<1>11. OnMap(t)' /\ (Asking(t)' => tx'[t].at <= Len(Req(t).entries))
  BY <1>2, <1>8 DEF OnMap, Asking, Holds
<1>12. RowsTyped' /\ Others(t) /\ Holds(t)'
  BY <1>1, <1>2, <1>6, <1>8, <1>9, <1>10, <1>11, OnMapHeld DEF tables
<1> QED BY <1>1, <1>6, <1>8, <1>12

\* Counting an entry writes no race row and draws no id.
LEMMA CountHeld ==
  ASSUME Inv, NEW t \in Txs, CountEntry(t)
  PROVE  /\ RowsTyped' /\ Others(t) /\ Holds(t)'
         /\ work'[t].race = work[t].race /\ work'[t].gone = work[t].gone /\ work'[t].nextId = work[t].nextId
         /\ tx[t].pc = "entry" /\ UNCHANGED tables /\ UNCHANGED <<commits, newest>>
<1> DEFINE e == Entry(t)  k == Run(t)
<1>1. tx[t].pc = "entry" /\ UNCHANGED tables /\ UNCHANGED <<lock, commits, newest>> BY DEF CountEntry
<1>2. Asking(t) /\ OnMap(t) /\ RowsTyped /\ LocksHeld /\ Holds(t) BY <1>1 DEF Asking, OnMap, Inv, LocksHeld
<1>3. e \in [player : Players, time : Nat, count : Nat] /\ k \in RunKeys BY <1>2, EntryTyped
<1>4. work[t] \in Writes /\ work \in [Txs -> Writes] BY WorkTyped DEF Inv, RowsTyped
<1>5. work' \in [Txs -> Writes] /\ (\A u \in Txs \ {t} : work'[u] = work[u])
      /\ work'[t].race = work[t].race /\ work'[t].gone = work[t].gone /\ work'[t].nextId = work[t].nextId
  <2>1. CASE UNCHANGED work BY <1>4, <2>1
  <2>2. CASE ~(UNCHANGED work)
    <3> DEFINE a == work[t].attempts[k] + e.count
               f == IF e.time = NoTime THEN work[t].finish[k] ELSE Append(work[t].finish[k], e.time)
               w == [work[t] EXCEPT !.attempts[k] = a, !.finish[k] = f]
    <3>1. work' = [work EXCEPT ![t] = w] BY <2>2, <1>4 DEF CountEntry, Writes
    <3>2. a \in Nat /\ f \in Seq(Nat) BY <1>3, <1>4 DEF Writes
    <3> HIDE DEF a, f
    <3>3. w.race = work[t].race /\ w.gone = work[t].gone /\ w.nextId = work[t].nextId BY <1>4 DEF Writes
    <3>4. w \in Writes BY <1>3, <1>4, <3>2 DEF Writes
    <3> HIDE DEF w
    <3> QED BY <1>4, <3>1, <3>3, <3>4
  <2> QED BY <2>1, <2>2
<1>6. /\ tx' \in [Txs -> TxStates] /\ \A u \in Txs \ {t} : tx'[u] = tx[u]
      /\ tx'[t].req = tx[t].req /\ OnMap(t)' /\ (Asking(t)' => tx'[t].at <= Len(Req(t).entries))
  <2>1. CASE Goto(t, "counter")
    BY <2>1, <1>2, Moved DEF Steps, OnMap, Asking, Holds
  <2>2. CASE NextEntry(t, work[t].race # {})
    BY <2>2, <1>2, AfterEntry DEF OnMap, Asking
  <2> QED BY <2>1, <2>2 DEF CountEntry
<1>7. work'[t].nextId # 0 => lock'[CounterLock] = t BY <1>1, <1>2, <1>5 DEF Holds
<1>8. RowsTyped' /\ Others(t) /\ Holds(t)'
  BY <1>1, <1>2, <1>5, <1>6, <1>7, OnMapHeld DEF tables, RowsTyped
<1> QED BY <1>1, <1>5, <1>8

\* The id is drawn under the counter's lock, which t keeps.
LEMMA InsertHeld ==
  ASSUME Inv, NEW t \in Txs, NextRaceId(t)
  PROVE  RowsTyped' /\ Others(t) /\ Holds(t)' /\ UNCHANGED tables /\ UNCHANGED <<commits, newest>>
         /\ tx[t].pc = "counter" /\ work'[t] = InsertRow(t, SeenNextId(t)) /\ lock'[CounterLock] = t
<1>1. tx[t].pc = "counter" /\ UNCHANGED tables /\ UNCHANGED <<commits, newest>> /\ Acquire(t) BY DEF NextRaceId
<1>2. Asking(t) /\ OnMap(t) /\ RowsTyped /\ LocksHeld /\ Holds(t) BY <1>1 DEF Asking, OnMap, Inv, LocksHeld
<1>3. InsertRow(t, SeenNextId(t)) \in Writes BY <1>1, InsertTyped
<1>4. work' \in [Txs -> Writes] /\ (\A u \in Txs \ {t} : work'[u] = work[u])
      /\ work'[t] = InsertRow(t, SeenNextId(t))
  BY <1>2, <1>3 DEF NextRaceId, RowsTyped
<1>5. /\ tx' \in [Txs -> TxStates] /\ \A u \in Txs \ {t} : tx'[u] = tx[u]
      /\ tx'[t].req = tx[t].req /\ OnMap(t)' /\ (Asking(t)' => tx'[t].at <= Len(Req(t).entries))
  BY <1>2, AfterEntry DEF OnMap, Asking, NextRaceId
<1>6. /\ lock' \in [Locks -> Txs \cup {None}]
      /\ \A l \in Locks : \A u \in Txs \ {t} : lock'[l] = u <=> lock[l] = u
      /\ \A l \in Locks : lock[l] = t => lock'[l] = t
      /\ lock'[CounterLock] = t
  <2>1. Needs(t) = CounterLock BY <1>1 DEF Needs
  <2> QED BY <1>1, <1>2, <2>1, Acquired, LockNames
<1>7. RowsTyped' /\ Others(t) /\ Holds(t)'
  BY <1>1, <1>2, <1>4, <1>5, <1>6, OnMapHeld DEF tables
<1> QED BY <1>1, <1>4, <1>6, <1>7

\* Ranking rewrites t's own rows and draws no id.
LEMMA RankHeld ==
  ASSUME Inv, NEW t \in Txs, RankMap(t)
  PROVE  /\ RowsTyped' /\ Others(t) /\ Holds(t)' /\ UNCHANGED tables /\ UNCHANGED <<commits, newest>>
         /\ work'[t].race = Ranked({r \in SeenRace(t) : r.run[2] = Req(t).map})
         /\ work'[t].gone = work[t].gone /\ work'[t].nextId = work[t].nextId
         /\ tx[t].pc = "rank" /\ tx'[t].pc = "commit" /\ tx'[t].req = tx[t].req /\ tx'[t].at = tx[t].at
<1> DEFINE R == Ranked({r \in SeenRace(t) : r.run[2] = Req(t).map})
<1>1. tx[t].pc = "rank" /\ UNCHANGED tables /\ UNCHANGED <<lock, commits, newest>> BY DEF RankMap
<1>2. OnMap(t) /\ RowsTyped /\ LocksHeld /\ Holds(t) BY <1>1 DEF OnMap, Inv, LocksHeld
<1>3. R \in SUBSET Rows BY <1>1, RankMapTyped
<1>4. work[t] \in Writes /\ work \in [Txs -> Writes] BY WorkTyped DEF Inv, RowsTyped
<1>5. work' = [work EXCEPT ![t].race = R] BY DEF RankMap
<1> HIDE DEF R
<1>6. work' \in [Txs -> Writes] /\ (\A u \in Txs \ {t} : work'[u] = work[u])
      /\ work'[t].race = R /\ work'[t].gone = work[t].gone /\ work'[t].nextId = work[t].nextId
  <2> DEFINE w == [work[t] EXCEPT !.race = R]
  <2>1. w \in Writes /\ w.race = R /\ w.gone = work[t].gone /\ w.nextId = work[t].nextId
    BY <1>3, <1>4 DEF Writes
  <2>2. work' = [work EXCEPT ![t] = w] BY <1>5
  <2> HIDE DEF w
  <2> QED BY <1>4, <2>1, <2>2
<1>7. /\ tx' \in [Txs -> TxStates] /\ \A u \in Txs \ {t} : tx'[u] = tx[u]
      /\ tx'[t].pc = "commit" /\ tx'[t].req = tx[t].req /\ tx'[t].at = tx[t].at
  BY <1>2, Moved DEF Steps, RankMap
<1>8. RowsTyped' /\ Others(t) /\ Holds(t)'
  <2>1. OnMap(t)' /\ ~Asking(t)' BY <1>7 DEF OnMap, Asking
  <2>2. work'[t].nextId # 0 => lock'[CounterLock] = t BY <1>1, <1>2, <1>6 DEF Holds
  <2> QED BY <1>1, <1>2, <1>6, <1>7, <2>1, <2>2, OnMapHeld DEF tables, RowsTyped
<1> QED BY <1>1, <1>6, <1>7, <1>8 DEF R

\* A commit publishes t's view and its counter, and lets all its locks go.
LEMMA CommitHeld ==
  ASSUME Inv, NEW t \in Txs, Commit(t)
  PROVE  /\ RowsTyped' /\ Others(t) /\ Holds(t)'
         /\ tx[t].pc = "commit" /\ race' = View(t) /\ nextId' = SeenNextId(t)
         /\ newest' = (IF work[t].nextId = 0 THEN newest ELSE work[t].nextId - 1)
         /\ work'[t] = NoWork /\ tx'[t].pc = "reply"
         /\ \A l \in Locks : lock'[l] # t
<1>1. /\ tx[t].pc = "commit" /\ Goto(t, "reply") /\ Release(t) /\ work' = [work EXCEPT ![t] = NoWork]
      /\ race' = View(t) /\ nextId' = SeenNextId(t) /\ commits' = [commits EXCEPT ![tx[t].req] = @ + 1]
  <2>1. \A A, B : A \cup B = B \cup A OBVIOUS
  <2> QED BY <2>1 DEF Commit, View, IdsOf, SeenNextId
<1>2. newest' = Max({newest} \cup IdsOf(work[t].race)) BY DEF Commit, IdsOf
<1>3. newest' = (IF work[t].nextId = 0 THEN newest ELSE work[t].nextId - 1) BY <1>1, <1>2, NewestAfter
<1>4. RowsTyped /\ LocksHeld /\ Holds(t) /\ OnMap(t) BY <1>1 DEF Inv, LocksHeld, OnMap
<1>5. /\ tx' \in [Txs -> TxStates] /\ \A u \in Txs \ {t} : tx'[u] = tx[u]
      /\ tx'[t].pc = "reply" /\ tx'[t].req = tx[t].req /\ tx'[t].at = tx[t].at
  BY <1>1, <1>4, Moved DEF Steps
<1>6. /\ lock' \in [Locks -> Txs \cup {None}]
      /\ \A l \in Locks : \A u \in Txs \ {t} : lock'[l] = u <=> lock[l] = u
      /\ \A l \in Locks : lock'[l] # t
  BY <1>1, <1>4, Released
<1>7. work' \in [Txs -> Writes] /\ work'[t] = NoWork /\ \A u \in Txs \ {t} : work'[u] = work[u]
  BY <1>1, <1>4, NothingWritten DEF RowsTyped
<1>8. race' \in SUBSET Rows /\ nextId' \in Nat \ {0} /\ newest' \in Nat
  BY <1>1, <1>3, <1>4, WorkTyped DEF RowsTyped
<1>9. commits' \in [Reqs -> Nat]
  <2>1. tx[t].req \in Reqs /\ commits \in [Reqs -> Nat] BY <1>1, <1>4 DEF Holds, InTx, RowsTyped
  <2> QED BY <1>1, <2>1
<1>10. canon' \in [CanonKeys -> Players \cup {None}]
  <2>1. work[t].canon \in [CanonKeys -> Players \cup {None}] BY <1>4, WorkTyped DEF Writes
  <2>2. canon' = [k \in CanonKeys |-> IF work[t].canon[k] # None THEN work[t].canon[k] ELSE canon[k]]
    BY DEF Commit
  <2> QED BY <1>4, <2>1, <2>2 DEF RowsTyped
<1>11. RowsTyped' BY <1>5, <1>6, <1>7, <1>8, <1>9, <1>10 DEF RowsTyped
<1>12. Others(t) BY <1>5, <1>6, <1>7 DEF Others
<1>13. Holds(t)' BY <1>5, <1>6, <1>7 DEF Holds, InTx, OnMap, Asking, NoWork
<1> QED BY <1>1, <1>3, <1>5, <1>6, <1>7, <1>11, <1>12, <1>13

\* The answer, and every way a transaction ends without a commit.
Ends(t) == Reply(t) \/ ReplyLost(t) \/ Abort(t) \/ Deadlock(t)
\* The answer and every failure leave the tables alone and t with nothing.
LEMMA EndHeld ==
  ASSUME Inv, NEW t \in Txs, Ends(t)
  PROVE  /\ RowsTyped' /\ Others(t) /\ Holds(t)' /\ UNCHANGED tables /\ UNCHANGED <<commits, newest>>
         /\ ~OnMap(t)' /\ work'[t] = NoWork
<1>1. UNCHANGED tables /\ UNCHANGED <<commits, newest>> BY DEF Ends, Reply, ReplyLost, Abort, Deadlock
<1>2. RowsTyped /\ LocksHeld /\ Holds(t) BY DEF Inv, LocksHeld
<1>3. Idle \in TxStates BY IngestAssumption DEF Idle, TxStates, Steps, IngestAssumption
<1>4. tx[t] \in TxStates BY <1>2 DEF RowsTyped
<1>5. /\ tx' \in [Txs -> TxStates] /\ \A u \in Txs \ {t} : tx'[u] = tx[u]
      /\ \/ tx'[t].pc = "idle"
         \/ tx'[t].pc = "version" /\ tx'[t].at = 1 /\ tx'[t].req = tx[t].req /\ InTx(t)
  <2>1. CASE tx' = [tx EXCEPT ![t] = Idle] BY <1>2, <1>3, <2>1 DEF RowsTyped, Idle
  <2>2. CASE Again(t) /\ InTx(t) /\ tx' = [tx EXCEPT ![t].pc = "version", ![t].at = 1, ![t].tries = @ + 1]
    <3> DEFINE s == [tx[t] EXCEPT !.pc = "version", !.at = 1, !.tries = @ + 1]
    <3>1. tx[t].tries \in 0..MaxAttempts /\ tx[t].tries < MaxAttempts BY <1>4, <2>2 DEF TxStates, Again
    <3>2. MaxAttempts \in Nat BY IngestAssumption DEF IngestAssumption
    <3>3. tx[t].tries + 1 \in 0..MaxAttempts BY <3>1, <3>2
    <3>4. s \in TxStates /\ s.pc = "version" /\ s.at = 1 /\ s.req = tx[t].req
      <4>1. "version" \in Steps /\ 1 \in Nat \ {0} BY DEF Steps
      <4> QED BY <1>4, <3>3, <4>1 DEF TxStates
    <3>5. tx' = [tx EXCEPT ![t] = s] BY <2>2, <1>2 DEF RowsTyped
    <3> HIDE DEF s
    <3> QED BY <1>2, <2>2, <3>4, <3>5, ZenonT(60) DEF RowsTyped
  <2> QED BY <2>1, <2>2 DEF Ends, Reply, ReplyLost, Abort, Deadlock, GiveUp
<1>6. /\ lock' \in [Locks -> Txs \cup {None}]
      /\ \A l \in Locks : \A u \in Txs \ {t} : lock'[l] = u <=> lock[l] = u
      /\ \A l \in Locks : lock'[l] # t
  <2>1. CASE Release(t) BY <1>2, <2>1, Released
  <2>2. CASE UNCHANGED lock /\ tx[t].pc = "reply" BY <1>2, <2>2 DEF RowsTyped, Holds
  <2> QED BY <2>1, <2>2 DEF Ends, Reply, ReplyLost, Abort, Deadlock, Rollback
<1>7. work' \in [Txs -> Writes] /\ work'[t] = NoWork /\ \A u \in Txs \ {t} : work'[u] = work[u]
  <2>1. CASE work' = [work EXCEPT ![t] = NoWork] BY <1>2, <2>1, NothingWritten DEF RowsTyped
  <2>2. CASE UNCHANGED work /\ tx[t].pc = "reply" BY <1>2, <2>2 DEF RowsTyped, Holds, OnMap
  <2> QED BY <2>1, <2>2 DEF Ends, Reply, ReplyLost, Abort, Deadlock, Rollback
<1>8. RowsTyped' BY <1>1, <1>2, <1>5, <1>6, <1>7 DEF RowsTyped, tables
<1>9. Others(t) BY <1>5, <1>6, <1>7 DEF Others
<1>10. Holds(t)' /\ ~OnMap(t)' BY <1>2, <1>5, <1>6, <1>7 DEF Holds, InTx, OnMap, Asking, NoWork
<1> QED BY <1>1, <1>7, <1>8, <1>9, <1>10

-----------------------------------------------------------------------------
(* The steps of a transaction, apart from those that only begin.           *)
LEMMA StepHeld ==
  ASSUME Inv, [Next]_vars
  PROVE  RowsTyped' /\ LocksHeld'
<1>1. CASE UNCHANGED vars
  <2>1. RowsTyped' BY <1>1 DEF vars, tables, Inv, RowsTyped
  <2>2. LocksHeld' BY <1>1 DEF vars, tables, Inv, LocksHeld, Holds, InTx, OnMap, Asking, Req
  <2> QED BY <2>1, <2>2
<1>2. ASSUME NEW t \in Txs, NEW r \in Reqs, Begin(t, r) PROVE RowsTyped' /\ LocksHeld'
  BY <1>2, BeginHeld, OneAtATime DEF Inv
<1>3. ASSUME NEW t \in Txs, Statement(t) PROVE RowsTyped' /\ LocksHeld'
  <2>1. CASE UpsertVersion(t) \/ UpsertMap(t) \/ UpsertPlayer(t) BY <2>1, UpsertHeld, OneAtATime DEF Inv
  <2>2. CASE ReadCanonical(t) \/ ClaimCanonical(t) BY <2>2, CanonicalHeld, OneAtATime DEF Inv
  <2>3. CASE CountEntry(t) BY <2>3, CountHeld, OneAtATime DEF Inv
  <2>4. CASE NextRaceId(t) BY <2>4, InsertHeld, OneAtATime DEF Inv
  <2>5. CASE RankMap(t) BY <2>5, RankHeld, OneAtATime DEF Inv
  <2>6. CASE Commit(t) BY <2>6, CommitHeld, OneAtATime DEF Inv
  <2> QED BY <1>3, <2>1, <2>2, <2>3, <2>4, <2>5, <2>6 DEF Statement
<1>4. ASSUME NEW t \in Txs, Ends(t) PROVE RowsTyped' /\ LocksHeld'
  BY <1>4, EndHeld, OneAtATime DEF Inv
<1> QED BY <1>1, <1>2, <1>3, <1>4 DEF Next, Ends

-----------------------------------------------------------------------------
(* Views.                                                                  *)

\* Statements that leave the view alone.
LEMMA ViewKept ==
  ASSUME Inv, NEW t \in Txs, OnMap(t),
         UNCHANGED <<race, nextId, newest>>, tx'[t].req = tx[t].req, OnMap(t)',
         work'[t].race = work[t].race, work'[t].gone = work[t].gone, work'[t].nextId = work[t].nextId
  PROVE  View(t)' = View(t) /\ SeenNextId(t)' = SeenNextId(t) /\ Req(t)' = Req(t)
  BY DEF View, SeenNextId, Req

\* Another transaction's step that is not a commit changes nothing for u.
LEMMA OthersView ==
  ASSUME Inv, NEW t \in Txs, Others(t), UNCHANGED <<race, nextId>>
  PROVE  \A u \in Txs \ {t} : OnMap(u)' => ViewSound(u)'
<1> SUFFICES ASSUME NEW u \in Txs \ {t}, OnMap(u)' PROVE ViewSound(u)'
  OBVIOUS
<1>1. tx'[u] = tx[u] /\ work'[u] = work[u] BY DEF Others
<1>2. OnMap(u) BY <1>1 DEF OnMap
<1>3. ViewSound(u) BY <1>2, ViewTable
<1>4. /\ View(u)' = View(u) /\ SeenNextId(u)' = SeenNextId(u) /\ Req(u)' = Req(u)
      /\ Entry(u)' = Entry(u) /\ Run(u)' = Run(u)
  BY <1>1 DEF View, SeenNextId, Req, Entry, Run
<1> QED BY <1>1, <1>3, <1>4 DEF ViewSound

\* Two transactions past their map lock are on different maps.
LEMMA MapsApart ==
  ASSUME Inv, NEW t \in Txs, NEW u \in Txs \ {t}, OnMap(t), OnMap(u)
  PROVE  Req(t).map # Req(u).map
  BY DEF Inv, LocksHeld, Holds

\* One transaction at a time has drawn an id it did not yet commit.
LEMMA OneCounter ==
  ASSUME Inv, NEW t \in Txs, NEW u \in Txs \ {t}, work[t].nextId # 0
  PROVE  work[u].nextId = 0
  BY DEF Inv, LocksHeld, Holds

(* While t holds its map nobody changes that map: a commit of another      *)
(* transaction changes rows of its own map only.                           *)
LEMMA OthersCommit ==
  ASSUME Inv, NEW t \in Txs, Commit(t), NEW u \in Txs \ {t}, OnMap(u)
  PROVE  /\ work[u].nextId # 0 => race' = race /\ nextId' = nextId
         /\ \A q \in Rows : q.run[2] = Req(u).map => (q \in race' <=> q \in race)
<1>1. race' = View(t) /\ nextId' = SeenNextId(t) /\ tx[t].pc = "commit" BY CommitHeld
<1>2. ViewSound(t) /\ OnMap(t) BY <1>1, ViewTable DEF OnMap
<1>3. Req(u).map # Req(t).map BY <1>2, MapsApart
<1>4. work[u].nextId # 0 => race' = race /\ nextId' = nextId
  <2>1. work[t].nextId = 0 => View(t) = race BY <1>2 DEF ViewSound, View, IdsOf
  <2> QED BY <1>1, <2>1, OneCounter DEF SeenNextId
<1>5. ASSUME NEW q \in Rows, q.run[2] = Req(u).map PROVE q \in race' <=> q \in race
  BY <1>1, <1>2, <1>3, <1>5 DEF ViewSound
<1> QED BY <1>4, <1>5

\* After a commit the table is sound, and so is the view of everybody else.
LEMMA ViewsAfterCommit ==
  ASSUME Inv, NEW t \in Txs, Commit(t)
  PROVE  TablesSound'
<1>1. /\ race' = View(t) /\ nextId' = SeenNextId(t) /\ tx[t].pc = "commit" /\ Others(t) /\ tx'[t].pc = "reply"
      /\ newest' = (IF work[t].nextId = 0 THEN newest ELSE work[t].nextId - 1)
  BY CommitHeld
<1>2. ViewSound(t) /\ OnMap(t) BY <1>1, ViewTable DEF OnMap
<1>3. Table(race', nextId') /\ \A m \in Maps : LET rows == {r \in race' : r.run[2] = m} IN rows = Ranked(rows)
  BY <1>1, <1>2 DEF ViewSound
<1>4. newest' < nextId'
  BY <1>1, WorkTyped DEF SeenNextId, Inv, TablesSound
<1>5. ASSUME NEW u \in Txs, OnMap(u)' PROVE ViewSound(u)'
  <2>1. u # t BY <1>1, <1>5 DEF OnMap
  <2>2. tx'[u] = tx[u] /\ work'[u] = work[u] /\ OnMap(u) BY <1>1, <1>5, <2>1 DEF Others, OnMap
  <2>3. /\ work[u].nextId # 0 => race' = race /\ nextId' = nextId
        /\ \A q \in Rows : q.run[2] = Req(u).map => (q \in race' <=> q \in race)
    BY <2>1, <2>2, OthersCommit
  <2>4. CASE work[u].nextId # 0
    BY <1>1, <1>5, <2>1, <2>3, <2>4, OthersView
  <2>5. CASE work[u].nextId = 0
    <3>1. ViewSound(u) BY <2>2, ViewTable
    <3>2. work[u].race = {} /\ work[u].gone = {} BY <2>5, <3>1 DEF ViewSound
    <3>3. View(u) = race /\ View(u)' = race' /\ SeenNextId(u)' = nextId'
      BY <2>2, <2>5, <3>2 DEF View, IdsOf, SeenNextId
    <3>4. Req(u)' = Req(u) /\ Entry(u)' = Entry(u) /\ Run(u)' = Run(u) BY <2>2 DEF Req, Entry, Run
    <3>5. race' \in SUBSET Rows BY CommitHeld DEF RowsTyped
    <3>6. \A r, q \in race' : r.id = q.id => r = q /\ r.grank >= q.grank
      BY <1>3, <3>5 DEF Table, Rows
    <3>7. ASSUME tx'[u].pc = "counter"
          PROVE  Entry(u)'.time # NoTime /\ \A r \in race' : r.run = Run(u)' => r.time > Entry(u)'.time
      <4>1. Run(u)[2] = Req(u).map BY <2>2, <3>7, EntryTyped DEF Inv, Asking
      <4> QED BY <2>2, <2>3, <3>1, <3>3, <3>4, <3>5, <3>7, <4>1 DEF ViewSound
    <3>8. tx'[u].pc # "rank" BY <2>2, <2>5, <3>1 DEF ViewSound
    <3> QED BY <1>3, <2>2, <2>5, <3>2, <3>3, <3>4, <3>6, <3>7, <3>8 DEF ViewSound, IdsOf
  <2> QED BY <2>4, <2>5
<1> QED BY <1>3, <1>4, <1>5 DEF TablesSound, RanksExact

\* A step of t that commits nothing only has to keep t's own view sound.
LEMMA ViewsElsewhere ==
  ASSUME Inv, NEW t \in Txs, Others(t), UNCHANGED <<race, nextId, newest>>, OnMap(t)' => ViewSound(t)'
  PROVE  TablesSound'
<1>1. \A u \in Txs \ {t} : OnMap(u)' => ViewSound(u)' BY OthersView
<1>2. Table(race', nextId') /\ newest' < nextId' /\ RanksExact' BY DEF Inv, TablesSound, RanksExact
<1> QED BY <1>1, <1>2 DEF TablesSound

\* A map just locked is seen as it was committed.
LEMMA ViewOpened ==
  ASSUME Inv, NEW t \in Txs, work'[t] = NoWork, UNCHANGED <<race, nextId>>, tx'[t].pc = "player"
  PROVE  ViewSound(t)'
<1>1. View(t)' = race /\ SeenNextId(t)' = nextId /\ work'[t].race = {} /\ work'[t].gone = {} /\ work'[t].nextId = 0
  BY DEF View, SeenNextId, IdsOf, NoWork
<1>2. Table(race, nextId) /\ race \in SUBSET Rows /\ RanksExact BY DEF Inv, TablesSound, RowsTyped
<1>3. \A r, q \in race : r.id = q.id => r = q /\ r.grank >= q.grank BY <1>2 DEF Table, Rows
<1> QED BY <1>1, <1>2, <1>3 DEF ViewSound, RanksExact, IdsOf

\* A statement that leaves the view alone and is neither at the counter nor
\* at the commit afterwards.
LEMMA ViewSoundKept ==
  ASSUME Inv, NEW t \in Txs, OnMap(t), tx[t].pc # "commit",
         UNCHANGED <<race, nextId, newest>>, tx'[t].req = tx[t].req, OnMap(t)', tx'[t].pc \notin {"counter", "commit"},
         tx'[t].pc = "rank" => work[t].nextId # 0,
         work'[t].race = work[t].race, work'[t].gone = work[t].gone, work'[t].nextId = work[t].nextId
  PROVE  ViewSound(t)'
<1>1. View(t)' = View(t) /\ SeenNextId(t)' = SeenNextId(t) /\ Req(t)' = Req(t) BY ViewKept
<1>2. ViewSound(t) BY ViewTable
<1> QED BY <1>1, <1>2 DEF ViewSound

\* An entry is counted: the view is as before, and who goes on to the counter
\* has a better time than the row in it.
LEMMA ViewsAfterCount ==
  ASSUME Inv, NEW t \in Txs, CountEntry(t)
  PROVE  ViewSound(t)'
<1>1. /\ work'[t].race = work[t].race /\ work'[t].gone = work[t].gone /\ work'[t].nextId = work[t].nextId
      /\ tx[t].pc = "entry" /\ UNCHANGED tables /\ UNCHANGED <<commits, newest>>
  BY CountHeld
<1>2. Asking(t) /\ OnMap(t) /\ RowsTyped /\ LocksHeld /\ tx[t].pc # "commit" BY <1>1 DEF Asking, OnMap, Inv
<1>3. ViewSound(t) /\ View(t) = SeenRace(t) BY <1>2, ViewTable, SeenIsView
<1>4. CASE Improves(t) /\ Goto(t, "counter")
  <2>1. /\ tx'[t].pc = "counter" /\ tx'[t].req = tx[t].req /\ tx'[t].at = tx[t].at
    BY <1>2, <1>4, Moved DEF Steps
  <2>2. View(t)' = View(t) /\ SeenNextId(t)' = SeenNextId(t) /\ Req(t)' = Req(t)
    BY <1>1, <1>2, <2>1, ViewKept DEF OnMap, tables
  <2>3. Entry(t)' = Entry(t) /\ Run(t)' = Run(t) BY <2>1 DEF Entry, Run, Req
  <2>4. Entry(t).time # NoTime /\ \A r \in View(t) : r.run = Run(t) => r.time > Entry(t).time
    BY <1>3, <1>4 DEF Improves, Existing
  <2> QED BY <1>1, <1>2, <1>3, <2>1, <2>2, <2>3, <2>4 DEF ViewSound, tables
<1>5. CASE NextEntry(t, work[t].race # {})
  <2>1. /\ tx'[t].req = tx[t].req
        /\ tx'[t].pc = "player" \/ tx'[t].pc = (IF work[t].race # {} THEN "rank" ELSE "commit")
    BY <1>2, <1>5, AfterEntry
  <2>2. CASE tx'[t].pc # "commit"
    <3>1. work[t].race # {} => work[t].nextId # 0 BY <1>3 DEF ViewSound
    <3> QED BY <1>1, <1>2, <2>1, <2>2, <3>1, ViewSoundKept DEF OnMap, tables
  <2>3. CASE tx'[t].pc = "commit"
    <3>1. work[t].race = {} BY <2>1, <2>3
    <3>2. work[t].nextId = 0 /\ work[t].gone = {} BY <1>3, <3>1 DEF ViewSound, IdsOf
    <3>3. View(t)' = race /\ SeenNextId(t)' = nextId
      BY <1>1, <3>1, <3>2 DEF View, SeenNextId, IdsOf, tables
    <3>4. Table(race, nextId) /\ race \in SUBSET Rows /\ RanksExact BY DEF Inv, TablesSound, RowsTyped
    <3>5. \A r, q \in race : r.id = q.id => r = q /\ r.grank >= q.grank BY <3>4 DEF Table, Rows
    <3> QED BY <1>1, <2>3, <3>1, <3>2, <3>3, <3>4, <3>5 DEF ViewSound, RanksExact, IdsOf, tables
  <2> QED BY <2>2, <2>3
<1> QED BY <1>4, <1>5 DEF CountEntry

(* The new row takes the place of the player's old one, whatever          *)
(* transaction wrote that.                                                 *)
NewRow(t) == [id |-> SeenNextId(t), run |-> Run(t), time |-> Entry(t).time, grank |-> Unranked, vrank |-> Unranked]
\* The insert, as the view sees it: the player's row of that map and version
\* is replaced by one with a fresh id.
LEMMA Inserted ==
  ASSUME Inv, NEW t \in Txs, NextRaceId(t)
  PROVE  /\ View(t)' = {v \in View(t) : v.run # Run(t)} \cup {NewRow(t)}
         /\ NewRow(t) \in Rows /\ SeenNextId(t)' = SeenNextId(t) + 1
         /\ work'[t].nextId = SeenNextId(t) + 1 /\ NewRow(t) \in work'[t].race
         /\ \A r \in work'[t].race : r.id >= nextId
<1> DEFINE id == SeenNextId(t)  V == View(t)  row == NewRow(t)
           old == {r.id : r \in Existing(t)}
           R == {r \in work[t].race : r.id \notin old} \cup {row}
<1>1. /\ tx[t].pc = "counter" /\ UNCHANGED tables /\ work'[t] = InsertRow(t, id) BY InsertHeld
<1>2. Asking(t) /\ OnMap(t) /\ tx[t].pc # "commit" BY <1>1 DEF Asking, OnMap
<1>3. ViewSound(t) /\ V = SeenRace(t) /\ V \in SUBSET Rows /\ Table(V, id)
  BY <1>2, ViewTable, SeenIsView
<1>4. work[t] \in Writes /\ id \in Nat \ {0} /\ nextId \in Nat /\ race \in SUBSET Rows
  BY WorkTyped DEF Inv, RowsTyped
<1>5. Run(t) \in RunKeys /\ Entry(t).time \in Nat BY <1>2, EntryTyped DEF Inv
<1>6. row \in Rows /\ row.id = id /\ row.run = Run(t) BY <1>4, <1>5 DEF Rows, Unranked, NewRow
<1>7. /\ work'[t].race = R /\ work'[t].gone = work[t].gone \cup old /\ work'[t].nextId = id + 1
  BY <1>1, <1>4 DEF InsertRow, Writes, NewRow
<1>8. \A v \in V : v.id \in old <=> v.run = Run(t)
  BY <1>3 DEF Existing, Table
<1>9. nextId <= id
  BY <1>3, <1>4 DEF ViewSound, SeenNextId, Writes
<1>10. \A r \in R : r.id >= nextId
  BY <1>2, <1>3, <1>6, <1>9 DEF ViewSound
<1>11. \A r \in race : r.id < nextId /\ r.id \in Nat BY <1>4 DEF Inv, TablesSound, Table, Rows
<1>12. View(t)' = {r \in race : r.id \notin work[t].gone \cup old} \cup R
  <2>1. View(t)' = {r \in race : r.id \notin (work[t].gone \cup old) \cup IdsOf(R)} \cup R
    BY <1>1, <1>7 DEF View, tables
  <2>2. \A r \in race : r.id \notin IdsOf(R)
    <3>1. \A r \in R : r.id \in Nat BY <1>4, <1>6 DEF Writes, Rows
    <3> HIDE DEF R
    <3> QED BY <1>4, <1>10, <1>11, <3>1 DEF IdsOf
  <2> QED BY <2>1, <2>2
<1>13. View(t)' = {v \in V : v.id \notin old} \cup {row}
  BY <1>3, <1>12 DEF SeenRace
<1>14. SeenNextId(t)' = id + 1 BY <1>1, <1>4, <1>7 DEF SeenNextId, tables
<1> QED BY <1>6, <1>7, <1>8, <1>10, <1>13, <1>14

\* ... and the view stays sound.
LEMMA ViewsAfterInsert ==
  ASSUME Inv, NEW t \in Txs, NextRaceId(t)
  PROVE  ViewSound(t)'
<1> DEFINE id == SeenNextId(t)  V == View(t)  row == NewRow(t)
<1>1. /\ View(t)' = {v \in V : v.run # Run(t)} \cup {row} /\ SeenNextId(t)' = id + 1
      /\ work'[t].nextId = id + 1 /\ row \in work'[t].race /\ row \in Rows
      /\ \A r \in work'[t].race : r.id >= nextId
  BY Inserted
<1>2. tx[t].pc = "counter" /\ UNCHANGED tables BY InsertHeld
<1>3. Asking(t) /\ OnMap(t) /\ tx[t].pc # "commit" /\ RowsTyped /\ LocksHeld
  BY <1>2 DEF Asking, OnMap, Inv
<1>4. ViewSound(t) /\ V \in SUBSET Rows /\ Table(V, id) BY <1>3, ViewTable
<1>5. id \in Nat \ {0} /\ nextId \in Nat /\ race \in SUBSET Rows /\ nextId <= id
  BY <1>4, WorkTyped DEF Inv, RowsTyped, ViewSound, SeenNextId
<1>6. row.id = id /\ row.run = Run(t) /\ row.time = Entry(t).time BY DEF NewRow
<1>7. Run(t)[2] = Req(t).map BY <1>3, EntryTyped
<1>8. \A v \in V : v.run = Run(t) => v.time > Entry(t).time BY <1>2, <1>4 DEF ViewSound
<1>9. /\ tx'[t].pc \in {"player", "rank"} /\ tx'[t].req = tx[t].req
  BY <1>3, AfterEntry DEF NextRaceId
<1>10. Req(t)' = Req(t) /\ race' = race /\ nextId' = nextId BY <1>2, <1>9 DEF Req, tables
<1>11. \A v \in V : v.id \in Nat /\ v.time \in Nat /\ v.id < id BY <1>4 DEF Table, Rows
<1>12. Entry(t).time \in Nat BY <1>3, EntryTyped
<1> DEFINE W == {v \in V : v.run # Run(t)} \cup {row}
<1>13. Table(W, id + 1)
  <2>1. IsFiniteSet(W)
    <3>1. IsFiniteSet({v \in V : v.run # Run(t)}) BY <1>4, FS_Subset DEF Table
    <3> QED BY <3>1, FS_AddElement
  <2>2. \A r \in W : r.id < id + 1 BY <1>5, <1>6, <1>11
  <2>3. \A r, q \in W : r.id = q.id \/ r.run = q.run => r = q
    <3>1. \A v \in V : v.id # id BY <1>5, <1>11
    <3> QED BY <1>4, <1>6, <3>1 DEF Table
  <2> QED BY <2>1, <2>2, <2>3 DEF Table
<1>14. \A r \in W \ race : r.run[2] = Req(t).map BY <1>4, <1>6, <1>7 DEF ViewSound
<1>15. ASSUME NEW q \in race
       PROVE  \/ q \in W
              \/ /\ q.run[2] = Req(t).map
                 /\ \E r \in W : r.run = q.run /\ (r.time < q.time \/ (r.time = q.time /\ r.id = q.id))
  <2>1. CASE q \in V
    <3>1. CASE q.run = Run(t) BY <1>6, <1>7, <1>8, <1>11, <1>12, <2>1, <3>1
    <3>2. CASE q.run # Run(t) BY <2>1, <3>2
    <3> QED BY <3>1, <3>2
  <2>2. CASE q \notin V
    <3>1. PICK r \in V : r.run = q.run /\ (r.time < q.time \/ (r.time = q.time /\ r.id = q.id))
      BY <1>4, <2>2 DEF ViewSound
    <3>2. q.run[2] = Req(t).map BY <1>4, <2>2 DEF ViewSound
    <3>3. q.time \in Nat BY <1>5 DEF Rows
    <3>4. CASE r.run = Run(t)
      <4>1. row.time < q.time BY <1>6, <1>8, <1>11, <1>12, <3>1, <3>3, <3>4
      <4> QED BY <1>6, <3>1, <3>2, <3>4, <4>1
    <3>5. CASE r.run # Run(t) BY <3>1, <3>2, <3>5
    <3> QED BY <3>4, <3>5
  <2> QED BY <2>1, <2>2
<1>16. \A r \in W, q \in race : r.id = q.id => r.run = q.run /\ r.time = q.time
  <2>1. \A q \in race : q.id < nextId /\ q.id \in Nat BY <1>5 DEF Inv, TablesSound, Table, Rows
  <2>2. \A q \in race : q.id # id BY <1>5, <2>1
  <2> QED BY <1>4, <1>6, <2>2 DEF ViewSound
<1>17. (id + 1) - 1 \in IdsOf(work'[t].race) /\ id + 1 > nextId
  BY <1>1, <1>5, <1>6 DEF IdsOf
<1>18. \A r \in W : r.id >= nextId \/ r.id \in IdsOf(race) BY <1>4, <1>5, <1>6 DEF ViewSound
<1> QED BY <1>1, <1>5, <1>9, <1>10, <1>18, <1>13, <1>14, <1>15, <1>16, <1>17 DEF ViewSound

(* Ranking the map replaces its rows by themselves, ranked.                *)
Lot(t) == {v \in View(t) : v.run[2] = Req(t).map}
\* The ranking, as the view sees it: the map's rows are ranked, all others
\* stay.
LEMMA RankedView ==
  ASSUME Inv, NEW t \in Txs, RankMap(t)
  PROVE  /\ View(t)' = (View(t) \ Lot(t)) \cup Ranked(Lot(t))
         /\ SeenNextId(t)' = SeenNextId(t)
         /\ Lot(t) \in SUBSET Rows /\ IsFiniteSet(Lot(t)) /\ Ranked(Lot(t)) \in SUBSET Rows
         /\ IsFiniteSet(Ranked(Lot(t)))
         /\ work'[t].race = Ranked(Lot(t)) /\ work[t].race \subseteq Lot(t)
         /\ \A r \in Lot(t) : \E q \in Ranked(Lot(t)) : Same(q, r)
         /\ \A q \in Ranked(Lot(t)) : \E r \in Lot(t) : q = Rank(r, Lot(t)) /\ Same(q, r)
<1> DEFINE V == View(t)  M == Lot(t)  R == Ranked(M)
<1>1. /\ tx[t].pc = "rank" /\ UNCHANGED tables
      /\ work'[t].gone = work[t].gone /\ work'[t].nextId = work[t].nextId
      /\ work'[t].race = Ranked({r \in SeenRace(t) : r.run[2] = Req(t).map})
  BY RankHeld
<1>2. OnMap(t) /\ tx[t].pc # "commit" BY <1>1 DEF OnMap
<1>3. ViewSound(t) /\ V = SeenRace(t) /\ V \in SUBSET Rows /\ Table(V, SeenNextId(t))
  BY <1>2, ViewTable, SeenIsView
<1>4. M \in SUBSET Rows /\ IsFiniteSet(M) BY <1>3, FS_Subset DEF Lot, Table
<1>5. work'[t].race = R BY <1>1, <1>3 DEF Lot
<1>6. /\ R \in SUBSET Rows /\ IsFiniteSet(R)
      /\ \A r \in M : \E q \in R : Same(q, r)
      /\ \A q \in R : \E r \in M : q = Rank(r, M) /\ Same(q, r)
  <2> HIDE DEF M
  <2> QED BY <1>4, RankedTyped
<1>7. SeenNextId(t)' = SeenNextId(t) BY <1>1 DEF SeenNextId, tables
<1>8. View(t)' = {r \in race : r.id \notin work[t].gone \cup IdsOf(R)} \cup R
  BY <1>1, <1>5 DEF View, tables
<1>9. \A r \in work[t].race : r \in M
  <2>1. \A r \in work[t].race : r \in V /\ r.id >= nextId BY <1>2, <1>3 DEF View, ViewSound
  <2>2. \A r \in race : r.id < nextId /\ r.id \in Nat BY DEF Inv, TablesSound, Table, Rows, RowsTyped
  <2>3. nextId \in Nat BY DEF Inv, RowsTyped
  <2>4. \A r \in work[t].race : r \notin race BY <2>1, <2>2, <2>3
  <2> QED BY <1>3, <2>1, <2>4 DEF ViewSound, Lot
<1>10. \A i : i \in IdsOf(R) <=> i \in IdsOf(M)
  <2> HIDE DEF R, M
  <2> QED BY <1>6 DEF IdsOf, Same
<1>11. \A v \in V : v.id \in IdsOf(M) <=> v \in M
  BY <1>3 DEF Table, Lot, IdsOf
<1>12. View(t)' = (V \ M) \cup R
  <2>1. V = {r \in race : r.id \notin work[t].gone} \cup work[t].race BY <1>3 DEF SeenRace
  <2>2. {r \in race : r.id \notin work[t].gone \cup IdsOf(R)} = V \ M
    <3> HIDE DEF R, M, V
    <3> QED BY <1>9, <1>10, <1>11, <2>1
  <2> QED BY <1>8, <2>2
<1> QED BY <1>4, <1>5, <1>6, <1>7, <1>9, <1>12

\* After the ranking every map of the view has exact ranks, and no row that was
\* committed before has gained a rank.
LEMMA ViewsAfterRank ==
  ASSUME Inv, NEW t \in Txs, RankMap(t)
  PROVE  ViewSound(t)'
<1> DEFINE V == View(t)  M == Lot(t)  R == Ranked(M)  W == (V \ M) \cup R  m == Req(t).map
<1>1. /\ View(t)' = W /\ SeenNextId(t)' = SeenNextId(t) /\ work'[t].race = R
      /\ M \in SUBSET Rows /\ IsFiniteSet(M) /\ R \in SUBSET Rows /\ IsFiniteSet(R)
      /\ \A r \in M : \E q \in R : Same(q, r)
      /\ \A q \in R : \E r \in M : q = Rank(r, M) /\ Same(q, r)
  BY RankedView
<1>2. /\ tx[t].pc = "rank" /\ UNCHANGED tables /\ UNCHANGED newest
      /\ work'[t].gone = work[t].gone /\ work'[t].nextId = work[t].nextId
      /\ tx'[t].pc = "commit" /\ tx'[t].req = tx[t].req
  BY RankHeld
<1>3. OnMap(t) /\ tx[t].pc # "commit" BY <1>2 DEF OnMap
<1>4. ViewSound(t) /\ V \in SUBSET Rows /\ Table(V, SeenNextId(t)) BY <1>3, ViewTable
<1>5. race \in SUBSET Rows /\ IsFiniteSet(race) /\ Table(race, nextId) /\ RanksExact
  BY DEF Inv, RowsTyped, TablesSound, Table
<1>6. Req(t)' = Req(t) /\ race' = race /\ nextId' = nextId /\ m \in Maps
  <2>1. tx[t].req \in Reqs BY <1>3 DEF Inv, LocksHeld, Holds, InTx, OnMap
  <2> QED BY <1>2, <2>1, IngestAssumption DEF Req, tables, IngestAssumption
<1>a. M = {v \in V : v.run[2] = m} BY DEF Lot
<1>b. \A r \in W : \E v \in V : Same(r, v) /\ (r \in V \ M => r = v) BY <1>1, <1>a DEF Same
<1>c. \A v \in V : \E r \in W : Same(r, v) BY <1>1 DEF Same
<1>d. \A r \in R : r.run[2] = m BY <1>1, <1>a DEF Same
<1> HIDE DEF M, R
<1>7. Table(W, SeenNextId(t))
  <2>1. IsFiniteSet(W)
    <3>1. IsFiniteSet(V \ M) BY <1>4, FS_Subset DEF Table
    <3> QED BY <1>1, <3>1, FS_Union
  <2>2. \A r \in W : r.id < SeenNextId(t) BY <1>4, <1>b DEF Table, Same
  <2>3. \A r, q \in W : r.id = q.id \/ r.run = q.run => r = q
    <3> SUFFICES ASSUME NEW r \in W, NEW q \in W, r.id = q.id \/ r.run = q.run PROVE r = q OBVIOUS
    <3>1. PICK v \in V : Same(r, v) /\ (r \in V \ M => r = v) BY <1>b
    <3>2. PICK w \in V : Same(q, w) /\ (q \in V \ M => q = w) BY <1>b
    <3>3. v = w BY <1>4, <3>1, <3>2 DEF Table, Same
    <3>4. CASE r \in V \ M /\ q \in V \ M BY <3>1, <3>2, <3>3, <3>4
    <3>5. CASE r \in V \ M /\ q \in R BY <1>a, <1>d, <3>1, <3>2, <3>3, <3>5 DEF Same
    <3>6. CASE r \in R /\ q \in V \ M BY <1>a, <1>d, <3>1, <3>2, <3>3, <3>6 DEF Same
    <3>7. CASE r \in R /\ q \in R
      <4>1. PICK x \in M : r = Rank(x, M) /\ Same(r, x) BY <1>1, <3>7
      <4>2. PICK y \in M : q = Rank(y, M) /\ Same(q, y) BY <1>1, <3>7
      <4>3. x = y BY <1>4, <1>a, <3>1, <3>2, <3>3, <4>1, <4>2 DEF Same, Table
      <4> QED BY <4>1, <4>2, <4>3
    <3> QED BY <3>4, <3>5, <3>6, <3>7
  <2> QED BY <2>1, <2>2, <2>3 DEF Table
<1>e. \A r \in W : r.id >= nextId \/ r.id \in IdsOf(race)
  BY <1>4, <1>b DEF ViewSound, Same
<1>8. \A r \in W \ race : r.run[2] = m BY <1>4, <1>d DEF ViewSound
<1>9. ASSUME NEW q \in race
      PROVE  \/ q \in W
             \/ /\ q.run[2] = m
                /\ \E r \in W : r.run = q.run /\ (r.time < q.time \/ (r.time = q.time /\ r.id = q.id))
  <2>1. CASE q \in V
    <3>1. CASE q \in M
      <4>1. PICK r \in R : Same(r, q) BY <1>1, <3>1
      <4> QED BY <1>a, <3>1, <4>1 DEF Same
    <3> QED BY <2>1, <3>1
  <2>2. CASE q \notin V
    <3>1. PICK r \in V : r.run = q.run /\ (r.time < q.time \/ (r.time = q.time /\ r.id = q.id))
      BY <1>4, <2>2 DEF ViewSound
    <3>2. PICK x \in W : Same(x, r) BY <1>c
    <3> QED BY <1>4, <2>2, <3>1, <3>2 DEF ViewSound, Same
  <2> QED BY <2>1, <2>2
<1>10. \A r \in W, q \in race : r.id = q.id => r.run = q.run /\ r.time = q.time
  BY <1>4, <1>b DEF ViewSound, Same
<1>11. \A n \in Maps : LET rows == {r \in W : r.run[2] = n} IN rows = Ranked(rows)
  <2> SUFFICES ASSUME NEW n \in Maps PROVE {r \in W : r.run[2] = n} = Ranked({r \in W : r.run[2] = n})
    OBVIOUS
  <2>1. CASE n = m
    <3>1. {r \in W : r.run[2] = n} = R BY <1>a, <1>d, <2>1
    <3>2. Ranked(R) = R BY <1>1, <1>4, <1>a, RankedOnce DEF Table, R
    <3> QED BY <3>1, <3>2
  <2>2. CASE n # m
    <3>1. {r \in W : r.run[2] = n} = {r \in race : r.run[2] = n} BY <1>4, <1>a, <1>d, <2>2 DEF ViewSound
    <3> QED BY <1>5, <3>1 DEF RanksExact
  <2> QED BY <2>1, <2>2
<1>12. ASSUME NEW r \in W, NEW q \in race, r.id = q.id PROVE r.grank >= q.grank
  <2>1. CASE r \notin R
    <3>1. r \in race BY <1>4, <1>a, <2>1 DEF ViewSound
    <3>2. r = q BY <1>5, <1>12, <3>1 DEF Table
    <3> QED BY <1>5, <3>1, <3>2 DEF Rows
  <2>2. CASE r \in R
    <3> DEFINE Q == {p \in race : p.run[2] = m}
    <3>1. PICK v \in M : r = Rank(v, M) /\ Same(r, v) BY <1>1, <2>2
    <3>2. q.run = v.run /\ q.time = v.time /\ v \in V BY <1>4, <1>12, <1>a, <3>1 DEF ViewSound, Same
    <3>3. q \in Q BY <1>a, <3>1, <3>2
    <3>4. Q \in SUBSET Rows /\ IsFiniteSet(Q) /\ Q = Ranked(Q)
          /\ \A p, s \in Q : p.id = s.id \/ p.run = s.run => p = s
      BY <1>5, <1>6, FS_Subset DEF Table, RanksExact
    <3>5. \A p \in Q : \E s \in M : s.run = p.run /\ s.time <= p.time
      <4> SUFFICES ASSUME NEW p \in Q PROVE \E s \in M : s.run = p.run /\ s.time <= p.time OBVIOUS
      <4>1. p.time \in Nat BY <3>4 DEF Rows
      <4>2. CASE p \in V BY <1>a, <4>1, <4>2
      <4>3. CASE p \notin V
        <5>1. PICK s \in V : s.run = p.run /\ (s.time < p.time \/ (s.time = p.time /\ s.id = p.id))
          BY <1>4, <4>3 DEF ViewSound
        <5>2. s.time \in Nat BY <1>4 DEF Rows
        <5> QED BY <1>a, <4>1, <5>1, <5>2
      <4> QED BY <4>2, <4>3
    <3>6. q.grank = Place(q, Q)
      <4> HIDE DEF Q
      <4> QED BY <3>3, <3>4, ExactPlace
    <3>7. r.grank = Place(v, M) BY <1>1, <3>1, RankTyped
    <3>8. Place(q, Q) <= Place(v, M)
      <4> HIDE DEF Q
      <4> QED BY <1>1, <3>2, <3>3, <3>4, <3>5, PlaceGrows
    <3>9. Place(q, Q) \in Nat /\ Place(v, M) \in Nat
      <4> HIDE DEF Q
      <4> QED BY <1>1, <3>4, PlaceTyped
    <3> QED BY <3>6, <3>7, <3>8, <3>9
  <2> QED BY <2>1, <2>2
<1>13. /\ work[t].nextId = 0 => R = {} /\ work[t].gone = {}
       /\ work[t].nextId # 0 => work[t].nextId > nextId /\ work[t].nextId - 1 \in IdsOf(R)
  <2>1. work[t].nextId # 0 BY <1>2, <1>4 DEF ViewSound
  <2>2. ASSUME work[t].nextId # 0 PROVE work[t].nextId > nextId /\ work[t].nextId - 1 \in IdsOf(R)
    <3>1. PICK r \in work[t].race : r.id = work[t].nextId - 1 BY <1>4, <2>2 DEF ViewSound, IdsOf
    <3>2. r \in M BY <3>1, RankedView DEF M
    <3>3. PICK q \in R : Same(q, r) BY <1>1, <3>2
    <3> QED BY <1>4, <2>2, <3>1, <3>3 DEF ViewSound, IdsOf, Same
  <2> QED BY <2>1, <2>2
<1> QED BY <1>1, <1>2, <1>e, <1>6, <1>7, <1>8, <1>9, <1>10, <1>11, <1>12, <1>13 DEF ViewSound

\* Every step keeps the table and all views sound.
LEMMA StepTables ==
  ASSUME Inv, [Next]_vars
  PROVE  TablesSound'
<1>1. CASE UNCHANGED vars
  <2>1. UNCHANGED <<race, nextId, newest, tx, work>> BY <1>1 DEF vars, tables
  <2>2. ASSUME NEW t \in Txs, OnMap(t)' PROVE ViewSound(t)'
    <3>1. /\ View(t)' = View(t) /\ SeenNextId(t)' = SeenNextId(t) /\ Req(t)' = Req(t)
          /\ Entry(t)' = Entry(t) /\ Run(t)' = Run(t) /\ OnMap(t)
      BY <2>1, <2>2 DEF View, SeenNextId, Req, Entry, Run, OnMap
    <3>2. ViewSound(t) BY <3>1, ViewTable
    <3> QED BY <2>1, <3>1, <3>2 DEF ViewSound
  <2> QED BY <2>1, <2>2 DEF Inv, TablesSound, RanksExact
<1>2. ASSUME NEW t \in Txs, NEW r \in Reqs, Begin(t, r) PROVE TablesSound'
  <2>1. tx'[t].pc = "version" BY <1>2 DEF Begin, Inv, RowsTyped
  <2>2. ~OnMap(t)' BY <2>1 DEF OnMap
  <2> QED BY <1>2, <2>2, BeginHeld, ViewsElsewhere DEF Begin, tables
<1>3. ASSUME NEW t \in Txs, Statement(t) PROVE TablesSound'
  <2>1. CASE UpsertVersion(t) \/ UpsertMap(t) \/ UpsertPlayer(t)
    <3>1. Others(t) /\ UNCHANGED <<race, nextId, newest, work>> BY <2>1, UpsertHeld DEF UpsertVersion, UpsertMap, UpsertPlayer, tables
    <3>2. CASE UpsertVersion(t)
      <4>1. tx'[t].pc = "map" BY <3>2, Moved DEF UpsertVersion, Steps, Inv
      <4> QED BY <3>1, <4>1, ViewsElsewhere DEF OnMap
    <3>3. CASE UpsertMap(t)
      <4>1. tx'[t].pc = "player" /\ tx[t].pc = "map" BY <3>3, Moved DEF UpsertMap, Steps, Inv
      <4>2. work[t] = NoWork BY <4>1 DEF Inv, LocksHeld, Holds, OnMap
      <4> QED BY <3>1, <4>1, <4>2, ViewOpened, ViewsElsewhere
    <3>4. CASE UpsertPlayer(t)
      <4>1. tx'[t].pc = "canon" /\ tx[t].pc = "player" /\ tx'[t].req = tx[t].req
        BY <3>4, Moved DEF UpsertPlayer, Steps, Inv
      <4>2. ViewSound(t)' BY <3>1, <4>1, ViewSoundKept DEF OnMap
      <4> QED BY <3>1, <4>2, ViewsElsewhere
    <3> QED BY <2>1, <3>2, <3>3, <3>4
  <2>2. CASE ReadCanonical(t) \/ ClaimCanonical(t)
    <3>1. ViewSound(t)' /\ Others(t) BY <2>2, CanonicalHeld, ViewSoundKept DEF OnMap, tables
    <3> QED BY <2>2, <3>1, CanonicalHeld, ViewsElsewhere DEF tables
  <2>3. CASE CountEntry(t) BY <2>3, CountHeld, ViewsAfterCount, ViewsElsewhere DEF tables
  <2>4. CASE NextRaceId(t) BY <2>4, InsertHeld, ViewsAfterInsert, ViewsElsewhere DEF tables
  <2>5. CASE RankMap(t) BY <2>5, RankHeld, ViewsAfterRank, ViewsElsewhere DEF tables
  <2>6. CASE Commit(t) BY <2>6, ViewsAfterCommit
  <2> QED BY <1>3, <2>1, <2>2, <2>3, <2>4, <2>5, <2>6 DEF Statement
<1>4. ASSUME NEW t \in Txs, Ends(t) PROVE TablesSound'
  BY <1>4, EndHeld, ViewsElsewhere DEF tables
<1> QED BY <1>1, <1>2, <1>3, <1>4 DEF Next, Ends

\* The empty tables are sound.
LEMMA InitSound == Init => Inv
<1> SUFFICES ASSUME Init PROVE Inv OBVIOUS
<1>1. RowsTyped
  <2>1. NoWork \in Writes /\ Idle \in TxStates
    BY NothingWritten, IngestAssumption DEF Idle, TxStates, Steps, IngestAssumption
  <2> QED BY <2>1 DEF Init, RowsTyped
<1>2. LocksHeld
  <2>1. None \notin Txs BY IngestAssumption DEF IngestAssumption
  <2> QED BY <2>1, LockNames DEF Init, LocksHeld, Holds, InTx, OnMap, Asking, Idle, NoWork
<1>3. TablesSound
  <2>1. \A m \in Maps : {r \in {} : r.run[2] = m} = {} /\ Ranked({}) = {} BY DEF Ranked
  <2>2. Table(race, nextId) BY FS_EmptySet DEF Init, Table
  <2> QED BY <2>1, <2>2 DEF Init, TablesSound, RanksExact, OnMap, Idle
<1> QED BY <1>1, <1>2, <1>3 DEF Inv

\* The inductive invariant holds always.
LEMMA InvAlways == Spec => []Inv
<1>1. Inv /\ [Next]_vars => Inv' BY StepHeld, StepTables DEF Inv
<1> QED BY InitSound, <1>1, PTL DEF Spec

-----------------------------------------------------------------------------
\* Transactions that wait for each other in a cycle ingest different game
\* versions (_ingestTx upserts the version row first and keeps it locked):
\* every member of a cycle holds the row of its version.
THEOREM CyclesOfTwoVersions == Spec => []CyclesCrossVersions
<1>1. Inv => CyclesCrossVersions
  <2> SUFFICES ASSUME Inv, NEW t \in Txs, NEW u \in Txs, t # u, OnCycle(t), OnCycle(u)
               PROVE  Req(t).version # Req(u).version
    BY DEF CyclesCrossVersions
  <2>1. ASSUME NEW v \in Txs, OnCycle(v) PROVE lock[<<"version", Req(v).version>>] = v
    <3>1. PICK w \in Txs : WaitsFor(w, v) BY <2>1 DEF OnCycle
    <3>2. Needs(w) \in Locks /\ lock[Needs(w)] = v BY <3>1 DEF WaitsFor
    <3>3. tx[v].pc \notin {"idle", "version", "reply"} BY <3>2 DEF Inv, LocksHeld, Holds
    <3> QED BY <3>3 DEF Inv, LocksHeld, Holds, InTx
  <2> QED BY <2>1
<1> QED BY InvAlways, <1>1, PTL

\* The ranks stored for a map are those of its committed rows, whatever ingests
\* run at once (_ingestTx re-ranks the whole map under the map row's lock).
THEOREM RanksAlwaysExact == Spec => []RanksExact
<1>1. Inv => RanksExact BY DEF Inv, TablesSound
<1> QED BY InvAlways, <1>1, PTL

-----------------------------------------------------------------------------
(* Ingest implements the feed the announcer reads, as long as no more ids  *)
(* are allocated than RaceFeed has (IdBound is a bound of the instance): a *)
(* commit publishes ids greater than all published before, and moves no    *)
(* committed row up (_nextRaceId locks the counter row until COMMIT).      *)
THEOREM FeedImplemented == Spec /\ [](newest <= IdBound) => ImplementsFeed
<1> DEFINE Top(rows) == IdsOf({q \in rows : q.grank <= MaxRank})
<1>1. Init => Feed!FeedInit BY DEF Init, Feed!FeedInit
<1>2. ASSUME Inv, [Next]_vars, (newest <= IdBound)'
      PROVE  [Feed!FeedNext]_(Feed!feedVars)
  <2>1. CASE UNCHANGED <<race, newest>> BY <2>1 DEF Feed!feedVars
  <2>2. ASSUME NEW t \in Txs, Commit(t) PROVE [Feed!FeedNext]_(Feed!feedVars)
    <3> DEFINE V == View(t)  new == IdsOf(V) \ IdsOf(race)  gone == IdsOf(race) \ IdsOf(V)
    <3>1. /\ tx[t].pc = "commit" /\ race' = V
          /\ newest' = (IF work[t].nextId = 0 THEN newest ELSE work[t].nextId - 1)
      BY <1>2, <2>2, CommitHeld
    <3>2. OnMap(t) /\ ViewSound(t) /\ V \in SUBSET Rows BY <3>1, <1>2, ViewTable DEF OnMap
    <3>3. CASE work[t].nextId = 0
      <4>1. V = race BY <3>2, <3>3 DEF ViewSound, View, IdsOf
      <4> QED BY <3>1, <3>3, <4>1 DEF Feed!feedVars
    <3>4. CASE work[t].nextId # 0
      <4>1. PICK r \in work[t].race : r.id = work[t].nextId - 1 BY <3>2, <3>4 DEF ViewSound, IdsOf
      <4>2. r \in V BY DEF View
      <4>3. /\ nextId \in Nat /\ newest \in Nat /\ newest < nextId /\ work[t].nextId \in Nat
            /\ race \in SUBSET Rows /\ \A q \in race : q.id < nextId
        BY <1>2, WorkTyped DEF Inv, RowsTyped, TablesSound, Table
      <4>4. \A q \in V \cup race : q.id \in Nat BY <3>2, <4>3 DEF Rows
      <4>5. work[t].nextId > nextId /\ \A q \in V : q.id < work[t].nextId
        BY <3>2, <3>4 DEF ViewSound, Table, SeenNextId
      <4>6. r.id \in new BY <4>1, <4>2, <4>3, <4>4, <4>5 DEF IdsOf
      <4>7. \A i \in new : i \in Nat /\ i > newest /\ i <= newest'
        <5> SUFFICES ASSUME NEW i \in new PROVE i \in Nat /\ i > newest /\ i <= newest' OBVIOUS
        <5>1. PICK q \in V : q.id = i BY DEF IdsOf
        <5>2. i \in Nat /\ i >= nextId /\ i < work[t].nextId BY <3>2, <4>4, <4>5, <5>1 DEF ViewSound
        <5> QED BY <3>1, <3>4, <4>3, <5>2
      <4>8. newest' \in new BY <3>1, <3>4, <4>1, <4>6
      <4>9. new \in SUBSET ((newest + 1)..IdBound) /\ new # {}
        <5>1. IdBound \in Nat BY IngestAssumption DEF IngestAssumption
        <5>2. newest' \in Nat BY <4>7, <4>8
        <5> HIDE DEF new
        <5> QED BY <1>2, <4>3, <4>7, <4>8, <5>1, <5>2
      <4>10. newest' = Feed!Greatest(new)
        <5> HIDE DEF new
        <5> QED BY <4>7, <4>8 DEF Feed!Greatest
      <4>11. IdsOf(race') = (IdsOf(race) \ gone) \cup new BY <3>1
      <4>12. Top(race') \in SUBSET ((Top(race) \ gone) \cup new)
        <5> SUFFICES ASSUME NEW q \in V, q.grank <= MaxRank, q.id \notin new
                     PROVE  q.id \in Top(race) \ gone
          BY <3>1 DEF IdsOf
        <5>1. PICK p \in race : p.id = q.id BY DEF IdsOf
        <5>2. q.grank >= p.grank BY <3>1, <3>2, <5>1 DEF ViewSound
        <5>3. MaxRank \in Nat BY IngestAssumption DEF IngestAssumption
        <5>4. p.grank <= MaxRank BY <3>2, <4>3, <5>2, <5>3 DEF Rows
        <5> QED BY <5>1, <5>4 DEF IdsOf
      <4>13. Feed!CommitRows
        <5>1. gone \in SUBSET IdsOf(race) OBVIOUS
        <5> HIDE DEF new, gone
        <5> QED BY <4>9, <4>10, <4>11, <4>12, <5>1 DEF Feed!CommitRows, IdsOf
      <4> QED BY <4>13 DEF Feed!FeedNext
    <3> QED BY <3>3, <3>4
  <2>3. \/ UNCHANGED <<race, newest>>
        \/ \E t \in Txs : Commit(t)
    BY <1>2, ZenonT(60) DEF Next, Statement, tables, vars, Begin, UpsertVersion, UpsertMap, UpsertPlayer, ReadCanonical,
       ClaimCanonical, CountEntry, NextRaceId, RankMap, Reply, ReplyLost, Abort, Deadlock
  <2> QED BY <2>1, <2>2, <2>3
<1> QED BY InvAlways, <1>1, <1>2, PTL DEF Spec, ImplementsFeed, Feed!FeedSpec

-----------------------------------------------------------------------------
(* The best times.                                                         *)

\* Which time is best depends on the times of a run key's rows only.
LEMMA BestLike ==
  ASSUME NEW R, NEW S, NEW k, NEW T, Best(R, k, T),
         \A r \in S : r.run = k => \E q \in R : q.run = k /\ q.time = r.time,
         \A q \in R : q.run = k => \E r \in S : r.run = k
  PROVE  Best(S, k, T)
  BY DEF Best

\* What t works on, and where in it.
LEMMA OwnOf ==
  ASSUME Inv, NEW t \in Txs, OnMap(t)
  PROVE  /\ tx[t].req \in Reqs /\ tx[t].at \in Nat \ {0} /\ Len(Req(t).entries) \in Nat
         /\ Asking(t) => tx[t].at <= Len(Req(t).entries)
<1>1. tx[t].req \in Reqs /\ (Asking(t) => tx[t].at <= Len(Req(t).entries))
  BY DEF Inv, LocksHeld, Holds, InTx, OnMap
<1>2. tx[t].at \in Nat \ {0} BY DEF Inv, RowsTyped, TxStates
<1>3. Len(Req(t).entries) \in Nat BY <1>1, IngestAssumption DEF IngestAssumption, Req
<1> QED BY <1>1, <1>2, <1>3

\* the entry t is through with adds its time, if it is a finish
Fresh(t, k) == IF k = Run(t) /\ Entry(t).time # NoTime THEN {Entry(t).time} ELSE {}
\* An entry done adds its time to those t brought, and changes no other run key.
LEMMA OwnStep ==
  ASSUME Inv, NEW t \in Txs, Asking(t), NEW wrote \in BOOLEAN, NextEntry(t, wrote), NEW k
  PROVE  OwnTimes(t, k)' = OwnTimes(t, k) \cup Fresh(t, k)
<1> DEFINE es == Req(t).entries  at == tx[t].at  E == EntriesOf(tx[t].req, k)
<1>1. OnMap(t) /\ tx[t].pc \notin {"rank", "commit"} BY DEF Asking, OnMap
<1>2. at \in Nat \ {0} /\ Len(es) \in Nat /\ at <= Len(es) /\ tx'[t].req = tx[t].req
      /\ \/ tx'[t].pc = "player" /\ tx'[t].at = at + 1
         \/ tx'[t].pc \in {"rank", "commit"} /\ at = Len(es)
  BY <1>1, OwnOf, AfterEntry DEF Inv
<1>3. Through(t)' = at /\ Through(t) = at - 1
  BY <1>1, <1>2 DEF Through, Req
<1>4. E = {i \in 1..Len(es) : k = <<es[i].player, Req(t).map, Req(t).version>>}
  BY DEF EntriesOf, Req
<1>5. at \in E <=> k = Run(t) BY <1>2, <1>4 DEF Run, Entry
<1>6. OwnTimes(t, k)' = {es[i].time : i \in {j \in E : j <= at}} \ {NoTime}
  BY <1>2, <1>3 DEF OwnTimes, Req
<1>7. OwnTimes(t, k) = {es[i].time : i \in {j \in E : j <= at - 1}} \ {NoTime}
  BY <1>3 DEF OwnTimes
<1>8. \A j \in E : j <= at <=> j <= at - 1 \/ j = at BY <1>2, <1>4
<1>9. es[at] = Entry(t) BY DEF Entry
<1> HIDE DEF es, at, E
<1> QED BY <1>5, <1>6, <1>7, <1>8, <1>9 DEF Fresh

\* Times are natural numbers.
LEMMA TimesTyped ==
  ASSUME NEW k
  PROVE  /\ TimesOf(k) \in SUBSET Nat
         /\ \A t \in Txs : tx[t].req \in Reqs => OwnTimes(t, k) \in SUBSET Nat
<1>1. ASSUME NEW r \in Reqs, NEW i \in EntriesOf(r, k) PROVE Request[r].entries[i].time \in Nat
  <2> DEFINE E == [player : Players, time : Nat, count : Nat]  es == Request[r].entries
  <2>1. es \in Seq(E) /\ i \in 1..Len(es) BY IngestAssumption DEF IngestAssumption, EntriesOf
  <2> HIDE DEF E, es
  <2>2. es[i] \in E BY <2>1
  <2> QED BY <2>2 DEF E, es
<1>2. TimesOf(k) \in SUBSET Nat BY <1>1 DEF TimesOf, Committed
<1>3. ASSUME NEW t \in Txs, tx[t].req \in Reqs PROVE OwnTimes(t, k) \in SUBSET Nat
  BY <1>1, <1>3 DEF OwnTimes, Req
<1> QED BY <1>2, <1>3

\* The times t brought depend on how far it is.
LEMMA OwnKept ==
  ASSUME NEW t \in Txs, tx'[t].req = tx[t].req, Through(t)' = Through(t), NEW k
  PROVE  OwnTimes(t, k)' = OwnTimes(t, k)
  BY DEF OwnTimes, Req

\* The committed times change with a commit only.
LEMMA TimesKept ==
  ASSUME UNCHANGED commits, NEW k
  PROVE  TimesOf(k)' = TimesOf(k)
  BY DEF TimesOf, Committed

\* The part of `BestSoFar' about t.
BestOf(t) == \A k \in RunKeys : k[2] = Req(t).map => Best(View(t), k, TimesOf(k) \cup OwnTimes(t, k))

\* A step of t that commits nothing only has to keep what is best in t's view.
LEMMA BestElsewhere ==
  ASSUME Inv, BestSoFar, NEW t \in Txs, Others(t), UNCHANGED <<race, nextId, commits>>, OnMap(t)' => BestOf(t)'
  PROVE  BestSoFar'
<1>1. ASSUME NEW u \in Txs \ {t}, OnMap(u)', NEW k \in RunKeys, k[2] = Req(u)'.map
      PROVE  Best(View(u)', k, TimesOf(k)' \cup OwnTimes(u, k)')
  <2>1. tx'[u] = tx[u] /\ work'[u] = work[u] BY DEF Others
  <2>2. OnMap(u) /\ Req(u)' = Req(u) /\ View(u)' = View(u) BY <1>1, <2>1 DEF OnMap, Req, View
  <2>3. OwnTimes(u, k)' = OwnTimes(u, k) BY <2>1, OwnKept DEF Through, Req
  <2>4. TimesOf(k)' = TimesOf(k) BY TimesKept
  <2> QED BY <1>1, <2>2, <2>3, <2>4 DEF BestSoFar
<1>2. ASSUME NEW k \in RunKeys PROVE Best(race', k, TimesOf(k)')
  BY TimesKept DEF BestSoFar
<1> QED BY <1>1, <1>2 DEF BestSoFar, BestOf

\* A statement that leaves view and entry alone keeps it.
LEMMA BestKept ==
  ASSUME Inv, BestSoFar, NEW t \in Txs, OnMap(t),
         UNCHANGED <<race, nextId, newest, commits>>, tx'[t].req = tx[t].req, OnMap(t)',
         Through(t)' = Through(t),
         work'[t].race = work[t].race, work'[t].gone = work[t].gone, work'[t].nextId = work[t].nextId
  PROVE  BestOf(t)'
<1>1. View(t)' = View(t) /\ Req(t)' = Req(t) BY ViewKept
<1>2. \A k : TimesOf(k)' = TimesOf(k) /\ OwnTimes(t, k)' = OwnTimes(t, k) BY OwnKept, TimesKept
<1> QED BY <1>1, <1>2 DEF BestOf, BestSoFar

\* An entry that is no improvement leaves a row at least as good as it.
LEMMA BestAfterCount ==
  ASSUME Inv, BestSoFar, NEW t \in Txs, CountEntry(t)
  PROVE  BestOf(t)'
<1>1. /\ work'[t].race = work[t].race /\ work'[t].gone = work[t].gone /\ work'[t].nextId = work[t].nextId
      /\ tx[t].pc = "entry" /\ UNCHANGED tables /\ UNCHANGED <<commits, newest>>
  BY CountHeld
<1>2. Asking(t) /\ OnMap(t) /\ RowsTyped /\ LocksHeld /\ tx[t].pc # "commit" BY <1>1 DEF Asking, OnMap, Inv
<1>3. View(t) = SeenRace(t) /\ View(t) \in SUBSET Rows /\ Table(View(t), SeenNextId(t))
  BY <1>2, ViewTable, SeenIsView
<1>4. CASE Improves(t) /\ Goto(t, "counter")
  <2>1. tx'[t].pc = "counter" /\ tx'[t].req = tx[t].req /\ tx'[t].at = tx[t].at
    BY <1>2, <1>4, Moved DEF Steps
  <2> QED BY <1>1, <1>2, <2>1, BestKept DEF OnMap, Through, Req, tables
<1>5. CASE ~Improves(t) /\ NextEntry(t, work[t].race # {})
  <2>1. tx'[t].req = tx[t].req /\ OnMap(t)'
    BY <1>2, <1>5, AfterEntry DEF OnMap
  <2>2. View(t)' = View(t) /\ Req(t)' = Req(t) BY <1>1, <1>2, <2>1, ViewKept DEF tables
  <2>3. ASSUME NEW k \in RunKeys, k[2] = Req(t).map
        PROVE  Best(View(t), k, TimesOf(k)' \cup OwnTimes(t, k)')
    <3> DEFINE T == TimesOf(k) \cup OwnTimes(t, k)
    <3>1. Best(View(t), k, T) BY <1>2, <2>3 DEF BestSoFar
    <3>2. TimesOf(k)' \cup OwnTimes(t, k)' = T \cup Fresh(t, k)
      <4>1. (work[t].race # {}) \in BOOLEAN OBVIOUS
      <4>2. OwnTimes(t, k)' = OwnTimes(t, k) \cup Fresh(t, k) BY <1>2, <1>5, <4>1, OwnStep
      <4>3. TimesOf(k)' = TimesOf(k) BY <1>1, TimesKept
      <4> QED BY <4>2, <4>3
    <3>3. CASE Fresh(t, k) = {} BY <3>1, <3>2, <3>3
    <3>4. CASE Fresh(t, k) # {}
      <4>1. k = Run(t) /\ Entry(t).time # NoTime /\ Fresh(t, k) = {Entry(t).time} BY <3>4 DEF Fresh
      <4>2. PICK q \in View(t) : q.run = k /\ ~(q.time > Entry(t).time)
        BY <1>3, <1>5, <4>1 DEF Improves, Existing
      <4>3. \A r \in View(t) : r.run = k => r = q BY <1>3, <4>2 DEF Table
      <4>4. Entry(t).time \in Nat /\ q.time \in Nat BY <1>2, <1>3, EntryTyped DEF Rows
      <4>5. q.time \in T /\ \A x \in T : q.time <= x BY <3>1, <4>2 DEF Best
      <4> HIDE DEF T
      <4>6. Best(View(t), k, T \cup {Entry(t).time}) BY <4>2, <4>3, <4>4, <4>5 DEF Best
      <4> QED BY <3>2, <4>1, <4>6
    <3> QED BY <3>3, <3>4
  <2> QED BY <2>2, <2>3 DEF BestOf
<1> QED BY <1>4, <1>5 DEF CountEntry

\* The inserted row is the best of all times committed or brought by t.
LEMMA BestAfterInsert ==
  ASSUME Inv, BestSoFar, NEW t \in Txs, NextRaceId(t)
  PROVE  BestOf(t)'
<1> DEFINE V == View(t)  row == NewRow(t)
<1>1. View(t)' = {v \in V : v.run # Run(t)} \cup {row} BY Inserted
<1>2. tx[t].pc = "counter" /\ UNCHANGED tables /\ UNCHANGED commits BY InsertHeld
<1>3. Asking(t) /\ OnMap(t) /\ RowsTyped /\ LocksHeld BY <1>2 DEF Asking, OnMap, Inv
<1>4. ViewSound(t) /\ V \in SUBSET Rows BY <1>3, ViewTable
<1>5. row.run = Run(t) /\ row.time = Entry(t).time BY DEF NewRow
<1>6. NextEntry(t, TRUE) BY DEF NextRaceId
<1>7. Req(t)' = Req(t) BY <1>3, <1>6, AfterEntry DEF Req
<1>8. Entry(t).time # NoTime /\ \A v \in V : v.run = Run(t) => v.time > Entry(t).time
  BY <1>2, <1>4 DEF ViewSound
<1>9. ASSUME NEW k \in RunKeys, k[2] = Req(t).map
      PROVE  Best(View(t)', k, TimesOf(k)' \cup OwnTimes(t, k)')
  <2> DEFINE T == TimesOf(k) \cup OwnTimes(t, k)
  <2>1. Best(V, k, T) BY <1>3, <1>9 DEF BestSoFar
  <2>2. TimesOf(k)' \cup OwnTimes(t, k)' = T \cup Fresh(t, k)
    <3>1. OwnTimes(t, k)' = OwnTimes(t, k) \cup Fresh(t, k) BY <1>3, <1>6, OwnStep
    <3>2. TimesOf(k)' = TimesOf(k) BY <1>2, TimesKept
    <3> QED BY <3>1, <3>2
  <2>3. CASE k # Run(t)
    <3>1. Fresh(t, k) = {} BY <2>3 DEF Fresh
    <3>2. Best(View(t)', k, T)
      <4> HIDE DEF V, T, row
      <4> QED BY <1>1, <1>5, <2>1, <2>3 DEF Best
    <3> QED BY <2>2, <3>1, <3>2
  <2>4. CASE k = Run(t)
    <3>1. Fresh(t, k) = {Entry(t).time} BY <1>8, <2>4 DEF Fresh
    <3>2. Entry(t).time \in Nat /\ \A v \in V : v.time \in Nat BY <1>3, <1>4, EntryTyped DEF Rows
    <3>3. \A x \in T : x \in Nat => Entry(t).time <= x
      <4> HIDE DEF T
      <4> QED BY <1>8, <2>1, <2>4, <3>2 DEF Best
    <3>4. T \subseteq Nat BY <1>3, TimesTyped, OwnOf
    <3>5. Best(View(t)', k, T \cup {Entry(t).time})
      <4> HIDE DEF V, T, row
      <4> QED BY <1>1, <1>5, <2>4, <3>2, <3>3, <3>4 DEF Best
    <3> QED BY <2>2, <3>1, <3>5
  <2> QED BY <2>3, <2>4
<1> QED BY <1>7, <1>9 DEF BestOf

(* Ranking changes no time, so what is best stays best.                    *)
LEMMA BestAfterRank ==
  ASSUME Inv, BestSoFar, NEW t \in Txs, RankMap(t)
  PROVE  BestOf(t)'
<1> DEFINE V == View(t)  M == Lot(t)  R == Ranked(M)  W == (V \ M) \cup R
<1>1. /\ View(t)' = W
      /\ \A r \in M : \E q \in R : Same(q, r)
      /\ \A q \in R : \E r \in M : Same(q, r)
  BY RankedView
<1>2. /\ tx[t].pc = "rank" /\ UNCHANGED <<commits, newest>>
      /\ tx'[t].pc = "commit" /\ tx'[t].req = tx[t].req
  BY RankHeld
<1>3. OnMap(t) /\ Req(t)' = Req(t) /\ Through(t)' = Through(t) BY <1>2 DEF OnMap, Req, Through
<1>4. M \in SUBSET V BY DEF Lot
<1>5. ASSUME NEW k \in RunKeys, k[2] = Req(t).map
      PROVE  Best(W, k, TimesOf(k)' \cup OwnTimes(t, k)')
  <2> DEFINE T == TimesOf(k) \cup OwnTimes(t, k)
  <2>1. Best(V, k, T) BY <1>3, <1>5 DEF BestSoFar
  <2>2. TimesOf(k)' = TimesOf(k) BY <1>2, TimesKept
  <2>3. OwnTimes(t, k)' = OwnTimes(t, k) BY <1>2, <1>3, OwnKept
  <2> HIDE DEF V, M, R, T
  <2>4. \A r \in W : r.run = k => \E q \in V : q.run = k /\ q.time = r.time BY <1>1, <1>4 DEF Same
  <2>5. \A q \in V : q.run = k => \E r \in W : r.run = k BY <1>1 DEF Same
  <2> HIDE DEF W
  <2>6. Best(W, k, T) BY <2>1, <2>4, <2>5, BestLike
  <2> QED BY <2>2, <2>3, <2>6 DEF T
<1> QED BY <1>1, <1>3, <1>5 DEF BestOf

\* A map just locked is as the committed table has it.
LEMMA BestOpened ==
  ASSUME Inv, BestSoFar, NEW t \in Txs, UpsertMap(t)
  PROVE  BestOf(t)'
<1>1. tx[t].pc = "map" /\ UNCHANGED <<race, work, commits>> BY DEF UpsertMap, tables
<1>2. tx'[t].pc = "player" /\ tx'[t].req = tx[t].req /\ tx'[t].at = tx[t].at
  BY Moved DEF UpsertMap, Steps, Inv
<1>3. work[t] = NoWork /\ tx[t].at = 1 BY <1>1 DEF Inv, LocksHeld, Holds, OnMap
<1>4. View(t)' = race BY <1>1, <1>3 DEF View, IdsOf, NoWork
<1>5. ASSUME NEW k PROVE OwnTimes(t, k)' = {} /\ TimesOf(k)' = TimesOf(k)
  <2>1. Through(t)' = 0 BY <1>2, <1>3 DEF Through
  <2>2. \A j \in EntriesOf(tx'[t].req, k) : j \in Nat \ {0} BY DEF EntriesOf
  <2> QED BY <1>1, <2>1, <2>2, TimesKept DEF OwnTimes
<1>6. \A k \in RunKeys : Best(race, k, TimesOf(k)) BY DEF BestSoFar
<1> QED BY <1>4, <1>5, <1>6 DEF BestOf

(* A commit makes t's view the table and its times the committed ones.     *)
LEMMA TimesAfterCommit ==
  ASSUME Inv, NEW t \in Txs, Commit(t), NEW k
  PROVE  TimesOf(k)' = TimesOf(k) \cup OwnTimes(t, k)
<1> DEFINE q == tx[t].req
<1>1. tx[t].pc = "commit" /\ commits' = [commits EXCEPT ![q] = @ + 1] BY DEF Commit
<1>2. q \in Reqs /\ commits \in [Reqs -> Nat] BY <1>1, OwnOf DEF OnMap, Inv, RowsTyped
<1>3. Committed' = Committed \cup {q}
  <2>1. commits'[q] = commits[q] + 1 /\ \A r \in Reqs \ {q} : commits'[r] = commits[r] BY <1>1, <1>2
  <2>2. commits'[q] > 0 BY <1>2, <2>1
  <2> QED BY <1>2, <2>1, <2>2 DEF Committed
<1>4. OwnTimes(t, k) = {Request[q].entries[i].time : i \in EntriesOf(q, k)} \ {NoTime}
  <2>1. {j \in EntriesOf(q, k) : j <= Through(t)} = EntriesOf(q, k)
    BY <1>1 DEF Through, EntriesOf, Req
  <2> QED BY <2>1 DEF OwnTimes, Req
<1> DEFINE F(r) == {Request[r].entries[i].time : i \in EntriesOf(r, k)}
<1>5. TimesOf(k) = (UNION {F(r) : r \in Committed}) \ {NoTime} BY DEF TimesOf
<1>6. TimesOf(k)' = (UNION {F(r) : r \in Committed'}) \ {NoTime} BY DEF TimesOf
<1>7. OwnTimes(t, k) = F(q) \ {NoTime} BY <1>4
<1> HIDE DEF F
<1> QED BY <1>3, <1>5, <1>6, <1>7

\* After a commit the best times are on record, also as those see it whose map
\* it was not.
LEMMA BestAfterCommit ==
  ASSUME Inv, BestSoFar, NEW t \in Txs, Commit(t)
  PROVE  BestSoFar'
<1>1. /\ race' = View(t) /\ tx[t].pc = "commit" /\ Others(t) /\ tx'[t].pc = "reply" /\ race' \in SUBSET Rows
  BY CommitHeld DEF RowsTyped
<1>2. OnMap(t) /\ ViewSound(t) BY <1>1, ViewTable DEF OnMap
<1>3. \A k : TimesOf(k)' = TimesOf(k) \cup OwnTimes(t, k) BY TimesAfterCommit
<1>4. ASSUME NEW k, k[2] # Req(t).map PROVE OwnTimes(t, k) = {}
  <2>1. EntriesOf(tx[t].req, k) = {} BY <1>4 DEF EntriesOf, Req
  <2> QED BY <2>1 DEF OwnTimes
<1>5. ASSUME NEW k \in RunKeys PROVE Best(race', k, TimesOf(k)')
  <2>1. CASE k[2] = Req(t).map BY <1>1, <1>2, <1>3, <2>1 DEF BestSoFar
  <2>2. CASE k[2] # Req(t).map
    <3>1. Best(race, k, TimesOf(k)) /\ TimesOf(k)' = TimesOf(k) BY <1>3, <1>4, <2>2 DEF BestSoFar
    <3>2. \A q \in race \cup race' : q.run = k => (q \in race <=> q \in race')
      BY <1>1, <1>2, <2>2 DEF ViewSound
    <3>3. \A r \in race' : r.run = k => \E q \in race : q.run = k /\ q.time = r.time BY <3>2
    <3>4. \A q \in race : q.run = k => \E r \in race' : r.run = k BY <3>2
    <3> QED BY <3>1, <3>3, <3>4, BestLike
  <2> QED BY <2>1, <2>2
<1>6. ASSUME NEW u \in Txs, OnMap(u)', NEW k \in RunKeys, k[2] = Req(u)'.map
      PROVE  Best(View(u)', k, TimesOf(k)' \cup OwnTimes(u, k)')
  <2>1. u # t BY <1>1, <1>6 DEF OnMap
  <2>2. tx'[u] = tx[u] /\ work'[u] = work[u] /\ OnMap(u) BY <1>1, <1>6, <2>1 DEF Others, OnMap
  <2>3. Req(u)' = Req(u) /\ k[2] = Req(u).map /\ Req(u).map # Req(t).map
    BY <1>2, <1>6, <2>1, <2>2, MapsApart DEF Req
  <2>4. TimesOf(k)' = TimesOf(k) BY <1>3, <1>4, <2>3
  <2>5. OwnTimes(u, k)' = OwnTimes(u, k) BY <2>2, <2>3, OwnKept DEF Through
  <2>6. Best(View(u), k, TimesOf(k) \cup OwnTimes(u, k)) BY <2>2, <2>3 DEF BestSoFar
  <2>7. /\ work[u].nextId # 0 => race' = race
        /\ \A q \in Rows : q.run[2] = Req(u).map => (q \in race' <=> q \in race)
    BY <2>1, <2>2, OthersCommit
  <2>8. CASE work[u].nextId # 0
    <3>1. View(u)' = View(u) BY <2>2, <2>7, <2>8 DEF View
    <3> QED BY <2>4, <2>5, <2>6, <3>1
  <2>9. CASE work[u].nextId = 0
    <3>1. View(u) = race /\ View(u)' = race'
      <4>1. work[u].race = {} /\ work[u].gone = {} BY <2>2, <2>9, ViewTable DEF ViewSound
      <4> QED BY <2>2, <4>1 DEF View, IdsOf
    <3>2. \A q \in race \cup race' : q.run = k => (q \in race <=> q \in race')
      BY <1>1, <2>3, <2>7 DEF Inv, RowsTyped
    <3>3. \A r \in race' : r.run = k => \E q \in race : q.run = k /\ q.time = r.time BY <3>2
    <3>4. \A q \in race : q.run = k => \E r \in race' : r.run = k BY <3>2
    <3>5. Best(race', k, TimesOf(k) \cup OwnTimes(u, k)) BY <2>6, <3>1, <3>3, <3>4, BestLike
    <3> QED BY <2>4, <2>5, <3>1, <3>5
  <2> QED BY <2>8, <2>9
<1> QED BY <1>5, <1>6 DEF BestSoFar

\* Every step keeps the best times, committed and in all views.
LEMMA StepBest ==
  ASSUME Inv, BestSoFar, [Next]_vars
  PROVE  BestSoFar'
<1>1. CASE UNCHANGED vars
  <2>1. UNCHANGED <<race, commits, tx, work>> BY <1>1 DEF vars, tables
  <2>2. \A k : TimesOf(k)' = TimesOf(k) BY <2>1, TimesKept
  <2>3. ASSUME NEW t \in Txs, OnMap(t)', NEW k \in RunKeys, k[2] = Req(t)'.map
        PROVE  Best(View(t)', k, TimesOf(k)' \cup OwnTimes(t, k)')
    <3>1. OnMap(t) /\ Req(t)' = Req(t) /\ View(t)' = View(t) BY <2>1, <2>3 DEF OnMap, Req, View
    <3>2. Through(t)' = Through(t) BY <2>1, <3>1 DEF Through
    <3>3. OwnTimes(t, k)' = OwnTimes(t, k) BY <2>1, <3>2, OwnKept
    <3> QED BY <2>2, <2>3, <3>1, <3>3 DEF BestSoFar
  <2>4. \A k \in RunKeys : Best(race', k, TimesOf(k)') BY <2>1, <2>2 DEF BestSoFar
  <2> QED BY <2>3, <2>4 DEF BestSoFar
<1>2. ASSUME NEW t \in Txs, NEW r \in Reqs, Begin(t, r) PROVE BestSoFar'
  <2>1. tx'[t].pc = "version" BY <1>2 DEF Begin, Inv, RowsTyped
  <2>2. ~OnMap(t)' BY <2>1 DEF OnMap
  <2> QED BY <1>2, <2>2, BeginHeld, BestElsewhere DEF Begin, tables
<1>3. ASSUME NEW t \in Txs, Statement(t) PROVE BestSoFar'
  <2>1. CASE UpsertVersion(t)
    <3>1. tx'[t].pc = "map" BY <2>1, Moved DEF UpsertVersion, Steps, Inv
    <3>2. ~OnMap(t)' BY <3>1 DEF OnMap
    <3>3. Others(t) BY <2>1, UpsertHeld
    <3> QED BY <2>1, <3>2, <3>3, BestElsewhere DEF UpsertVersion, tables
  <2>2. CASE UpsertMap(t)
    <3>1. Others(t) /\ BestOf(t)' BY <2>2, UpsertHeld, BestOpened
    <3> QED BY <2>2, <3>1, BestElsewhere DEF UpsertMap, tables
  <2>3. CASE UpsertPlayer(t)
    <3>1. /\ tx'[t].pc = "canon" /\ tx[t].pc = "player" /\ tx'[t].req = tx[t].req /\ tx'[t].at = tx[t].at
          /\ UNCHANGED <<race, nextId, newest, commits, work>>
      BY <2>3, Moved DEF UpsertPlayer, Steps, Inv, tables
    <3>2. Through(t)' = Through(t) /\ OnMap(t) /\ OnMap(t)' BY <3>1 DEF Through, OnMap
    <3>3. Others(t) /\ BestOf(t)' BY <2>3, <3>1, <3>2, UpsertHeld, BestKept
    <3> QED BY <3>1, <3>3, BestElsewhere
  <2>4. CASE ReadCanonical(t) \/ ClaimCanonical(t)
    <3>1. /\ work'[t].race = work[t].race /\ work'[t].gone = work[t].gone /\ work'[t].nextId = work[t].nextId
          /\ tx'[t].pc \in {"claim", "entry"} /\ tx'[t].req = tx[t].req /\ tx'[t].at = tx[t].at
          /\ tx[t].pc \in {"canon", "claim"} /\ UNCHANGED <<race, nextId, newest, commits>> /\ Others(t)
      BY <2>4, CanonicalHeld DEF tables
    <3>2. Through(t)' = Through(t) /\ OnMap(t) /\ OnMap(t)' BY <3>1 DEF Through, OnMap
    <3>3. BestOf(t)' BY <3>1, <3>2, BestKept
    <3> QED BY <3>1, <3>3, BestElsewhere
  <2>5. CASE CountEntry(t) BY <2>5, CountHeld, BestAfterCount, BestElsewhere DEF tables
  <2>6. CASE NextRaceId(t) BY <2>6, InsertHeld, BestAfterInsert, BestElsewhere DEF tables
  <2>7. CASE RankMap(t) BY <2>7, RankHeld, BestAfterRank, BestElsewhere DEF tables
  <2>8. CASE Commit(t) BY <2>8, BestAfterCommit
  <2> QED BY <1>3, <2>1, <2>2, <2>3, <2>4, <2>5, <2>6, <2>7, <2>8 DEF Statement
<1>4. ASSUME NEW t \in Txs, Ends(t) PROVE BestSoFar'
  BY <1>4, EndHeld, BestElsewhere DEF tables
<1> QED BY <1>1, <1>2, <1>3, <1>4 DEF Next, Ends

\* For every player, map and version the table holds one row exactly when a
\* finish was committed, with the best time committed: no ingest overwrites a
\* better time it did not see (the comparison and the upsert of _ingestTx run
\* under the map row's lock).
THEOREM BestAlwaysOnRecord == Spec => []BestOnRecord
<1>1. Init => BestSoFar
  <2> SUFFICES ASSUME Init PROVE BestSoFar OBVIOUS
  <2>1. race = {} /\ Committed = {} /\ \A t \in Txs : ~OnMap(t) BY DEF Init, Committed, OnMap, Idle
  <2> QED BY <2>1 DEF BestSoFar, Best, TimesOf
<1>2. Inv /\ [Next]_vars => Inv' BY StepHeld, StepTables DEF Inv
<1>3. Inv /\ BestSoFar /\ [Next]_vars => BestSoFar' BY StepBest
<1>4. ASSUME Inv, BestSoFar PROVE BestOnRecord
  <2> SUFFICES ASSUME NEW k \in RunKeys
               PROVE  LET rows == {r \in race : r.run = k}
                      IN /\ (rows = {}) <=> (TimesOf(k) = {})
                         /\ \A r \in rows : rows = {r} /\ r.time = Min(TimesOf(k))
    BY DEF BestOnRecord
  <2> DEFINE rows == {r \in race : r.run = k}  T == TimesOf(k)
  <2>1. Best(race, k, T) BY <1>4 DEF BestSoFar
  <2>2. T \in SUBSET Nat BY TimesTyped
  <2>3. (rows = {}) <=> (T = {})
    <3> HIDE DEF T
    <3> QED BY <2>1 DEF Best
  <2>4. ASSUME NEW r \in rows PROVE rows = {r} /\ r.time = Min(T)
    <3>1. rows = {r} BY <1>4 DEF Inv, TablesSound, Table
    <3>2. r.time \in T /\ \A x \in T : r.time <= x BY <2>1 DEF Best
    <3> HIDE DEF T
    <3>3. ASSUME NEW y \in T, \A x \in T : y <= x PROVE y = r.time
      <4>1. y <= r.time /\ r.time <= y BY <3>2, <3>3
      <4>2. y \in Nat /\ r.time \in Nat BY <2>2, <3>2
      <4> QED BY <4>1, <4>2
    <3>4. Min(T) = r.time
      <4>1. Min(T) \in T /\ \A x \in T : Min(T) <= x BY <3>2 DEF Min
      <4> QED BY <3>3, <4>1
    <3> QED BY <3>1, <3>4
  <2> QED BY <2>3, <2>4
<1> QED BY InitSound, <1>1, <1>2, <1>3, <1>4, PTL DEF Spec

-----------------------------------------------------------------------------
(* The counts.                                                             *)

\* Finitely many run keys.
LEMMA KeysFinite == IsFiniteSet(RunKeys)
  BY IngestAssumption, TripleFinite DEF IngestAssumption, RunKeys

\* A request brings finitely many entries for a run key, with numbers in them.
LEMMA EntriesTyped ==
  ASSUME NEW r \in Reqs, NEW k
  PROVE  /\ Len(Request[r].entries) \in Nat /\ IsFiniteSet(EntriesOf(r, k))
         /\ \A i \in EntriesOf(r, k) :
              i \in 1..Len(Request[r].entries) /\ Request[r].entries[i].count \in Nat /\ Request[r].entries[i].time \in Nat
<1> DEFINE E == [player : Players, time : Nat, count : Nat]  es == Request[r].entries
<1>1. es \in Seq(E) BY IngestAssumption DEF IngestAssumption
<1>2. \A i \in EntriesOf(r, k) : i \in 1..Len(es) BY DEF EntriesOf
<1> HIDE DEF E, es
<1>3. Len(es) \in Nat /\ \A i \in 1..Len(es) : es[i] \in E BY <1>1
<1>4. IsFiniteSet(1..Len(es)) BY <1>3, FS_Interval
<1>5. IsFiniteSet(EntriesOf(r, k)) BY <1>2, <1>4, FS_Subset
<1>6. \A i \in 1..Len(es) : es[i].count \in Nat /\ es[i].time \in Nat BY <1>3 DEF E
<1> QED BY <1>2, <1>3, <1>5, <1>6 DEF es

\* Counts are natural numbers.
LEMMA CountTyped ==
  ASSUME NEW r \in Reqs, NEW k, NEW n
  PROVE  CountOf(r, k, n) \in Nat /\ FinishesOf(r, k, n) \in Nat
<1> DEFINE E == EntriesOf(r, k)  A == {i \in E : i <= n}
           B == {i \in E : i <= n /\ Request[r].entries[i].time # NoTime}
           c == [i \in E |-> Request[r].entries[i].count]
<1>1. IsFiniteSet(E) /\ \A i \in E : c[i] \in Nat BY EntriesTyped
<1> HIDE DEF E, c
<1>2. IsFiniteSet(A) /\ IsFiniteSet(B) BY <1>1, FS_Subset
<1>3. \A i \in A : c[i] \in Nat BY <1>1
<1> HIDE DEF A, B
<1>4. SumFunctionOnSet(c, A) \in Nat /\ Cardinality(B) \in Nat BY <1>2, <1>3, SumNat, FS_CardinalityType
<1> QED BY <1>4 DEF CountOf, FinishesOf, A, B, c, E

\* Before the first entry there is nothing to count.
LEMMA CountNone ==
  ASSUME NEW r \in Reqs, NEW k
  PROVE  CountOf(r, k, 0) = 0 /\ FinishesOf(r, k, 0) = 0
<1> DEFINE A == {i \in EntriesOf(r, k) : i <= 0}
           B == {i \in EntriesOf(r, k) : i <= 0 /\ Request[r].entries[i].time # NoTime}
           c == [i \in EntriesOf(r, k) |-> Request[r].entries[i].count]
<1>1. A = {} /\ B = {} BY EntriesTyped
<1> HIDE DEF A, B, c
<1>2. SumFunctionOnSet(c, A) = 0 /\ Cardinality(B) = 0 BY <1>1, FS_EmptySet, SumStep
<1> QED BY <1>2 DEF CountOf, FinishesOf, A, B, c

\* The nth entry adds its own.
LEMMA CountMore ==
  ASSUME NEW r \in Reqs, NEW k, NEW n \in 1..Len(Request[r].entries)
  PROVE  /\ CountOf(r, k, n) = CountOf(r, k, n - 1)
              + (IF n \in EntriesOf(r, k) THEN Request[r].entries[n].count ELSE 0)
         /\ FinishesOf(r, k, n) = FinishesOf(r, k, n - 1)
              + (IF n \in EntriesOf(r, k) /\ Request[r].entries[n].time # NoTime THEN 1 ELSE 0)
<1> DEFINE E == EntriesOf(r, k)  es == Request[r].entries
           A(m) == {i \in E : i <= m}
           B(m) == {i \in E : i <= m /\ es[i].time # NoTime}
           c == [i \in E |-> es[i].count]
<1>0. CountOf(r, k, n) = SumFunctionOnSet(c, A(n)) /\ CountOf(r, k, n - 1) = SumFunctionOnSet(c, A(n - 1))
      /\ FinishesOf(r, k, n) = Cardinality(B(n)) /\ FinishesOf(r, k, n - 1) = Cardinality(B(n - 1))
  BY DEF CountOf, FinishesOf
<1>1. IsFiniteSet(E) /\ (\A i \in E : i \in Nat /\ c[i] \in Nat /\ c[i] = es[i].count) /\ n \in Nat BY EntriesTyped
<1>2. CountOf(r, k, n - 1) \in Nat /\ FinishesOf(r, k, n - 1) \in Nat BY CountTyped
<1> HIDE DEF E, es, c
<1>3. IsFiniteSet(A(n - 1)) /\ IsFiniteSet(B(n - 1)) BY <1>1, FS_Subset
<1>4. n \notin A(n - 1) /\ n \notin B(n - 1) BY <1>1
<1>5. A(n) = IF n \in E THEN A(n - 1) \cup {n} ELSE A(n - 1) BY <1>1
<1>6. B(n) = IF n \in E /\ es[n].time # NoTime THEN B(n - 1) \cup {n} ELSE B(n - 1) BY <1>1
<1>7. \A i \in A(n - 1) : c[i] \in Nat BY <1>1
<1> HIDE DEF A, B
<1>8. SumFunctionOnSet(c, A(n)) = SumFunctionOnSet(c, A(n - 1)) + (IF n \in E THEN es[n].count ELSE 0)
  <2>1. CASE n \in E
    <3>1. \A i \in A(n - 1) \cup {n} : c[i] \in Nat BY <1>1, <1>7, <2>1
    <3>2. SumFunctionOnSet(c, A(n - 1) \cup {n}) = c[n] + SumFunctionOnSet(c, A(n - 1))
      BY <1>3, <1>4, <3>1, SumPut
    <3>3. SumFunctionOnSet(c, A(n - 1)) \in Nat BY <1>0, <1>2
    <3> QED BY <1>1, <1>5, <2>1, <3>2, <3>3
  <2>2. CASE n \notin E
    <3>1. SumFunctionOnSet(c, A(n - 1)) \in Nat BY <1>0, <1>2
    <3> QED BY <1>5, <2>2, <3>1
  <2> QED BY <2>1, <2>2
<1>9. Cardinality(B(n)) = Cardinality(B(n - 1)) + (IF n \in E /\ es[n].time # NoTime THEN 1 ELSE 0)
  <2>1. Cardinality(B(n - 1)) \in Nat BY <1>0, <1>2
  <2>2. CASE n \in E /\ es[n].time # NoTime
    <3>1. Cardinality(B(n - 1) \cup {n}) = Cardinality(B(n - 1)) + 1 BY <1>3, <1>4, FS_AddElement
    <3> QED BY <1>6, <2>2, <3>1
  <2>3. CASE ~(n \in E /\ es[n].time # NoTime) BY <1>6, <2>1, <2>3
  <2> QED BY <2>2, <2>3
<1> QED BY <1>0, <1>8, <1>9 DEF E, es

\* what c deliveries of each live request bring, of which one brings per[r]
InAll(c, per) == SumFunctionOnSet([q \in LiveReqs |-> c[q] * per[q]], LiveReqs)
\* One more committed delivery of a live request adds what the request has.
LEMMA OneMoreDelivery ==
  ASSUME NEW c, NEW d, \A q \in Reqs : c[q] \in Nat /\ d[q] \in Nat,
         NEW r \in Reqs, d[r] = c[r] + 1, \A q \in Reqs : q # r => d[q] = c[q],
         NEW per, \A q \in Reqs : per[q] \in Nat
  PROVE  InAll(d, per) = InAll(c, per) + (IF r \in LiveReqs THEN per[r] ELSE 0)
<1> DEFINE f == [q \in LiveReqs |-> c[q] * per[q]]  g == [q \in LiveReqs |-> d[q] * per[q]]
<1>1. IsFiniteSet(LiveReqs) /\ LiveReqs \in SUBSET Reqs BY IngestAssumption, FS_Subset DEF IngestAssumption, LiveReqs
<1>2. d[r] = c[r] + 1 /\ \A q \in Reqs \ {r} : d[q] = c[q] OBVIOUS
<1>3. \A m, n \in Nat : m * n \in Nat OBVIOUS
<1>4. \A q \in LiveReqs : f[q] \in Nat /\ g[q] \in Nat
  <2>1. \A q \in LiveReqs : c[q] \in Nat /\ d[q] \in Nat /\ per[q] \in Nat BY <1>1, <1>2
  <2>2. \A q \in LiveReqs : f[q] = c[q] * per[q] /\ g[q] = d[q] * per[q] OBVIOUS
  <2> QED BY <1>3, <2>1, <2>2
<1>5. SumFunctionOnSet(f, LiveReqs) \in Nat BY <1>1, <1>4, SumNat
<1>6. CASE r \in LiveReqs
  <2>1. \A q \in LiveReqs \ {r} : f[q] = g[q] BY <1>1, <1>2
  <2>2. g[r] = f[r] + per[r]
    <3>1. \A m, n \in Nat : (m + 1) * n = m * n + n OBVIOUS
    <3>2. c[r] \in Nat /\ per[r] \in Nat OBVIOUS
    <3>3. f[r] = c[r] * per[r] /\ g[r] = (c[r] + 1) * per[r] BY <1>2, <1>6
    <3> HIDE DEF f, g
    <3> QED BY <3>1, <3>2, <3>3
  <2> HIDE DEF f, g
  <2>3. SumFunctionOnSet(g, LiveReqs) + f[r] = SumFunctionOnSet(f, LiveReqs) + g[r]
    BY <1>1, <1>4, <1>6, <2>1, SumChange
  <2>4. SumFunctionOnSet(g, LiveReqs) \in Nat BY <1>1, <1>4, SumNat
  <2>5. f[r] \in Nat /\ per[r] \in Nat BY <1>4, <1>6
  <2>6. SumFunctionOnSet(g, LiveReqs) = SumFunctionOnSet(f, LiveReqs) + per[r] BY <1>5, <2>2, <2>3, <2>4, <2>5
  <2> QED BY <1>6, <2>6 DEF f, g, InAll
<1>7. CASE r \notin LiveReqs
  <2>1. \A q \in LiveReqs : f[q] = g[q] BY <1>1, <1>2, <1>7
  <2> HIDE DEF f, g
  <2>2. SumFunctionOnSet(f, LiveReqs) = SumFunctionOnSet(g, LiveReqs) BY <1>1, <2>1, SumSame
  <2> QED BY <1>5, <1>7, <2>2 DEF f, g, InAll
<1> QED BY <1>6, <1>7

\* Committed counts change with a commit only.
LEMMA DeliveriesKept ==
  ASSUME UNCHANGED commits PROVE \A k : Deliveries(k)' = Deliveries(k) /\ Finishes(k)' = Finishes(k)
  BY DEF Deliveries, Finishes

\* Another's notes stay with it.
LEMMA OthersNotes ==
  ASSUME NEW t \in Txs, Others(t), NEW u \in Txs \ {t}, NotesSound(u)
  PROVE  NotesSound(u)'
<1>1. tx'[u] = tx[u] /\ work'[u] = work[u] BY DEF Others
<1> QED BY <1>1 DEF NotesSound, OnMap, Req, Noted, Through

\* A step of t that commits nothing only has to keep t's notes.
LEMMA NotesElsewhere ==
  ASSUME CountInv, NEW t \in Txs, Others(t), UNCHANGED tables, UNCHANGED commits, NotesSound(t)'
  PROVE  CountInv'
<1>1. \A u \in Txs : NotesSound(u)' BY OthersNotes DEF CountInv
<1>2. CountedPerCommit' BY DeliveriesKept DEF CountInv, CountedPerCommit, tables
<1> QED BY <1>1, <1>2 DEF CountInv, tables

\* A statement that notes nothing and stays at its entry.
LEMMA NotesKept ==
  ASSUME NEW t \in Txs, NotesSound(t), OnMap(t), OnMap(t)', tx'[t].req = tx[t].req, Noted(t)' = Noted(t),
         work'[t].attempts = work[t].attempts, work'[t].finish = work[t].finish
  PROVE  NotesSound(t)'
  BY DEF NotesSound, Req

\* A transaction that has written nothing and holds no map has no notes.
LEMMA NoNotes ==
  ASSUME NEW t \in Txs, ~OnMap(t)', work'[t] = NoWork
  PROVE  NotesSound(t)'
  BY DEF NotesSound, NoWork

\* _resolvePlayer notes nothing.
LEMMA NotesAfterCanonical ==
  ASSUME Inv, CountInv, NEW t \in Txs, ReadCanonical(t) \/ ClaimCanonical(t)
  PROVE  NotesSound(t)'
<1>1. /\ tx'[t].pc \in {"claim", "entry"} /\ tx'[t].req = tx[t].req /\ tx'[t].at = tx[t].at
      /\ tx[t].pc \in {"canon", "claim"}
  BY CanonicalHeld
<1>2. OnMap(t) /\ OnMap(t)' /\ Noted(t)' = Noted(t) BY <1>1 DEF OnMap, Noted, Through
<1>3. work[t] \in Writes /\ work \in [Txs -> Writes] BY WorkTyped DEF Inv, RowsTyped
<1>4. work'[t].attempts = work[t].attempts /\ work'[t].finish = work[t].finish
  <2> DEFINE p == Entry(t).player  rep == SeenCanon(t, Key(t))  k == Key(t)
  <2>1. \/ UNCHANGED work
        \/ work' = [work EXCEPT ![t].group[p] = rep]
        \/ work' = [work EXCEPT ![t].canon[k] = p, ![t].group[p] = p]
    BY DEF ReadCanonical, ClaimCanonical
  <2> HIDE DEF p, rep, k
  <2>2. CASE UNCHANGED work BY <2>2
  <2>3. CASE work' = [work EXCEPT ![t].group[p] = rep]
    <3>1. work'[t] = [work[t] EXCEPT !.group[p] = rep] BY <1>3, <2>3
    <3> QED BY <1>3, <3>1 DEF Writes
  <2>4. CASE work' = [work EXCEPT ![t].canon[k] = p, ![t].group[p] = p]
    <3>1. work'[t] = [work[t] EXCEPT !.canon[k] = p, !.group[p] = p] BY <1>3, <2>4
    <3> QED BY <1>3, <3>1 DEF Writes
  <2> QED BY <2>1, <2>2, <2>3, <2>4
<1>5. NotesSound(t) BY DEF CountInv
<1> QED BY <1>1, <1>2, <1>4, <1>5, NotesKept

\* The statement that counts an entry notes that entry and no other.
LEMMA NotesAfterCount ==
  ASSUME Inv, CountInv, NEW t \in Txs, CountEntry(t)
  PROVE  NotesSound(t)'
<1> DEFINE e == Entry(t)  k == Run(t)  n == tx[t].at  q == tx[t].req  es == Request[q].entries
<1>1. tx[t].pc = "entry" /\ Asking(t) /\ OnMap(t) /\ RowsTyped /\ LocksHeld
  BY DEF CountEntry, Asking, OnMap, Inv
<1>2. e \in [player : Players, time : Nat, count : Nat] /\ k \in RunKeys BY <1>1, EntryTyped
<1>3. work[t] \in Writes /\ work \in [Txs -> Writes] BY <1>1, WorkTyped DEF RowsTyped
<1>4. q \in Reqs /\ n \in 1..Len(es) /\ n \in Nat /\ Len(es) \in Nat
  <2>1. n \in Nat \ {0} /\ q \in Reqs /\ Len(es) \in Nat /\ n <= Len(es) BY <1>1, OwnOf DEF Req
  <2> QED BY <2>1
<1>5. tx'[t].req = q /\ OnMap(t)' /\ Noted(t) = n - 1 /\ Noted(t)' = n
  <2>1. Noted(t) = n - 1 BY <1>1 DEF Noted, Through
  <2>2. CASE Goto(t, "counter")
    <3>1. tx'[t].pc = "counter" /\ tx'[t].req = q /\ tx'[t].at = n BY <1>1, <2>2, Moved DEF Steps
    <3> QED BY <2>1, <3>1 DEF Noted, OnMap
  <2>3. CASE NextEntry(t, work[t].race # {})
    <3>0. (work[t].race # {}) \in BOOLEAN OBVIOUS
    <3>1. /\ tx'[t].req = q
          /\ \/ tx'[t].pc = "player" /\ tx'[t].at = n + 1
             \/ tx'[t].pc \in {"rank", "commit"} /\ n = Len(es)
      BY <1>1, <2>3, <3>0, AfterEntry DEF Req
    <3>2. Noted(t)' = n BY <1>4, <3>1 DEF Noted, Through, Req
    <3> QED BY <2>1, <3>1, <3>2 DEF OnMap
  <2> QED BY <2>2, <2>3 DEF CountEntry
<1>6. Request[q].racelog \in BOOLEAN /\ Req(t) = Request[q] BY <1>4, IngestAssumption DEF IngestAssumption, Req
<1>7. /\ \A j \in RunKeys : work'[t].attempts[j] = IF Request[q].racelog /\ j = k THEN work[t].attempts[j] + e.count
                                                   ELSE work[t].attempts[j]
      /\ \A j \in RunKeys : work'[t].finish[j] = IF Request[q].racelog /\ j = k /\ e.time # NoTime
                                                 THEN Append(work[t].finish[j], e.time) ELSE work[t].finish[j]
  <2>1. CASE ~Request[q].racelog
    <3>1. work' = work BY <1>6, <2>1 DEF CountEntry
    <3> QED BY <2>1, <3>1
  <2>2. CASE Request[q].racelog
    <3> DEFINE a == work[t].attempts[k] + e.count
               f == IF e.time = NoTime THEN work[t].finish[k] ELSE Append(work[t].finish[k], e.time)
               w == [work[t] EXCEPT !.attempts[k] = a, !.finish[k] = f]
    <3>1. work' = [work EXCEPT ![t] = w] BY <1>3, <1>6, <2>2 DEF CountEntry, Writes
    <3> HIDE DEF a, f
    <3>2. w.attempts = [work[t].attempts EXCEPT ![k] = a] /\ w.finish = [work[t].finish EXCEPT ![k] = f]
      BY <1>3 DEF Writes
    <3> HIDE DEF w
    <3>3. work'[t] = w BY <1>3, <3>1
    <3>4. work[t].attempts \in [RunKeys -> Nat] /\ work[t].finish \in [RunKeys -> Seq(Nat)] BY <1>3 DEF Writes
    <3>5. \A j \in RunKeys : /\ work'[t].attempts[j] = IF j = k THEN a ELSE work[t].attempts[j]
                             /\ work'[t].finish[j] = IF j = k THEN f ELSE work[t].finish[j]
      BY <3>2, <3>3, <3>4
    <3> QED BY <2>2, <3>5 DEF a, f
  <2> QED BY <2>1, <2>2
<1>8. NotesSound(t) BY DEF CountInv
<1>9. ASSUME NEW j \in RunKeys
      PROVE  /\ work'[t].attempts[j] = IF Request[q].racelog THEN CountOf(q, j, n) ELSE 0
             /\ Len(work'[t].finish[j]) = IF Request[q].racelog THEN FinishesOf(q, j, n) ELSE 0
  <2>1. /\ work[t].attempts[j] = IF Request[q].racelog THEN CountOf(q, j, n - 1) ELSE 0
        /\ Len(work[t].finish[j]) = IF Request[q].racelog THEN FinishesOf(q, j, n - 1) ELSE 0
    BY <1>1, <1>5, <1>6, <1>8 DEF NotesSound
  <2>2. /\ CountOf(q, j, n) = CountOf(q, j, n - 1) + (IF n \in EntriesOf(q, j) THEN es[n].count ELSE 0)
        /\ FinishesOf(q, j, n) = FinishesOf(q, j, n - 1)
             + (IF n \in EntriesOf(q, j) /\ es[n].time # NoTime THEN 1 ELSE 0)
    BY <1>4, CountMore
  <2>3. CountOf(q, j, n - 1) \in Nat /\ FinishesOf(q, j, n - 1) \in Nat BY <1>4, CountTyped
  <2>4. n \in EntriesOf(q, j) <=> j = k BY <1>4 DEF EntriesOf, Run, Entry, Req
  <2>5. es[n] = e BY DEF Entry, Req
  <2>6. work[t].finish[j] \in Seq(Nat) BY <1>3 DEF Writes
  <2>7. e.count \in Nat /\ e.time \in Nat BY <1>2
  <2> HIDE DEF e, k, n, q, es
  <2>8. Len(Append(work[t].finish[j], e.time)) = Len(work[t].finish[j]) + 1 BY <2>6, <2>7
  <2>9. CASE ~Request[q].racelog BY <1>7, <2>1, <2>9
  <2>10. CASE Request[q].racelog /\ j # k BY <1>7, <2>1, <2>2, <2>3, <2>4, <2>10
  <2>11. CASE Request[q].racelog /\ j = k
    <3>1. work'[t].attempts[j] = CountOf(q, j, n) BY <1>7, <2>1, <2>2, <2>4, <2>5, <2>11
    <3>2. Len(work'[t].finish[j]) = FinishesOf(q, j, n)
      <4>1. Len(work[t].finish[j]) = FinishesOf(q, j, n - 1) BY <2>1, <2>11
      <4>2. FinishesOf(q, j, n) = FinishesOf(q, j, n - 1) + (IF e.time # NoTime THEN 1 ELSE 0)
        BY <2>2, <2>4, <2>5, <2>11
      <4>3. work'[t].finish[j] = IF e.time # NoTime THEN Append(work[t].finish[j], e.time) ELSE work[t].finish[j]
        BY <1>7, <2>11
      <4> QED BY <2>3, <2>8, <4>1, <4>2, <4>3
    <3> QED BY <2>11, <3>1, <3>2
  <2> QED BY <2>9, <2>10, <2>11
<1>10. Req(t)' = Request[q] BY <1>5 DEF Req
<1> QED BY <1>5, <1>9, <1>10 DEF NotesSound

\* Writing the race row notes nothing; the entry is done.
LEMMA NotesAfterInsert ==
  ASSUME Inv, CountInv, NEW t \in Txs, NextRaceId(t)
  PROVE  NotesSound(t)'
<1>1. tx[t].pc = "counter" /\ work'[t] = InsertRow(t, SeenNextId(t)) /\ NextEntry(t, TRUE)
  BY InsertHeld DEF NextRaceId
<1>2. Asking(t) /\ OnMap(t) /\ RowsTyped /\ LocksHeld BY <1>1 DEF Asking, OnMap, Inv
<1>3. work[t] \in Writes BY <1>2, WorkTyped
<1>4. work'[t].attempts = work[t].attempts /\ work'[t].finish = work[t].finish
  BY <1>1, <1>3 DEF InsertRow, Writes
<1>5. tx[t].at \in Nat /\ Len(Req(t).entries) \in Nat BY <1>2, OwnOf
<1>6. /\ tx'[t].req = tx[t].req
      /\ \/ tx'[t].pc = "player" /\ tx'[t].at = tx[t].at + 1
         \/ tx'[t].pc = "rank" /\ tx[t].at = Len(Req(t).entries)
  BY <1>1, <1>2, AfterEntry
<1>7. Noted(t) = tx[t].at /\ Noted(t)' = tx[t].at BY <1>1, <1>5, <1>6 DEF Noted, Through, Req
<1>8. OnMap(t)' BY <1>6 DEF OnMap
<1>9. NotesSound(t) BY DEF CountInv
<1> QED BY <1>2, <1>4, <1>6, <1>7, <1>8, <1>9, NotesKept

\* Ranking notes nothing; all entries are done.
LEMMA NotesAfterRank ==
  ASSUME Inv, CountInv, NEW t \in Txs, RankMap(t)
  PROVE  NotesSound(t)'
<1>1. tx[t].pc = "rank" /\ tx'[t].pc = "commit" /\ tx'[t].req = tx[t].req BY RankHeld
<1>2. OnMap(t) /\ OnMap(t)' /\ Noted(t)' = Noted(t) BY <1>1 DEF OnMap, Noted, Through, Req
<1>3. work[t] \in Writes /\ work \in [Txs -> Writes] BY WorkTyped DEF Inv, RowsTyped
<1>4. work'[t].attempts = work[t].attempts /\ work'[t].finish = work[t].finish
  <2> DEFINE R == Ranked({r \in SeenRace(t) : r.run[2] = Req(t).map})
  <2>1. work' = [work EXCEPT ![t].race = R] BY DEF RankMap
  <2> HIDE DEF R
  <2>2. work'[t] = [work[t] EXCEPT !.race = R] BY <1>3, <2>1
  <2> QED BY <1>3, <2>2 DEF Writes
<1>5. NotesSound(t) BY DEF CountInv
<1> QED BY <1>1, <1>2, <1>4, <1>5, NotesKept

\* A commit adds t's notes to the tables: one delivery more of its request.
LEMMA CountAfterCommit ==
  ASSUME Inv, CountInv, NEW t \in Txs, Commit(t)
  PROVE  CountInv'
<1> DEFINE q == tx[t].req  n == Len(Request[q].entries)  a == work[t].attempts  f == work[t].finish
<1>1. /\ tx[t].pc = "commit" /\ Others(t) /\ work'[t] = NoWork /\ tx'[t].pc = "reply"
      /\ commits' = [commits EXCEPT ![q] = @ + 1]
  BY CommitHeld DEF Commit
<1>2. OnMap(t) /\ ~OnMap(t)' /\ RowsTyped BY <1>1 DEF OnMap, Inv
<1>3. q \in Reqs /\ n \in Nat /\ Noted(t) = n BY <1>1, <1>2, OwnOf DEF Noted, Through, Req
<1>4. work[t] \in Writes /\ commits \in [Reqs -> Nat] BY <1>2, WorkTyped DEF RowsTyped
<1>5. a \in [RunKeys -> Nat] /\ f \in [RunKeys -> Seq(Nat)] BY <1>4 DEF Writes
<1>6. /\ attempts' = [k \in RunKeys |-> attempts[k] + a[k]]
      /\ finish' = [k \in RunKeys |-> finish[k] \o f[k]]
      /\ daily' = daily + Total(a)
  BY DEF Commit
<1>7. /\ finish \in [RunKeys -> Seq(Nat)] /\ attempts \in [RunKeys -> Nat] /\ daily \in Nat
      /\ CountedPerCommit /\ NotesSound(t)
  BY DEF CountInv
<1>8. \A k \in RunKeys : /\ a[k] = IF q \in LiveReqs THEN CountOf(q, k, n) ELSE 0
                         /\ Len(f[k]) = IF q \in LiveReqs THEN FinishesOf(q, k, n) ELSE 0
  BY <1>2, <1>3, <1>7 DEF NotesSound, LiveReqs, Req
<1>9. \A u \in Txs : NotesSound(u)'
  <2>1. NotesSound(t)' BY <1>1, <1>2, NoNotes
  <2> QED BY <1>1, <2>1, OthersNotes DEF CountInv
<1>10. ASSUME NEW k
       PROVE  /\ Deliveries(k)' = Deliveries(k) + (IF q \in LiveReqs THEN CountOf(q, k, n) ELSE 0)
              /\ Finishes(k)' = Finishes(k) + (IF q \in LiveReqs THEN FinishesOf(q, k, n) ELSE 0)
  <2> DEFINE per == [r \in Reqs |-> CountOf(r, k, Len(Request[r].entries))]
             fin == [r \in Reqs |-> FinishesOf(r, k, Len(Request[r].entries))]
             d == commits'
  <2>1. \A r \in Reqs : per[r] \in Nat /\ fin[r] \in Nat BY CountTyped
  <2>2. LiveReqs \in SUBSET Reqs BY DEF LiveReqs
  <2>3. [r \in LiveReqs |-> commits[r] * CountOf(r, k, Len(Request[r].entries))] = [r \in LiveReqs |-> commits[r] * per[r]]
    BY <2>2
  <2>4. [r \in LiveReqs |-> d[r] * CountOf(r, k, Len(Request[r].entries))] = [r \in LiveReqs |-> d[r] * per[r]]
    BY <2>2
  <2>5. [r \in LiveReqs |-> commits[r] * FinishesOf(r, k, Len(Request[r].entries))] = [r \in LiveReqs |-> commits[r] * fin[r]]
    BY <2>2
  <2>6. [r \in LiveReqs |-> d[r] * FinishesOf(r, k, Len(Request[r].entries))] = [r \in LiveReqs |-> d[r] * fin[r]]
    BY <2>2
  <2>7. per[q] = CountOf(q, k, n) /\ fin[q] = FinishesOf(q, k, n) BY <1>3
  <2> HIDE DEF per, fin, q, n
  <2>8. PICK e : e = d OBVIOUS
  <2>9. /\ \A r \in Reqs : commits[r] \in Nat /\ e[r] \in Nat
        /\ e[q] = commits[q] + 1 /\ \A r \in Reqs : r # q => e[r] = commits[r]
    BY <1>1, <1>3, <1>4, <2>8
  <2>10. InAll(e, per) = InAll(commits, per) + (IF q \in LiveReqs THEN per[q] ELSE 0)
    BY <1>3, <2>1, <2>9, OneMoreDelivery
  <2>11. InAll(e, fin) = InAll(commits, fin) + (IF q \in LiveReqs THEN fin[q] ELSE 0)
    BY <1>3, <2>1, <2>9, OneMoreDelivery
  <2>12. Deliveries(k) = InAll(commits, per)
         /\ Finishes(k) = InAll(commits, fin)
    BY <2>3, <2>5 DEF Deliveries, Finishes, InAll
  <2>13. Deliveries(k)' = InAll(d, per)
         /\ Finishes(k)' = InAll(d, fin)
    BY <2>4, <2>6 DEF Deliveries, Finishes, InAll
  <2> QED BY <2>7, <2>8, <2>10, <2>11, <2>12, <2>13
<1> HIDE DEF q, n, a, f
<1>11. attempts' \in [RunKeys -> Nat] /\ finish' \in [RunKeys -> Seq(Nat)] BY <1>5, <1>6, <1>7
<1>12. ASSUME NEW k \in RunKeys PROVE attempts'[k] = Deliveries(k)' /\ Len(finish'[k]) = Finishes(k)'
  <2>1. attempts[k] = Deliveries(k) /\ Len(finish[k]) = Finishes(k) BY <1>7 DEF CountedPerCommit
  <2>2. attempts'[k] = attempts[k] + a[k] /\ finish'[k] = finish[k] \o f[k] BY <1>6
  <2>3. finish[k] \in Seq(Nat) /\ f[k] \in Seq(Nat) BY <1>5, <1>7
  <2>4. Len(finish'[k]) = Len(finish[k]) + Len(f[k]) BY <2>2, <2>3
  <2> QED BY <1>8, <1>10, <2>1, <2>2, <2>4
<1>13. daily' \in Nat /\ daily' = Total(attempts')
  <2>1. Total(a) \in Nat /\ Total(attempts) \in Nat BY <1>5, <1>7, KeysFinite, SumNat DEF Total
  <2>2. PICK b : b = attempts' OBVIOUS
  <2>3. \A k \in RunKeys : attempts[k] \in Nat /\ a[k] \in Nat /\ b[k] = attempts[k] + a[k]
    BY <1>5, <1>6, <1>7, <2>2
  <2>4. Total(b) = Total(attempts) + Total(a) BY <2>3, KeysFinite, SumPlus DEF Total
  <2>5. Total(attempts') = Total(b) BY <2>2
  <2> QED BY <1>6, <1>7, <2>1, <2>4, <2>5 DEF CountedPerCommit
<1>14. CountedPerCommit' BY <1>12, <1>13 DEF CountedPerCommit, Total
<1> QED BY <1>9, <1>11, <1>13, <1>14 DEF CountInv

\* Every step keeps the counts.
LEMMA StepCount ==
  ASSUME Inv, CountInv, [Next]_vars
  PROVE  CountInv'
<1>1. CASE UNCHANGED vars
  <2>1. UNCHANGED <<tx, work, commits, finish, attempts, daily>> BY <1>1 DEF vars, tables
  <2>2. \A t \in Txs : NotesSound(t)'
    BY <2>1 DEF CountInv, NotesSound, OnMap, Req, Noted, Through
  <2>3. CountedPerCommit' BY <2>1, DeliveriesKept DEF CountInv, CountedPerCommit, Total
  <2> QED BY <2>1, <2>2, <2>3 DEF CountInv
<1>2. ASSUME NEW t \in Txs, NEW r \in Reqs, Begin(t, r) PROVE CountInv'
  <2>1. tx[t].pc = "idle" /\ tx'[t].pc = "version" /\ UNCHANGED <<tables, work, commits>> BY <1>2 DEF Begin, Inv, RowsTyped
  <2>2. ~OnMap(t) /\ ~OnMap(t)' BY <2>1 DEF OnMap
  <2>3. work'[t] = NoWork BY <2>1, <2>2 DEF Inv, LocksHeld, Holds
  <2>4. NotesSound(t)' BY <2>2, <2>3, NoNotes
  <2>5. Others(t) BY <1>2, BeginHeld
  <2> QED BY <2>1, <2>4, <2>5, NotesElsewhere
<1>3. ASSUME NEW t \in Txs, Statement(t) PROVE CountInv'
  <2>1. CASE UpsertVersion(t)
    <3>1. tx[t].pc = "version" /\ tx'[t].pc = "map" /\ UNCHANGED <<tables, work, commits>>
      BY <2>1, Moved DEF UpsertVersion, Steps, Inv
    <3>2. ~OnMap(t) /\ ~OnMap(t)' BY <3>1 DEF OnMap
    <3>3. work'[t] = NoWork BY <3>1, <3>2 DEF Inv, LocksHeld, Holds
    <3>4. NotesSound(t)' BY <3>2, <3>3, NoNotes
    <3>5. Others(t) BY <2>1, UpsertHeld
    <3> QED BY <3>1, <3>4, <3>5, NotesElsewhere
  <2>2. CASE UpsertMap(t)
    <3>1. tx[t].pc = "map" /\ UNCHANGED <<tables, work, commits>> /\ tx'[t].pc = "player" /\ tx'[t].req = tx[t].req
          /\ tx'[t].at = tx[t].at
      BY <2>2, Moved DEF UpsertMap, Steps, Inv
    <3>2. work'[t] = NoWork /\ tx'[t].at = 1 /\ tx[t].req \in Reqs
      BY <3>1 DEF Inv, LocksHeld, Holds, OnMap, InTx
    <3>3. Noted(t)' = 0 BY <3>1, <3>2 DEF Noted, Through
    <3>4. \A k \in RunKeys : CountOf(tx[t].req, k, 0) = 0 /\ FinishesOf(tx[t].req, k, 0) = 0 BY <3>2, CountNone
    <3>5. \A k \in RunKeys : NoWork.attempts[k] = 0 /\ Len(NoWork.finish[k]) = 0 BY DEF NoWork
    <3>6. NotesSound(t)' BY <3>1, <3>2, <3>3, <3>4, <3>5 DEF NotesSound
    <3>7. Others(t) BY <2>2, UpsertHeld
    <3> QED BY <3>1, <3>6, <3>7, NotesElsewhere
  <2>3. CASE UpsertPlayer(t)
    <3>1. /\ tx'[t].pc = "canon" /\ tx[t].pc = "player" /\ tx'[t].req = tx[t].req /\ tx'[t].at = tx[t].at
          /\ UNCHANGED <<tables, work, commits>>
      BY <2>3, Moved DEF UpsertPlayer, Steps, Inv
    <3>2. Noted(t)' = Noted(t) /\ OnMap(t) /\ OnMap(t)' BY <3>1 DEF Noted, Through, OnMap
    <3>3. NotesSound(t) BY DEF CountInv
    <3>4. NotesSound(t)' BY <3>1, <3>2, <3>3, NotesKept
    <3>5. Others(t) BY <2>3, UpsertHeld
    <3> QED BY <3>1, <3>4, <3>5, NotesElsewhere
  <2>4. CASE ReadCanonical(t) \/ ClaimCanonical(t) BY <2>4, CanonicalHeld, NotesAfterCanonical, NotesElsewhere
  <2>5. CASE CountEntry(t) BY <2>5, CountHeld, NotesAfterCount, NotesElsewhere
  <2>6. CASE NextRaceId(t) BY <2>6, InsertHeld, NotesAfterInsert, NotesElsewhere
  <2>7. CASE RankMap(t) BY <2>7, RankHeld, NotesAfterRank, NotesElsewhere
  <2>8. CASE Commit(t) BY <2>8, CountAfterCommit
  <2> QED BY <1>3, <2>1, <2>2, <2>3, <2>4, <2>5, <2>6, <2>7, <2>8 DEF Statement
<1>4. ASSUME NEW t \in Txs, Ends(t) PROVE CountInv'
  BY <1>4, EndHeld, NoNotes, NotesElsewhere
<1> QED BY <1>1, <1>2, <1>3, <1>4 DEF Next, Ends

\* Each committed delivery of a live request is counted exactly once, in the
\* tally, in the finish log and in the day's bucket (_ingestTx, bumpTally): no
\* update of a concurrent replica is lost, and a try that was rolled back, or
\* aborted by PostgreSQL and retried, leaves nothing behind.
THEOREM CountedOnce == Spec => []CountedPerCommit
<1>1. Init => CountInv
  <2> SUFFICES ASSUME Init PROVE CountInv OBVIOUS
  <2>1. /\ commits = [r \in Reqs |-> 0] /\ finish = [k \in RunKeys |-> <<>>] /\ attempts = [k \in RunKeys |-> 0]
        /\ daily = 0 /\ \A t \in Txs : work[t] = NoWork /\ ~OnMap(t)
    BY DEF Init, OnMap, Idle
  <2>2. \A t \in Txs : NotesSound(t) BY <2>1 DEF NotesSound, NoWork
  <2>3. IsFiniteSet(LiveReqs) /\ LiveReqs \in SUBSET Reqs
    BY IngestAssumption, FS_Subset DEF IngestAssumption, LiveReqs
  <2>4. ASSUME NEW k PROVE Deliveries(k) = 0 /\ Finishes(k) = 0
    <3> DEFINE f == [r \in LiveReqs |-> commits[r] * CountOf(r, k, Len(Request[r].entries))]
               g == [r \in LiveReqs |-> commits[r] * FinishesOf(r, k, Len(Request[r].entries))]
    <3>1. \A m \in Nat : 0 * m = 0 OBVIOUS
    <3>2. \A r \in LiveReqs : f[r] = 0 /\ g[r] = 0
      <4>1. \A r \in LiveReqs : commits[r] = 0 /\ CountOf(r, k, Len(Request[r].entries)) \in Nat
                                /\ FinishesOf(r, k, Len(Request[r].entries)) \in Nat
        BY <2>1, <2>3, CountTyped
      <4> QED BY <3>1, <4>1
    <3> HIDE DEF f, g
    <3>3. SumFunctionOnSet(f, LiveReqs) = 0 /\ SumFunctionOnSet(g, LiveReqs) = 0 BY <2>3, <3>2, SumZero
    <3> QED BY <3>3 DEF Deliveries, Finishes, f, g
  <2>5. Total(attempts) = 0
    <3>1. \A k \in RunKeys : attempts[k] = 0 BY <2>1
    <3> QED BY <3>1, KeysFinite, SumZero DEF Total
  <2>6. CountedPerCommit BY <2>1, <2>4, <2>5 DEF CountedPerCommit
  <2> QED BY <2>1, <2>2, <2>6 DEF CountInv
<1>2. Inv /\ [Next]_vars => Inv' BY StepHeld, StepTables DEF Inv
<1>3. Inv /\ CountInv /\ [Next]_vars => CountInv' BY StepCount
<1>4. CountInv => CountedPerCommit BY DEF CountInv
<1> QED BY InitSound, <1>1, <1>2, <1>3, <1>4, PTL DEF Spec
=============================================================================
