------------------------------- MODULE Ingest -------------------------------
(***************************************************************************)
(* POST /api/ingest: RaceDB.ingest, _ingestTx, _nextRaceId and             *)
(* _resolvePlayer (web/db.js), run concurrently by the web replicas.       *)
(*                                                                         *)
(* One action per SQL statement that can wait for another transaction or   *)
(* read what another may still change.  PostgreSQL (external) is READ      *)
(* COMMITTED: a statement reads the committed tables with the              *)
(* transaction's own writes on top; INSERT ... ON CONFLICT DO UPDATE and   *)
(* SELECT FOR UPDATE lock a row until COMMIT or ROLLBACK; a cycle of       *)
(* waiters is broken by aborting one of them (40P01), which ingest()       *)
(* retries as a whole.  The client (the game's queue, the collector) sends *)
(* a request again when it gets no 200 for it.                             *)
(***************************************************************************)
EXTENDS Integers, FiniteSets, Sequences, Functions, FiniteSetsExt

CONSTANTS
  Txs,            \* pool connections that run ingests concurrently
  Reqs,           \* requests (names)
  Request,        \* their bodies: [version, map, racelog, entries]; an entry is
                  \* [player, time, count], time NoTime for an attempts[] entry
  Players, Maps, Versions,
  KeyOf,          \* canonKey of each player's name and login
  MaxAttempts,    \* tries of the transaction within one request (5)
  MaxRank,        \* the rank the announcer asks for
  MaxDeliveries,  \* bound: how often a client sends a request
  IdBound         \* bound: no instance allocates more ids

None == "none"
NoTime == 0
Unranked == 99999

CanonKeys == {KeyOf[p] : p \in Players}
RunKeys == Players \X Maps \X Versions

ASSUME IngestAssumption ==
  /\ {MaxAttempts, MaxRank, MaxDeliveries, IdBound} \subseteq Nat \ {0}
  /\ None \notin Txs \cup Reqs \cup Players \cup CanonKeys
  /\ IsFiniteSet(Reqs) /\ IsFiniteSet(Players) /\ IsFiniteSet(Maps) /\ IsFiniteSet(Versions)
  /\ \A r \in Reqs :
       /\ Request[r].version \in Versions /\ Request[r].map \in Maps
       /\ Request[r].racelog \in BOOLEAN
       /\ Request[r].entries # <<>>
       /\ Request[r].entries \in Seq([player : Players, time : Nat, count : Nat])
       /\ \A i \in 1..Len(Request[r].entries) :
            Request[r].entries[i].time = NoTime => Request[r].racelog

VARIABLES
  race,       \* table race: set of [id, run, time, grank, vrank]
  finish,     \* table finish: times logged per (player, map, version)
  attempts,   \* table run_tally: attempts per (player, map, version)
  daily,      \* table run_activity_daily: attempts of all servers
  canon,      \* table canonical: representative of each key
  group,      \* player.canonical_id
  nextId,     \* config.next_race_id
  lock,       \* row locks: holder or None
  tx,         \* per connection: [pc, req, at, tries]
  work,       \* per connection: its uncommitted writes
  client,     \* per request: "pending", "sent", "done"
  sends,      \* per request: deliveries so far
  commits,    \* history: committed deliveries per request
  newest      \* history: the greatest id ever committed

tables == <<race, finish, attempts, daily, canon, group, nextId>>
vars == <<race, finish, attempts, daily, canon, group, nextId, lock, tx, work,
          client, sends, commits, newest>>

Locks == ({"version"} \X Versions) \cup ({"map"} \X Maps)
         \cup ({"player"} \X Players) \cup ({"canonical"} \X CanonKeys)
         \cup {<<"config", "next_race_id">>}

Rows == [id : Nat, run : RunKeys, time : Nat, grank : Nat, vrank : Nat]

NoWork == [race |-> {}, gone |-> {}, finish |-> [k \in RunKeys |-> <<>>],
           attempts |-> [k \in RunKeys |-> 0],
           canon |-> [k \in CanonKeys |-> None],
           group |-> [p \in Players |-> None], nextId |-> 0]

Idle == [pc |-> "idle", req |-> None, at |-> 1, tries |-> 0]

Writes == [race : SUBSET Rows, gone : SUBSET Nat, finish : [RunKeys -> Seq(Nat)],
           attempts : [RunKeys -> Nat], canon : [CanonKeys -> Players \cup {None}],
           group : [Players -> Players \cup {None}], nextId : Nat]
Steps == {"idle", "version", "map", "player", "canon", "claim", "entry", "counter", "rank",
          "commit", "reply"}
TxStates == [pc : Steps, req : Reqs \cup {None}, at : Nat \ {0}, tries : 0..MaxAttempts]

(* Types of the tables, locks, transactions and client bookkeeping.        *)
RowsTyped ==
  /\ race \subseteq Rows /\ nextId \in Nat \ {0} /\ newest \in Nat
  /\ lock \in [Locks -> Txs \cup {None}]
  /\ tx \in [Txs -> TxStates]
  /\ work \in [Txs -> Writes]
  /\ canon \in [CanonKeys -> Players \cup {None}]
  /\ commits \in [Reqs -> Nat]
TypeOK ==
  /\ RowsTyped
  /\ finish \in [RunKeys -> Seq(Nat)]
  /\ attempts \in [RunKeys -> Nat] /\ daily \in Nat
  /\ group \in [Players -> Players \cup {None}]
  /\ client \in [Reqs -> {"pending", "sent", "done"}]
  /\ sends \in [Reqs -> 0..MaxDeliveries]

Init ==
  /\ race = {} /\ daily = 0 /\ nextId = 1
  /\ finish = [k \in RunKeys |-> <<>>] /\ attempts = [k \in RunKeys |-> 0]
  /\ canon = [k \in CanonKeys |-> None] /\ group = [p \in Players |-> None]
  /\ lock = [l \in Locks |-> None]
  /\ tx = [t \in Txs |-> Idle] /\ work = [t \in Txs |-> NoWork]
  /\ client = [r \in Reqs |-> "pending"] /\ sends = [r \in Reqs |-> 0]
  /\ commits = [r \in Reqs |-> 0] /\ newest = 0

-----------------------------------------------------------------------------
(* What a statement of transaction t sees, and which row it must lock.     *)

Req(t) == Request[tx[t].req]
Entry(t) == Req(t).entries[tx[t].at]
Run(t) == <<Entry(t).player, Req(t).map, Req(t).version>>
Key(t) == KeyOf[Entry(t).player]

SeenRace(t) == {r \in race : r.id \notin work[t].gone} \cup work[t].race
SeenCanon(t, k) == IF work[t].canon[k] # None THEN work[t].canon[k]
                                              ELSE canon[k]
SeenNextId(t) == IF work[t].nextId # 0 THEN work[t].nextId ELSE nextId

CounterLock == <<"config", "next_race_id">>

NoVersionLock(t) ==   \* mutant: a plain SELECT finds the existing version
  CASE tx[t].pc = "map"     -> <<"map", Req(t).map>>
    [] tx[t].pc = "player"  -> <<"player", Entry(t).player>>
    [] tx[t].pc = "claim"   -> <<"canonical", Key(t)>>
    [] tx[t].pc = "counter" -> CounterLock
    [] OTHER -> <<None, None>>
\* The row the statement at t's pc locks, if any.
Needs(t) ==
  CASE tx[t].pc = "version" -> <<"version", Req(t).version>>
    [] tx[t].pc = "map"     -> <<"map", Req(t).map>>
    [] tx[t].pc = "player"  -> <<"player", Entry(t).player>>
    [] tx[t].pc = "claim"   -> <<"canonical", Key(t)>>
    [] tx[t].pc = "counter" -> CounterLock
    [] OTHER -> <<None, None>>

WaitsFor(t, u) == /\ u # t
                  /\ Needs(t) \in Locks
                  /\ lock[Needs(t)] = u

Blocked(t) == \E u \in Txs : WaitsFor(t, u)

Acquire(t) ==
  /\ ~Blocked(t)
  /\ lock' = IF Needs(t) \in Locks THEN [lock EXCEPT ![Needs(t)] = t] ELSE lock

Goto(t, l) == tx' = [tx EXCEPT ![t].pc = l]

(* After an entry: the next one, else rank the map if a row was written.   *)
NextEntry(t, wrote) ==
  IF tx[t].at < Len(Req(t).entries)
  THEN tx' = [tx EXCEPT ![t].pc = "player", ![t].at = @ + 1]
  ELSE Goto(t, IF wrote THEN "rank" ELSE "commit")

-----------------------------------------------------------------------------
(* The request arrives (again): pool.connect, BEGIN.                       *)
Begin(t, r) ==
  /\ tx[t].pc = "idle" /\ client[r] = "pending" /\ sends[r] < MaxDeliveries
  /\ tx' = [tx EXCEPT ![t] = [pc |-> "version", req |-> r, at |-> 1,
                              tries |-> 1]]
  /\ client' = [client EXCEPT ![r] = "sent"]
  /\ sends' = [sends EXCEPT ![r] = @ + 1]
  /\ UNCHANGED <<tables, lock, work, commits, newest>>

\* INSERT INTO version ... ON CONFLICT DO UPDATE RETURNING id
UpsertVersion(t) ==
  /\ tx[t].pc = "version" /\ Acquire(t) /\ Goto(t, "map")
  /\ UNCHANGED <<tables, work, client, sends, commits, newest>>

\* INSERT INTO map ... ON CONFLICT DO UPDATE RETURNING id
UpsertMap(t) ==
  /\ tx[t].pc = "map" /\ Acquire(t) /\ Goto(t, "player")
  /\ UNCHANGED <<tables, work, client, sends, commits, newest>>

\* _resolvePlayer: INSERT INTO player ... ON CONFLICT DO UPDATE RETURNING id
UpsertPlayer(t) ==
  /\ tx[t].pc = "player" /\ Acquire(t) /\ Goto(t, "canon")
  /\ UNCHANGED <<tables, work, client, sends, commits, newest>>

\* _resolvePlayer: SELECT player_id FROM canonical, and what follows from it
ReadCanonical(t) ==
  LET p == Entry(t).player  rep == SeenCanon(t, Key(t))
  IN /\ tx[t].pc = "canon"
     /\ \/ rep = None /\ Goto(t, "claim") /\ UNCHANGED work
        \/ rep = p /\ Goto(t, "entry") /\ UNCHANGED work
        \/ /\ rep \notin {None, p} /\ Goto(t, "entry")
           /\ work' = [work EXCEPT ![t].group[p] = rep]
     /\ UNCHANGED <<tables, lock, client, sends, commits, newest>>

\* _resolvePlayer: INSERT INTO canonical ... DO UPDATE SET player_id
ClaimCanonical(t) ==
  LET p == Entry(t).player
  IN /\ tx[t].pc = "claim" /\ Acquire(t) /\ Goto(t, "entry")
     /\ work' = [work EXCEPT ![t].canon[Key(t)] = p, ![t].group[p] = p]
     /\ UNCHANGED <<tables, client, sends, commits, newest>>

Existing(t) == {r \in SeenRace(t) : r.run = Run(t)}
AnyTime(t) ==         \* mutant: every finish replaces the row
  Entry(t).time # NoTime
\* not (existing && existing.time <= rec.time)
Improves(t) ==
  /\ Entry(t).time # NoTime
  /\ \A r \in Existing(t) : r.time > Entry(t).time

(* bumpTally, the finish log (racelog only) and the comparison with the    *)
(* row on record.  The rows are the player's, whose lock t holds.          *)
CountEntry(t) ==
  LET e == Entry(t)  k == Run(t)
      counted == [work[t] EXCEPT
                    !.attempts[k] = @ + e.count,
                    !.finish[k] = IF e.time = NoTime THEN @
                                  ELSE Append(@, e.time)]
  IN /\ tx[t].pc = "entry"
     /\ work' = IF Req(t).racelog THEN [work EXCEPT ![t] = counted] ELSE work
     /\ IF Improves(t) THEN Goto(t, "counter")
                       ELSE NextEntry(t, work[t].race # {})
     /\ UNCHANGED <<tables, lock, client, sends, commits, newest>>

(* _nextRaceId (SELECT FOR UPDATE, then the increment) and the new row in  *)
(* place of the old one.                                                   *)
InsertRow(t, id) ==
  LET old == {r.id : r \in Existing(t)}
      row == [id |-> id, run |-> Run(t), time |-> Entry(t).time,
              grank |-> Unranked, vrank |-> Unranked]
  IN [work[t] EXCEPT
        !.race = {r \in @ : r.id \notin old} \cup {row},
        !.gone = @ \cup old,
        !.nextId = id + 1]
SequenceId(t) ==      \* mutant: a sequence, not the locked counter row
  /\ tx[t].pc = "counter"
  /\ work' = [work EXCEPT ![t] = [InsertRow(t, nextId) EXCEPT !.nextId = 0]]
  /\ nextId' = nextId + 1
  /\ NextEntry(t, TRUE)
  /\ UNCHANGED <<race, finish, attempts, daily, canon, group, lock, client,
                 sends, commits, newest>>
NextRaceId(t) ==
  /\ tx[t].pc = "counter" /\ Acquire(t)
  /\ work' = [work EXCEPT ![t] = InsertRow(t, SeenNextId(t))]
  /\ NextEntry(t, TRUE)
  /\ UNCHANGED <<tables, client, sends, commits, newest>>

(* UPDATE race SET global_rank, version_rank for every row of the map.     *)
Ranked(rows) ==
  LET better(r, s) == Cardinality({q \in s : q.time < r.time}) + 1
  IN {[r EXCEPT !.grank = better(r, rows),
                !.vrank = better(r, {q \in rows : q.run[3] = r.run[3]})]
        : r \in rows}

RankOwnRows(t) ==     \* mutant: only the request's rows are ranked
  /\ tx[t].pc = "rank" /\ Goto(t, "commit")
  /\ work' = [work EXCEPT ![t].race =
                {r \in Ranked({q \in SeenRace(t) : q.run[2] = Req(t).map}) :
                   r.id \in {q.id : q \in work[t].race}}]
  /\ UNCHANGED <<tables, lock, client, sends, commits, newest>>
RankMap(t) ==
  /\ tx[t].pc = "rank" /\ Goto(t, "commit")
  /\ work' = [work EXCEPT ![t].race =
                Ranked({r \in SeenRace(t) : r.run[2] = Req(t).map})]
  /\ UNCHANGED <<tables, lock, client, sends, commits, newest>>

-----------------------------------------------------------------------------
Total(f) == SumFunctionOnSet(f, RunKeys)

\* COMMIT and ROLLBACK release t's locks; any waiter may be next.
Release(t) == lock' = [l \in Locks |-> IF lock[l] = t THEN None ELSE lock[l]]

Commit(t) ==
  LET w == work[t]
      written == {r.id : r \in w.race} \cup w.gone
      r == tx[t].req
  IN /\ tx[t].pc = "commit" /\ Goto(t, "reply")
     /\ race' = {q \in race : q.id \notin written} \cup w.race
     /\ finish' = [k \in RunKeys |-> finish[k] \o w.finish[k]]
     /\ attempts' = [k \in RunKeys |-> attempts[k] + w.attempts[k]]
     /\ daily' = daily + Total(w.attempts)
     /\ canon' = [k \in CanonKeys |-> IF w.canon[k] # None THEN w.canon[k]
                                                          ELSE canon[k]]
     /\ group' = [p \in Players |-> IF w.group[p] # None THEN w.group[p]
                                                        ELSE group[p]]
     /\ nextId' = IF w.nextId # 0 THEN w.nextId ELSE nextId
     /\ Release(t) /\ work' = [work EXCEPT ![t] = NoWork]
     /\ commits' = [commits EXCEPT ![r] = @ + 1]
     /\ newest' = Max({newest} \cup {q.id : q \in w.race})
     /\ UNCHANGED <<client, sends>>

\* 200: the client forgets the request
Reply(t) ==
  /\ tx[t].pc = "reply"
  /\ tx' = [tx EXCEPT ![t] = Idle]
  /\ client' = [client EXCEPT ![tx[t].req] = "done"]
  /\ UNCHANGED <<tables, lock, work, sends, commits, newest>>

(* Committed, but the client learns nothing of it: touchServer fails (500), *)
(* the replica dies, the answer times out.                                  *)
ReplyLost(t) ==
  /\ tx[t].pc = "reply"
  /\ tx' = [tx EXCEPT ![t] = Idle]
  /\ client' = [client EXCEPT ![tx[t].req] = "pending"]
  /\ UNCHANGED <<tables, lock, work, sends, commits, newest>>

-----------------------------------------------------------------------------
InTx(t) == tx[t].pc \notin {"idle", "reply"}

LocksKept(t) ==       \* mutant: the connection goes back without ROLLBACK
  work' = [work EXCEPT ![t] = NoWork] /\ UNCHANGED lock
WritesKept(t) ==      \* mutant: the failed try's writes stay
  Release(t) /\ UNCHANGED work
Rollback(t) == Release(t) /\ work' = [work EXCEPT ![t] = NoWork]

\* The transaction fails for good: 500, and the client sends it again.
GiveUp(t) ==
  /\ tx' = [tx EXCEPT ![t] = Idle]
  /\ client' = [client EXCEPT ![tx[t].req] = "pending"]

\* A statement fails otherwise (connection lost, replica killed).
Abort(t) ==
  /\ InTx(t) /\ Rollback(t) /\ GiveUp(t)
  /\ UNCHANGED <<tables, sends, commits, newest>>

\* PostgreSQL: t is on a cycle of transactions that wait for each other.
OnCycle(t) ==
  \E C \in SUBSET Txs :
    /\ t \in C
    /\ \A u \in C : \E v \in C : WaitsFor(u, v)
    /\ \A v \in C : \E u \in C : WaitsFor(u, v)

\* RETRYABLE.has(e.code) && attempt < 5
Again(t) == tx[t].tries < MaxAttempts

Deadlock(t) ==
  /\ InTx(t) /\ OnCycle(t) /\ Rollback(t)
  /\ \/ /\ Again(t)
        /\ tx' = [tx EXCEPT ![t].pc = "version", ![t].at = 1,
                            ![t].tries = @ + 1]
        /\ UNCHANGED client
     \/ ~Again(t) /\ GiveUp(t)
  /\ UNCHANGED <<tables, sends, commits, newest>>

-----------------------------------------------------------------------------
Statement(t) == \/ UpsertVersion(t) \/ UpsertMap(t) \/ UpsertPlayer(t)
                \/ ReadCanonical(t) \/ ClaimCanonical(t) \/ CountEntry(t)
                \/ NextRaceId(t) \/ RankMap(t) \/ Commit(t)

Next == \E t \in Txs : \/ \E r \in Reqs : Begin(t, r)
                       \/ Statement(t) \/ Reply(t) \/ ReplyLost(t)
                       \/ Abort(t) \/ Deadlock(t)

Spec == Init /\ [][Next]_vars

(* A statement that is not waiting runs, a handler answers, and the        *)
(* server's deadlock_timeout fires.                                        *)
FairSpec == /\ Spec
            /\ \A t \in Txs : /\ WF_vars(Statement(t)) /\ WF_vars(Reply(t))
                              /\ WF_vars(Deadlock(t))

-----------------------------------------------------------------------------
Committed == {r \in Reqs : commits[r] > 0}

\* the entries of request r for a run key
EntriesOf(r, k) ==
  {i \in 1..Len(Request[r].entries) :
     k = <<Request[r].entries[i].player, Request[r].map, Request[r].version>>}

\* the times committed for a run key so far, from either feed
TimesOf(k) ==
  (UNION {{Request[r].entries[i].time : i \in EntriesOf(r, k)} : r \in Committed})
    \ {NoTime}

(* For every player, map and version the table holds one row exactly when  *)
(* a finish was committed, and its time is the best one committed.         *)
BestOnRecord ==
  \A k \in RunKeys :
    LET rows == {r \in race : r.run = k}
    IN /\ (rows = {}) <=> (TimesOf(k) = {})
       /\ \A r \in rows : /\ rows = {r} /\ r.time = Min(TimesOf(k))

(* The stored ranks are those of the committed table, after every commit   *)
(* of every interleaving: no ingest ranks a map it saw only part of.       *)
RanksExact ==
  \A m \in Maps : LET rows == {r \in race : r.run[2] = m}
                  IN rows = Ranked(rows)

\* what the first n entries of request r add for a run key: attempts and finishes
CountOf(r, k, n) ==
  SumFunctionOnSet([i \in EntriesOf(r, k) |-> Request[r].entries[i].count], {i \in EntriesOf(r, k) : i <= n})
FinishesOf(r, k, n) == Cardinality({i \in EntriesOf(r, k) : i <= n /\ Request[r].entries[i].time # NoTime})

\* the same over all committed deliveries of live requests
LiveReqs == {r \in Reqs : Request[r].racelog}
Deliveries(k) == SumFunctionOnSet([r \in LiveReqs |-> commits[r] * CountOf(r, k, Len(Request[r].entries))], LiveReqs)
Finishes(k) == SumFunctionOnSet([r \in LiveReqs |-> commits[r] * FinishesOf(r, k, Len(Request[r].entries))], LiveReqs)

(* Each committed delivery is counted exactly once - in the tally, in the  *)
(* finish log and in the day's bucket: no lost update between replicas,    *)
(* nothing left over from a try that was rolled back.                      *)
CountedPerCommit ==
  /\ \A k \in RunKeys : attempts[k] = Deliveries(k) /\ Len(finish[k]) = Finishes(k)
  /\ daily = Total(attempts)

(* What _resolvePlayer says: new identities join the existing group, "they *)
(* never seize it" - a key's representative, once committed, stays.        *)
NeverSeized ==
  [][\A k \in CanonKeys : canon[k] # None => canon'[k] = canon[k]]_vars

(* The version row orders all ingests of a game version: transactions     *)
(* that wait for each other in a cycle are of different versions, whatever *)
(* players, keys and maps their batches meet in whatever order.            *)
CyclesCrossVersions ==
  \A t, u \in Txs : t # u /\ OnCycle(t) /\ OnCycle(u)
                      => Req(t).version # Req(u).version

(* Every request that reaches a replica is answered: no wait, cycle of     *)
(* waits or retry lasts for ever.                                          *)
Answered == \A t \in Txs : InTx(t) ~> ~InTx(t)

(* Ingest implements the feed the announcer reads: ids become visible in   *)
(* increasing order, and a row once beaten never qualifies again.          *)
Feed == INSTANCE RaceFeed WITH
          MaxId <- IdBound, used <- newest,
          race <- {r.id : r \in race},
          top <- {r.id : r \in {q \in race : q.grank <= MaxRank}}
ImplementsFeed == Feed!FeedSpec

-----------------------------------------------------------------------------
(* ... and the inductive invariants behind them.  What a transaction holds *)
(* at each step: the version row and the map row until it ends, the        *)
(* counter row once it wrote a row.                                        *)
OnMap(t) == tx[t].pc \in {"player", "canon", "claim", "entry", "counter", "rank", "commit"}
Asking(t) == tx[t].pc \in {"player", "canon", "claim", "entry", "counter"}
Holds(t) ==
  /\ \A l \in Locks : lock[l] = t => tx[t].pc \notin {"idle", "version", "reply"}
  /\ InTx(t) => tx[t].req \in Reqs
  /\ InTx(t) /\ tx[t].pc # "version" => lock[<<"version", Req(t).version>>] = t
  /\ OnMap(t) => lock[<<"map", Req(t).map>>] = t
  /\ work[t].nextId # 0 => lock[CounterLock] = t
  /\ Asking(t) => tx[t].at <= Len(Req(t).entries)
  /\ tx[t].pc \in {"version", "map"} => tx[t].at = 1
  /\ ~OnMap(t) => work[t] = NoWork
LocksHeld == \A t \in Txs : Holds(t)

IdsOf(rows) == {r.id : r \in rows}
(* A table: ids below the counter, one row per id and per player, map and  *)
(* version.                                                                *)
Table(rows, next) ==
  /\ IsFiniteSet(rows)
  /\ \A r \in rows : r.id < next
  /\ \A r, q \in rows : r.id = q.id \/ r.run = q.run => r = q

\* the table as t would leave it, if it committed now
View(t) == {r \in race : r.id \notin work[t].gone \cup IdsOf(work[t].race)} \cup work[t].race

(* What t saw and wrote of the map it holds: all other maps are as         *)
(* committed, rows keep their identity, fresh ones take ids no committed   *)
(* row has, and a row goes only for a better one of the same player.       *)
ViewSound(t) ==
  /\ Table(View(t), SeenNextId(t))
  /\ work[t].nextId = 0 => work[t].race = {} /\ work[t].gone = {}
  /\ work[t].nextId # 0 => work[t].nextId > nextId /\ work[t].nextId - 1 \in IdsOf(work[t].race)
  /\ tx[t].pc = "rank" => work[t].nextId # 0
  /\ tx[t].pc # "commit" => \A r \in work[t].race : r.id >= nextId
  /\ \A r \in View(t) : r.id >= nextId \/ r.id \in IdsOf(race)
  /\ \A r \in View(t) \ race : r.run[2] = Req(t).map
  /\ \A q \in race :
       \/ q \in View(t)
       \/ /\ q.run[2] = Req(t).map
          /\ \E r \in View(t) : r.run = q.run /\ (r.time < q.time \/ (r.time = q.time /\ r.id = q.id))
  /\ \A r \in View(t), q \in race : r.id = q.id => r.run = q.run /\ r.time = q.time
  /\ tx[t].pc = "counter" =>
       Entry(t).time # NoTime /\ \A r \in View(t) : r.run = Run(t) => r.time > Entry(t).time
  /\ tx[t].pc = "commit" =>
       /\ \A m \in Maps : LET rows == {r \in View(t) : r.run[2] = m} IN rows = Ranked(rows)
       /\ \A r \in View(t), q \in race : r.id = q.id => r.grank >= q.grank
TablesSound ==
  /\ Table(race, nextId) /\ newest < nextId /\ RanksExact
  /\ \A t \in Txs : OnMap(t) => ViewSound(t)

\* the entries t is through with, and the times they brought for a run key
Through(t) == IF tx[t].pc \in {"rank", "commit"} THEN Len(Req(t).entries) ELSE tx[t].at - 1
OwnTimes(t, k) ==
  {Req(t).entries[i].time : i \in {j \in EntriesOf(tx[t].req, k) : j <= Through(t)}} \ {NoTime}

Best(rows, k, times) ==
  /\ (\A r \in rows : r.run # k) => times = {}
  /\ \A r \in rows : r.run = k => r.time \in times /\ \A x \in times : r.time <= x
BestSoFar ==
  /\ \A k \in RunKeys : Best(race, k, TimesOf(k))
  /\ \A t \in Txs : OnMap(t) =>
       \A k \in RunKeys : k[2] = Req(t).map => Best(View(t), k, TimesOf(k) \cup OwnTimes(t, k))

(* ... and why it is counted: a transaction has noted the entries it is    *)
(* through with, those of a live request only, and nothing once it ended.  *)
Noted(t) == IF tx[t].pc = "counter" THEN tx[t].at ELSE Through(t)
NotesSound(t) ==
  \A k \in RunKeys :
    /\ work[t].attempts[k] = IF OnMap(t) /\ Req(t).racelog THEN CountOf(tx[t].req, k, Noted(t)) ELSE 0
    /\ Len(work[t].finish[k]) = IF OnMap(t) /\ Req(t).racelog THEN FinishesOf(tx[t].req, k, Noted(t)) ELSE 0
CountInv ==
  /\ finish \in [RunKeys -> Seq(Nat)] /\ attempts \in [RunKeys -> Nat] /\ daily \in Nat
  /\ CountedPerCommit
  /\ \A t \in Txs : NotesSound(t)
=============================================================================
