--------------------------- MODULE ResponseCache ---------------------------
(***************************************************************************)
(* The response cache of the web service (web/cache.js) for one key - the  *)
(* topscores or ranks blob of one map - shared by the replicas through     *)
(* Redis, with the single-flight table of each replica and the eviction    *)
(* the ingest handler (web/server.js) triggers when a record lands.        *)
(*                                                                         *)
(* A body is the number of records its handler saw.  A replica is one      *)
(* thread: an action runs from one await to the next.  Commands of a       *)
(* replica reach Redis (external) in order, those of different replicas in *)
(* any order, and they are lost when the connection drops.                 *)
(***************************************************************************)
EXTENDS Integers, Sequences

CONSTANTS
  Replicas, Requests,
  FastHandlers,   \* a handler and its SET end within REINVALIDATE_MS
  MaxRecords,     \* bound: records that land in one behaviour
  MaxDrops        \* bound: how often a connection to Redis drops

ASSUME CacheAssumption ==
  /\ FastHandlers \in BOOLEAN
  /\ {MaxRecords, MaxDrops} \subseteq Nat
  /\ "nobody" \notin Requests

VARIABLES
  db,         \* records committed on the map
  redis,      \* the cached body, Empty if none
  chan,       \* per replica: commands on their way to Redis
  ready,      \* per replica: `ready`
  inflight,   \* per replica: the registered leader, or Nobody
  owed,       \* per replica: records committed, eviction not yet issued
  sweep,      \* per replica: records whose second DEL is still due
  pc,         \* per request
  at,         \* per request: the replica that serves it
  leads,      \* per request: does it settle the single-flight entry?
  joined,     \* per request: the leader it waits for
  body,       \* per request: the body it built or was served
  drops,      \* connection losses so far
  swept,      \* history: newest record whose second DEL reached Redis
  asOf        \* history: `swept` when the request arrived

vars == <<db, redis, chan, ready, inflight, owed, sweep, pc, at, leads, joined,
          body, drops, swept, asOf>>

Empty == -1
Nobody == "nobody"
Bodies == 0..MaxRecords
Commands == [op : {"set"}, body : Bodies] \cup [op : {"del"}, body : Bodies]

Set(b) == [op |-> "set", body |-> b]
Del(b) == [op |-> "del", body |-> b]   \* b: the record swept; 0 for a first DEL

(* Types of the cache, the single-flight tables and the requests.          *)
TypeOK ==
  /\ db \in Bodies /\ swept \in Bodies /\ drops \in 0..MaxDrops
  /\ redis \in Bodies \cup {Empty}
  /\ chan \in [Replicas -> Seq(Commands)]
  /\ ready \in [Replicas -> BOOLEAN]
  /\ inflight \in [Replicas -> Requests \cup {Nobody}]
  /\ owed \in [Replicas -> SUBSET Bodies]
  /\ sweep \in [Replicas -> SUBSET Bodies]
  /\ pc \in [Requests -> {"new", "get", "follow", "handler", "send",
                          "adrift", "late", "done", "failed"}]
  /\ at \in [Requests -> Replicas \cup {Nobody}]
  /\ leads \in [Requests -> BOOLEAN]
  /\ joined \in [Requests -> Requests \cup {Nobody}]
  /\ body \in [Requests -> Bodies \cup {Empty}]
  /\ asOf \in [Requests -> Bodies]

Init ==
  /\ db = 0 /\ redis = Empty /\ drops = 0 /\ swept = 0
  /\ chan = [n \in Replicas |-> <<>>] /\ ready = [n \in Replicas |-> TRUE]
  /\ inflight = [n \in Replicas |-> Nobody]
  /\ owed = [n \in Replicas |-> {}] /\ sweep = [n \in Replicas |-> {}]
  /\ pc = [r \in Requests |-> "new"] /\ at = [r \in Requests |-> Nobody]
  /\ leads = [r \in Requests |-> FALSE]
  /\ joined = [r \in Requests |-> Nobody]
  /\ body = [r \in Requests |-> Empty] /\ asOf = [r \in Requests |-> 0]

-----------------------------------------------------------------------------
(* The middleware.                                                         *)

\* lead(): register as the leader - over whoever is registered - and run
Lead(r, n) ==
  /\ inflight' = [inflight EXCEPT ![n] = r]
  /\ leads' = [leads EXCEPT ![r] = TRUE]
  /\ pc' = [pc EXCEPT ![r] = "handler"]

\* installStore(null): run the handler without telling anyone
Solo(r) == pc' = [pc EXCEPT ![r] = "handler"] /\ UNCHANGED <<inflight, leads>>

Arrive(r, n) ==
  /\ pc[r] = "new"
  /\ at' = [at EXCEPT ![r] = n] /\ asOf' = [asOf EXCEPT ![r] = swept]
  /\ \/ /\ inflight[n] # Nobody
        /\ joined' = [joined EXCEPT ![r] = inflight[n]]
        /\ pc' = [pc EXCEPT ![r] = "follow"]
        /\ UNCHANGED <<inflight, leads>>
     \/ /\ inflight[n] = Nobody /\ ~ready[n]
        /\ Lead(r, n) /\ UNCHANGED joined
     \/ /\ inflight[n] = Nobody /\ ready[n]
        /\ pc' = [pc EXCEPT ![r] = "get"]
        /\ UNCHANGED <<inflight, leads, joined>>
  /\ UNCHANGED <<db, redis, chan, ready, owed, sweep, body, drops, swept>>

Serve(r, b) ==
  /\ body' = [body EXCEPT ![r] = b] /\ pc' = [pc EXCEPT ![r] = "done"]
  /\ UNCHANGED <<inflight, leads>>

\* the GET is answered: serve a hit, lead on a miss
GetAnswered(r) ==
  /\ pc[r] = "get" /\ ready[at[r]]
  /\ \/ redis # Empty /\ Serve(r, redis)
     \/ redis = Empty /\ Lead(r, at[r]) /\ UNCHANGED body
  /\ UNCHANGED <<db, redis, chan, ready, owed, sweep, at, joined, drops, swept,
                 asOf>>

\* the GET fails or takes longer than GET_TIMEOUT_MS
GetFails(r) ==
  /\ pc[r] = "get"
  /\ Lead(r, at[r])
  /\ UNCHANGED <<db, redis, chan, ready, owed, sweep, at, joined, body, drops,
                 swept, asOf>>

\* the handler's query, which runs on when the client has gone
Build(r) ==
  /\ pc[r] \in {"handler", "adrift"}
  /\ body' = [body EXCEPT ![r] = db]
  /\ pc' = [pc EXCEPT ![r] = IF @ = "handler" THEN "send" ELSE "late"]
  /\ UNCHANGED <<db, redis, chan, ready, inflight, owed, sweep, at, leads,
                 joined, drops, swept, asOf>>

\* finish(): a leader drops the table's entry, whoever it belongs to by now
Settle(r) ==
  inflight' = IF leads[r] THEN [inflight EXCEPT ![at[r]] = Nobody]
                          ELSE inflight

\* the wrapped res.send of a 200: settle, SET (fire and forget), answer - the
\* SET also when nobody is left to answer
Send(r) ==
  /\ pc[r] \in {"send", "late"}
  /\ pc' = [pc EXCEPT ![r] = IF @ = "send" THEN "done" ELSE "failed"]
  /\ Settle(r)
  /\ chan' = IF ready[at[r]]
             THEN [chan EXCEPT ![at[r]] = Append(@, Set(body[r]))] ELSE chan
  /\ UNCHANGED <<db, redis, ready, owed, sweep, at, leads, joined, body, drops,
                 swept, asOf>>

\* the client goes away: the response closes and releases the followers with
\* null, once; the handler does not notice
Abort(r) ==
  /\ pc[r] \in {"handler", "send"}
  /\ pc' = [pc EXCEPT ![r] = IF @ = "handler" THEN "adrift" ELSE "late"]
  /\ Settle(r) /\ leads' = [leads EXCEPT ![r] = FALSE]
  /\ UNCHANGED <<db, redis, chan, ready, owed, sweep, at, joined, body, drops,
                 swept, asOf>>

\* not a 200, or an exception: nothing is stored
Fail(r) ==
  /\ pc[r] \in {"handler", "send", "adrift", "late"}
  /\ pc' = [pc EXCEPT ![r] = "failed"] /\ Settle(r)
  /\ body' = [body EXCEPT ![r] = Empty]
  /\ UNCHANGED <<db, redis, chan, ready, owed, sweep, at, leads, joined, drops,
                 swept, asOf>>

ReleasedBySuccess(r) == pc[joined[r]] = "done"
                      \* mutant: no finish(null) when the response closes
\* the leader's promise is resolved: finish(body) or finish(null)
Released(r) == pc[joined[r]] \in {"done", "failed", "adrift", "late"}

\* the leader settled: take its body, or run the handler solo
Follow(r) ==
  /\ pc[r] = "follow" /\ Released(r)
  /\ \/ pc[joined[r]] = "done" /\ Serve(r, body[joined[r]])
     \/ pc[joined[r]] # "done" /\ Solo(r) /\ UNCHANGED body
  /\ UNCHANGED <<db, redis, chan, ready, owed, sweep, at, joined, drops, swept,
                 asOf>>

\* FOLLOW_TIMEOUT_MS passed
FollowTimeout(r) ==
  /\ pc[r] = "follow" /\ Solo(r)
  /\ UNCHANGED <<db, redis, chan, ready, owed, sweep, at, joined, body, drops,
                 swept, asOf>>

-----------------------------------------------------------------------------
(* A record lands: commit, then invalidate() in the ingest handler.        *)

Land(n) ==
  /\ db < MaxRecords /\ db' = db + 1
  /\ owed' = [owed EXCEPT ![n] = @ \cup {db + 1}]
  /\ UNCHANGED <<redis, chan, ready, inflight, sweep, pc, at, leads, joined,
                 body, drops, swept, asOf>>

\* the first DEL, and the timer of the second; nothing at all while not ready
Invalidate(n, v) ==
  /\ v \in owed[n] /\ owed' = [owed EXCEPT ![n] = @ \ {v}]
  /\ IF ready[n]
     THEN /\ chan' = [chan EXCEPT ![n] = Append(@, Del(0))]
          /\ sweep' = [sweep EXCEPT ![n] = @ \cup {v}]
     ELSE UNCHANGED <<chan, sweep>>
  /\ UNCHANGED <<db, redis, ready, inflight, pc, at, leads, joined, body,
                 drops, swept, asOf>>

\* a handler that read before record v is still running, or its SET is
Lagging(v) ==
  \/ \E r \in Requests : pc[r] \in {"send", "late"} /\ body[r] < v
  \/ \E n \in Replicas : \E i \in 1..Len(chan[n]) :
       chan[n][i].op = "set" /\ chan[n][i].body < v

OneDel(n, v) ==       \* mutant: the second DEL is not sent
  /\ v \in sweep[n] /\ sweep' = [sweep EXCEPT ![n] = @ \ {v}]
  /\ FastHandlers => ~Lagging(v)
  /\ swept' = IF ready[n] /\ v > swept THEN v ELSE swept
  /\ UNCHANGED <<db, redis, chan, ready, inflight, owed, pc, at, leads, joined,
                 body, drops, asOf>>
\* the timer of REINVALIDATE_MS
Reinvalidate(n, v) ==
  /\ v \in sweep[n] /\ sweep' = [sweep EXCEPT ![n] = @ \ {v}]
  /\ FastHandlers => ~Lagging(v)
  /\ chan' = IF ready[n] THEN [chan EXCEPT ![n] = Append(@, Del(v))] ELSE chan
  /\ UNCHANGED <<db, redis, ready, inflight, owed, pc, at, leads, joined, body,
                 drops, swept, asOf>>

-----------------------------------------------------------------------------
(* Redis and the connections to it.                                        *)

Execute(n) ==
  /\ chan[n] # <<>>
  /\ LET c == Head(chan[n])
     IN /\ redis' = IF c.op = "set" THEN c.body ELSE Empty
        /\ swept' = IF c.op = "del" /\ c.body > swept THEN c.body ELSE swept
  /\ chan' = [chan EXCEPT ![n] = Tail(@)]
  /\ UNCHANGED <<db, ready, inflight, owed, sweep, pc, at, leads, joined, body,
                 drops, asOf>>

\* EX ttlSeconds
Expire ==
  /\ redis # Empty /\ redis' = Empty
  /\ UNCHANGED <<db, chan, ready, inflight, owed, sweep, pc, at, leads, joined,
                 body, drops, swept, asOf>>

Disconnect(n) ==
  /\ ready[n] /\ drops < MaxDrops /\ drops' = drops + 1
  /\ ready' = [ready EXCEPT ![n] = FALSE]
  /\ chan' = [chan EXCEPT ![n] = <<>>]
  /\ UNCHANGED <<db, redis, inflight, owed, sweep, pc, at, leads, joined, body,
                 swept, asOf>>

Reconnect(n) ==
  /\ ~ready[n] /\ ready' = [ready EXCEPT ![n] = TRUE]
  /\ UNCHANGED <<db, redis, chan, inflight, owed, sweep, pc, at, leads, joined,
                 body, drops, swept, asOf>>

-----------------------------------------------------------------------------
Middleware(r) == \/ GetAnswered(r) \/ GetFails(r)
                 \/ Build(r) \/ Send(r) \/ Follow(r)

Next ==
  \/ \E r \in Requests : \/ \E n \in Replicas : Arrive(r, n)
                         \/ Middleware(r) \/ Abort(r) \/ Fail(r)
                         \/ FollowTimeout(r)
  \/ \E n \in Replicas : \/ Land(n) \/ Execute(n)
                         \/ Disconnect(n) \/ Reconnect(n)
                         \/ \E v \in Bodies : \/ Invalidate(n, v)
                                              \/ Reinvalidate(n, v)
  \/ Expire

Spec == Init /\ [][Next]_vars

-----------------------------------------------------------------------------
(* The table of a replica never names a request that has finished: nobody  *)
(* joins a leader that will not settle again, even when leaders registered *)
(* over each other or failed.                                              *)
InflightRuns ==
  TypeOK /\ \A n \in Replicas :
    inflight[n] # Nobody => pc[inflight[n]] \in {"handler", "send"}

(* Once the second DEL for a record has reached Redis, neither the cache   *)
(* nor a body served to a request that arrives later predates the record - *)
(* provided handlers are faster than REINVALIDATE_MS, as invalidate()      *)
(* assumes.  The first DEL alone does not give this.                       *)
FreshOnceSwept ==
  /\ redis # Empty => redis >= swept
  /\ \A r \in Requests : pc[r] = "done" => body[r] >= asOf[r]

(* What no reader of the cache may meet: an entry that is never settled, a *)
(* body older than the eviction it survived.                               *)
CacheSound == InflightRuns /\ FreshOnceSwept

(* ... strengthened to an inductive invariant.  The registered leader is   *)
(* the request that will settle this replica's entry; who follows joined a *)
(* request that ran at the time; and for a record whose second DEL is on   *)
(* its way or was executed, nothing older is left to be stored or served.  *)
Leads ==
  \A n \in Replicas : inflight[n] # Nobody =>
     leads[inflight[n]] /\ at[inflight[n]] = n /\ pc[inflight[n]] \in {"handler", "send"}
Built ==
  /\ \A r \in Requests :
       /\ pc[r] # "new" => at[r] \in Replicas
       /\ pc[r] \in {"send", "late", "done"} => body[r] \in Bodies
       /\ pc[r] = "follow" => joined[r] \in Requests /\ pc[joined[r]] \notin {"new", "get", "follow"}
  /\ \A n \in Replicas : \A v \in owed[n] \cup sweep[n] : v <= db

SweptFrom(v) == v <= swept \/ \E n \in Replicas : \E i \in 1..Len(chan[n]) : chan[n][i] = Del(v)
NothingOlder ==
  /\ \A v \in Bodies : SweptFrom(v) => v <= db /\ ~Lagging(v)
  /\ redis # Empty => redis >= swept
  /\ \A r \in Requests :
       /\ asOf[r] <= swept
       /\ pc[r] \in {"send", "done"} => body[r] >= asOf[r]
       /\ pc[r] = "follow" /\ pc[joined[r]] \in {"send", "done"} => body[joined[r]] >= asOf[r]

(* A request that reached a replica is answered or fails, whatever becomes *)
(* of the leader it joined.                                                *)
EveryRequestEnds == []<>(\A r \in Requests : pc[r] \in {"new", "done", "failed"})

(* Lost evictions, dropped connections and late SETs only delay: when no   *)
(* more records land, the cache ends up empty or current for good.         *)
EventuallyFresh == <>[](redis = Empty \/ redis = db)
=============================================================================
