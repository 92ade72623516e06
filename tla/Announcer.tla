----------------------------- MODULE Announcer -----------------------------
(***************************************************************************)
(* The Discord announcer (discord/announcer.js) polling GET /api/records   *)
(* (web/server.js, recordsAfter in web/db.js) while ingests commit.        *)
(*                                                                         *)
(* The handler answers from two statements, each with a snapshot of its    *)
(* own: first the page of rows, later MAX(id); its answer is kept in the   *)
(* response cache for a while.  The announcer posts the page in batches,   *)
(* advances its cursor after each, saves it, and at the end of a page that *)
(* is not full jumps to MAX(id).  A post may fail, be rate-limited, or be  *)
(* accepted without the answer arriving; a save may fail silently; the     *)
(* process may die anywhere and starts again from the file.                *)
(***************************************************************************)
EXTENDS RaceFeed

CONSTANTS
  MaxPerPoll,   \* MAX_PER_POLL: records asked for, and the size of a full page
  ServerCap,    \* the limit recordsAfter clamps the request to (50)
  BatchSize,    \* embeds per webhook call (10)
  RateLimits,   \* 429 answers tolerated within one batch (5)
  MaxFaults     \* bound: failures of the environment in one behaviour

ASSUME AnnouncerAssumption ==
  /\ {MaxPerPoll, ServerCap, BatchSize} \subseteq Nat \ {0}
  /\ {RateLimits, MaxFaults} \subseteq Nat

VARIABLES
  pc,       \* "down", "idle", "rows" and "max" (the handler's two reads),
            \* "page", "posting", "landed" (posted, cursor not yet moved)
  mem,      \* state.lastId, None while there is no baseline
  disk,     \* lastId in the state file, None when there is none
  page,     \* the answer being handled: [recs, maxId]
  left,     \* ids of the page not posted yet
  rate,     \* 429s answered to the current batch
  cached,   \* the cached answer and the after_id it answers, or NoEntry
  posted,   \* how often each record was announced in the channel
  faults,   \* environment failures so far
  base,     \* history: the highest baseline so far
  window,   \* history: ids committed between the handler's two reads
  doubt     \* history: ids whose post the announcer may have no trace of

announcerVars == <<pc, mem, disk, page, left, rate, cached, posted, faults,
                   base, window, doubt>>
vars == <<race, top, used, pc, mem, disk, page, left, rate, cached, posted,
          faults, base, window, doubt>>

None == -1
Cursors == Nat \cup {None}
Pages == [recs : SUBSET Ids, maxId : Nat]
NoPage == [recs |-> {}, maxId |-> 0]
NoEntry == [after |-> None, answer |-> NoPage]

(* Types of the announcer's state, history included.                       *)
TypeOK ==
  /\ FeedTypeOK
  /\ pc \in {"down", "idle", "rows", "max", "page", "posting", "landed"}
  /\ mem \in Cursors /\ disk \in Cursors
  /\ page \in Pages /\ left \subseteq page.recs
  /\ rate \in 0..RateLimits
  /\ cached = NoEntry \/ cached \in [after : Nat, answer : Pages]
  /\ posted \in [Ids -> Nat]
  /\ faults \in 0..MaxFaults
  /\ base \in Nat /\ window \subseteq Ids /\ doubt \subseteq Ids

Init ==
  /\ FeedInit
  /\ pc = "down" /\ mem = None /\ disk = None
  /\ page = NoPage /\ left = {} /\ rate = 0 /\ cached = NoEntry
  /\ posted = [i \in Ids |-> 0] /\ faults = 0
  /\ base = 0 /\ window = {} /\ doubt = {}

-----------------------------------------------------------------------------
(* The environment: the race table and the response cache's TTL.           *)

Ingested ==
  /\ CommitRows
  /\ window' = IF pc = "max" THEN window \cup (race' \ race) ELSE window
  /\ UNCHANGED <<pc, mem, disk, page, left, rate, cached, posted, faults,
                 base, doubt>>

MapDeleted ==
  /\ DeleteMap
  /\ UNCHANGED announcerVars

Expire ==
  /\ cached # NoEntry
  /\ cached' = NoEntry
  /\ UNCHANGED <<race, top, used, pc, mem, disk, page, left, rate, posted,
                 faults, base, window, doubt>>

Fault == faults < MaxFaults /\ faults' = faults + 1

-----------------------------------------------------------------------------
(* One poll: fetchRecords.                                                 *)

AfterMissing(c) == c     \* mutant: after_id=null reaches the query
\* state.lastId ?? 0
After(c) == IF c = None THEN 0 ELSE c

Tick ==
  /\ pc = "idle"
  /\ pc' = "rows"
  /\ UNCHANGED <<race, top, used, mem, disk, page, left, rate, cached, posted,
                 faults, base, window, doubt>>

\* the interval fires while a poll is running: "must not stack a concurrent one"
TickSkipped ==
  /\ pc \notin {"down", "idle"}
  /\ UNCHANGED vars

FetchCached ==
  /\ pc = "rows" /\ cached.after = After(mem)
  /\ page' = cached.answer /\ left' = {} /\ pc' = "page"
  /\ UNCHANGED <<race, top, used, mem, disk, rate, cached, posted, faults,
                 base, window, doubt>>

Lowest(S, n) == {i \in S : Cardinality({j \in S : j < i}) < n}
SmallerOf(a, b) == IF a < b THEN a ELSE b

\* SELECT ... WHERE id > after AND global_rank <= max ORDER BY id LIMIT n
ReadRows ==
  /\ pc = "rows"
  /\ LET limit == SmallerOf(ServerCap, MaxPerPoll)
         recs  == Lowest({i \in top : i > After(mem)}, limit)
     IN page' = [recs |-> recs, maxId |-> 0]
  /\ left' = {} /\ pc' = "max"
  /\ UNCHANGED <<race, top, used, mem, disk, rate, cached, posted, faults,
                 base, window, doubt>>

\* SELECT COALESCE(MAX(id), 0) FROM race; the answer goes through the cache
ReadMax ==
  /\ pc = "max"
  /\ page' = [page EXCEPT !.maxId = Greatest(race)]
  /\ cached' \in {cached, [after |-> After(mem), answer |-> page']}
  /\ pc' = "page"
  /\ UNCHANGED <<race, top, used, mem, disk, left, rate, posted, faults, base,
                 window, doubt>>

\* a poll ends: tick's `finally` lets the next one start
PollEnds == pc' = "idle" /\ page' = NoPage /\ left' = {} /\ rate' = 0
PollFails == PollEnds

\* the API is down, or its answer does not arrive in time
FetchFails ==
  /\ pc \in {"rows", "max", "page"}
  /\ Fault /\ PollFails
  /\ UNCHANGED <<race, top, used, mem, disk, cached, posted, base, window,
                 doubt>>

-----------------------------------------------------------------------------
(* Handling the answer.                                                    *)

\* state.lastId = c; saveState swallows a failed write
Advance(c) ==
  /\ mem' = c
  /\ \/ disk' = c /\ UNCHANGED faults
     \/ Fault /\ UNCHANGED disk

\* first run: no historical announcements
Baseline ==
  /\ pc = "page" /\ mem = None
  /\ Advance(page.maxId) /\ base' = Greatest({base, page.maxId})
  /\ PollEnds
  /\ UNCHANGED <<race, top, used, cached, posted, window, doubt>>

NothingNew ==
  /\ pc = "page" /\ mem # None /\ page.maxId <= mem
  /\ PollEnds
  /\ UNCHANGED <<race, top, used, mem, disk, cached, posted, faults, base,
                 window, doubt>>

NoneQualify ==
  /\ pc = "page" /\ mem # None /\ page.maxId > mem /\ page.recs = {}
  /\ Advance(page.maxId)
  /\ PollEnds
  /\ UNCHANGED <<race, top, used, cached, posted, base, window, doubt>>

Announce ==
  /\ pc = "page" /\ mem # None /\ page.maxId > mem /\ page.recs # {}
  /\ left' = page.recs /\ pc' = "posting"
  /\ UNCHANGED <<race, top, used, mem, disk, page, rate, cached, posted,
                 faults, base, window, doubt>>

-----------------------------------------------------------------------------
(* postEmbeds.                                                             *)

NextBatch == Lowest(left, BatchSize)

Posted(b) == [i \in Ids |-> IF i \in b THEN posted[i] + 1 ELSE posted[i]]

PostLands ==
  /\ pc = "posting" /\ left # {}
  /\ posted' = Posted(NextBatch)
  /\ pc' = "landed"
  /\ UNCHANGED <<race, top, used, mem, disk, page, left, rate, cached, faults,
                 base, window, doubt>>

\* accepted, but the answer is an error or arrives too late: the poll aborts
PostAnswerLost ==
  /\ pc = "posting" /\ left # {}
  /\ posted' = Posted(NextBatch) /\ doubt' = doubt \cup NextBatch
  /\ Fault /\ PollFails
  /\ UNCHANGED <<race, top, used, mem, disk, cached, base, window>>

PostFails ==
  /\ pc = "posting" /\ left # {}
  /\ Fault /\ PollFails
  /\ UNCHANGED <<race, top, used, mem, disk, cached, posted, base, window,
                 doubt>>

\* 429: wait and try again, a bounded number of times
RateLimited ==
  /\ pc = "posting" /\ left # {}
  /\ Fault
  /\ \/ rate < RateLimits /\ rate' = rate + 1 /\ UNCHANGED <<pc, page, left>>
     \/ rate = RateLimits /\ PollFails
  /\ UNCHANGED <<race, top, used, mem, disk, cached, posted, base, window,
                 doubt>>

CursorMovedAtTheEnd ==    \* mutant: the cursor waits for the whole page
  /\ pc = "landed"
  /\ left' = left \ NextBatch /\ rate' = 0 /\ pc' = "posting"
  /\ UNCHANGED <<race, top, used, page, cached, posted, base, window, doubt,
                 mem, disk, faults>>

\* onBatchPosted: the cursor moves onto the batch's last record
OnBatchPosted ==
  /\ pc = "landed"
  /\ Advance(Greatest(NextBatch))
  /\ left' = left \ NextBatch /\ rate' = 0 /\ pc' = "posting"
  /\ UNCHANGED <<race, top, used, page, cached, posted, base, window, doubt>>

JumpAlways(p) == Greatest({p.maxId, Greatest(p.recs)})
                                   \* mutant: a full page jumps to the max too
JumpToMaxOnly(p) ==                \* mutant: Math.max dropped
  IF Cardinality(p.recs) >= MaxPerPoll THEN Greatest(p.recs) ELSE p.maxId

\* where the cursor goes once the page is posted
FinalCursor(p) ==
  IF Cardinality(p.recs) >= MaxPerPoll
  THEN Greatest(p.recs)
  ELSE Greatest({p.maxId, Greatest(p.recs)})

Finish ==
  /\ pc = "posting" /\ left = {}
  /\ Advance(FinalCursor(page))
  /\ PollEnds
  /\ UNCHANGED <<race, top, used, cached, posted, base, window, doubt>>

-----------------------------------------------------------------------------
(* The process dies (docker stop exits at once) and is started again.      *)

AnnouncedAbove(c) == {i \in Ids : posted[i] > 0 /\ i > After(c)}

Crash ==
  /\ pc # "down" /\ Fault
  /\ pc' = "down" /\ mem' = None
  /\ page' = NoPage /\ left' = {} /\ rate' = 0
  /\ doubt' = doubt \cup AnnouncedAbove(disk)
  /\ UNCHANGED <<race, top, used, disk, cached, posted, base, window>>

\* loadState, then the first tick
Start ==
  /\ pc = "down" /\ pc' = "idle"
  /\ mem' = disk
  /\ UNCHANGED <<race, top, used, disk, page, left, rate, cached, posted,
                 faults, base, window, doubt>>

\* loadState cannot read the file: no cursor, as on the first run
StartUnreadable ==
  /\ pc = "down" /\ pc' = "idle" /\ disk # None
  /\ Fault
  /\ mem' = None /\ doubt' = doubt \cup AnnouncedAbove(0)
  /\ UNCHANGED <<race, top, used, disk, page, left, rate, cached, posted,
                 base, window>>

-----------------------------------------------------------------------------
Step == \/ Tick \/ FetchCached \/ ReadRows \/ ReadMax
        \/ Baseline \/ NothingNew \/ NoneQualify \/ Announce
        \/ PostLands \/ OnBatchPosted \/ Finish \/ Start

Failure == \/ FetchFails \/ PostAnswerLost \/ PostFails \/ RateLimited
           \/ Crash \/ StartUnreadable

Next == Ingested \/ MapDeleted \/ Expire \/ TickSkipped \/ Step \/ Failure

Spec == Init /\ [][Next]_vars

-----------------------------------------------------------------------------
(* Ids the cursor has passed since the baseline without announcing them    *)
(* although they are (and therefore always were) worth it.                 *)
Skipped == {i \in top : mem # None /\ base < i /\ i <= mem /\ posted[i] = 0}

(* A record that still stands is passed over without an announcement only  *)
(* if it was committed between the two reads of one answer: the batches,   *)
(* full pages, failed posts, failed saves and restarts never skip one.     *)
SkipsOnlyInWindow == Skipped \subseteq window

(* A record is announced again only if the answer to its post was lost, or *)
(* the process died (or lost its state file) before the cursor that covers *)
(* the post was on disk - never because a later batch of the page failed.  *)
AnnouncedTwiceOnlyInDoubt == \A i \in Ids : posted[i] > 1 => i \in doubt

(* A running announcer's cursor never moves back over ids it has handled,  *)
(* even when the newest row of an answer is deleted between the handler's  *)
(* two reads, or the answer comes from the cache.                          *)
CursorForward == [][(mem # None /\ mem' # None) => mem' >= mem]_vars

(* Every record that qualifies when it is committed to a running announcer *)
(* is announced in the end, unless it is beaten or deleted first, falls in *)
(* the window between the two reads, or belongs to a baseline.             *)
AllAnnounced ==
  \A i \in top : posted[i] > 0 \/ i \in window \/ (mem # None /\ i <= base)
=============================================================================
