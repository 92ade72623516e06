# Racesow: TLA+ models, checks and proofs

Racesow is a race game server network: Warsow game servers whose finishes are
reported to a central web service, stored in PostgreSQL, served to the site and
back to the game servers, and announced on Discord. Around that path the web
service runs tournaments, a monthly cup, achievements, map generation, a map
pack and moderation on two replicas that share nothing but the database, Redis
and a disk; and the game servers agree among themselves, over UDP, on votes and
maps. This directory models the parts where threads, processes, replicas,
retries and caches meet.

    game script --(queue, worker thread, spool file)--> POST /ingest --(transaction)--> race table
    race log    --(collector)-------------------------> POST /ingest
    race table  --(debounce, advisory lock)-----------> ranking tables, achievements, tournaments, cup
    tables      --(memo, Redis, edge, tab)------------> pages, game servers, announcer
    game server <--(mesh events)----------------------> game server

## 1. Inventory

| part | state it keeps | operations | meets |
|---|---|---|---|
| game API client, `server/enginepatches/g_rs_api.cpp` | bounded queue, one worker thread, per-slot generation/result/text, spool file | report, fetch, join, poll, drain at shutdown, load at boot | game script (one thread) on one side, web API on the other; the next process through the spool file |
| pollers, `hrace/playerrecord.as`, `hrace/tournament.as` | `pendingRecordFetch`, `pendingTourneyJoin` per player | issue, poll each frame | the client's atomics |
| web ingest, `web/db.js` `ingest`, `_ingestTx` | tables race, finish, run_tally, run_activity_daily, player, canonical, config | `POST /ingest`: one transaction, up to five tries | concurrent ingests of several servers on two replicas; row locks |
| race feed, `web/db.js` `recordsAfter`, `web/admin.js` | race rows and ids | commit, delete, read | announcer |
| response cache, `web/cache.js` | Redis entry, per-replica in-flight table | lookup, lead, follow, store, two-stage DEL | two replicas, ingest, a Redis connection that drops |
| read API, `web/server.js`, `web/db.js` | memos, cached answers | the cached GET routes and the writes that evict them | aggregates, cache, edge, browser |
| Discord announcer, `discord/announcer.js` | cursor in memory and in a file, tick guard | poll, post in batches, save | race feed through the cache, the webhook |
| collector, `collector/collector.js`; live poller, `web/live.js` | byte offset, inode, mtimes, state file; the last round | tail, scan, post, save; query | race log, ingest; game servers |
| aggregates and achievements, `web/server.js`, `web/db.js`, `web/achievements.js` | timers, running/again flags, pending ids, daily claim, awards | schedule, run, insert | ingest, both replicas, rebuilt identities |
| tournaments and monthly cup, `web/tournaments.js`, `web/db.js` | editions, entries, stamped runs, standings, period decisions | admin edits, joins, freeze, finalize, sweep, force | two replicas, ingest in flight, operators |
| replays and duels (web), `web/db.js` | ghost and demo rows and files, saved starts, duel rows | upload, restore, report | canonical groups that are rebuilt |
| moderation, operators, `web/db.js`, `web/server.js`, `web/censor.js` | blocks, load failures, name filter, restart order, maintenance, log, limiter | toggle, report, claim, reload | two replicas, game servers |
| map generation, `web/db.js`, `tools/mapgen/worker.py` | jobs, quotas, heartbeats | submit, claim, build, review, publish | workers, game servers' sync |
| map pack, `web/mappack.js` | index, lock file, layouts | refresh, hash, download with Range | two replicas, the mirror's files |
| browser, `public/assets/js/app.js`, `mapgen-editor.js`, `random-dealer.js`, `replay.js` | route, timers, viewers; course, selection, undo, draft; dealt route; camera mode, models, playback | views, live refresh, edits, deals | answers that arrive late |
| mesh votes, `hrace/meshvote.as` | active vote, ballots, subtotals, pending switch, repeated result | open, cast, cancel, events, think | every other game server |
| idle servers, `hrace/maprotate.as` | memory of peers, target, idle clock | follow, rotate | peers' published rows, map loads |
| shared feeds, mirror mesh, player race state, duels in game, crash guard | see section 6 | | |

Hard behaviours, and where they bite, are the `hazards` of `PROJECT.json`. The
main ones: generations compared and results stored in separate steps; a file
that is read, removed and re-queued in three steps while the other thread and
the previous process use it; ids allocated inside transactions and read through
a cursor; an answer assembled from two reads; an eviction that races the handler
it should have followed; a claim, a read and a write of a row in three
statements while the other replica does the same; a file written after the
transaction that decided about it; a view that paints after its visitor has
left; two masters of one vote; and, everywhere, an exchange that took effect
although its answer was lost.

## 2. Modules

| module | models | state and actions |
|---|---|---|
| `RsApi` | game API client and pollers | `queue`, worker (`wpc`, `cur`, `status`, `loaded`, `drainFailed`), script thread (`spc`, `chan`, `pending`, `gen`), atomics (`result`, `text`), `spool`, process (`stop`, `crashes`, `boots`). One action per lock region, atomic access, file operation or network exchange |
| `RaceFeed` | abstract: what a reader with a cursor may assume of the race table | `race`, `top`, `used`; `CommitRows`, `DeleteMap` |
| `Ingest` | `POST /ingest` | the tables, row locks, one transaction per connection with its uncommitted writes; one action per statement that locks, reads or decides, plus `Commit`, `Abort`, `Deadlock`, `Reply`, `ReplyLost` |
| `Announcer` | `poll`, `postEmbeds`, the tick and the state file, over `RaceFeed` and a cached `GET /records` | cursor in memory and on disk, page, position in it, cache; one action per await |
| `Tournament`, `MonthlyCup` | calendar, entries, runs and freezes; the pass that decides a month | one action per transaction, or per statement where the code awaits between two |
| `Replays` | ghosts (row and file), demos, saved starts, random runs, duel reports, under identities whose first rows cross and that are rebuilt | one action per statement that locks, reads or decides, and per file operation |
| `Moderation`, `Operations` | blocks, quarantine, name filter; restart order, maintenance, operator log, limiter | two replicas with their in-memory copies |
| `Aggregates`, `Achievements`, `AwardRules` | rebuild debounce and advisory lock; evaluation passes and the daily claim; what every rule kind asks of the tables, and the insertion of awards | timers, flags and claims per replica; the rule catalog as operators over the tables |
| `Mapgen` | submission, quota, worker, review, publication | jobs, workers' steps, servers' sync |
| `MapPack`, `Feeds` | index refresh under a lock file, Range downloads; collector and live poller | one action per await |
| `ResponseCache`, `ReadApi` | `cache()`, `invalidate()`; which tables and layers each route's answer is made of | requests at replicas, Redis; one route and one write at a time |
| `Pages`, `Editor`, `RandomDealer`, `ReplayViewer` | the single-page app's views as sequences of blocks; edits, undo and drafts; the dealer's walk; the viewer from mount to cleanup | one thread, late answers; one action per handler |
| `MeshVote` | `meshvote.as` on every server, and the events between them | the vote, subtotals, switch and result of each server; one action per command, event, frame and map load (which deafens its server for as long as it takes) |
| `IdleFollow` | `maprotate.as` on every server | people, maps, loads, memory and target of each server; one action per think, load and tick |
| `RsApiProofs`, `PollersProofs`, `SiteProofs`, `IngestProofs`, `MeshProofs`, `ResultsProofs`, `SweepsProofs` | - | theorems (section 5) |
| `SumTheorems` | - | lemmas on least elements, finite sets of triples and sums over finite sets, for the theorem modules |
| `MCRsApi`, `MCIngest`, `MCAnnouncer` | instances | request bodies, symmetry |
| `MCResults`, `MCSweeps`, `MCPollers`, `MCSite`, `MCMesh` | suites | several parts side by side |

`Announcer` extends `RaceFeed`, the abstraction; `Ingest` is checked to implement
it (`ImplementsFeed`, with the race rows mapped to their ids, the rows of
announceable rank to `top` and the greatest committed id to `used`). So the
announcer's results rest on what the ingest transaction really guarantees: ids
become visible in increasing order, because the counter row is locked until
COMMIT.

A *suite* puts parts that share no state into one run. Its variable `which`
chooses, in the initial state and for good, the part a behaviour is about; the
others keep their initial state. The reachable states are the sum, not the
product, of the parts', and a suite's invariant is a conjunction of the parts'.
`which` also selects the wiring inside a part: `MCResults` runs the tournament
once for entries and once for standings, `MCPollers` the map pack once with
faults and once with downloads.

History variables are kept to the properties' needs and are marked in the
declarations. No action's guard reads one except where a bound does.

Abstractions that apply throughout:

- a report, player, map, page or course is a name or a number; no text is built
  or parsed. The outcomes of the conversions that decide something are kept: a
  2xx with a payload that fails validation, an oversized spool line, an
  unreadable state file;
- time is a choice of order where the code only waits, and a counter of ticks
  where it compares clocks. `FastHandlers` (response cache) and `SlowWorkers`
  (map jobs) name the two timing assumptions the code itself makes
  (`REINVALIDATE_MS`, the worker's lease);
- PostgreSQL is READ COMMITTED with row locks: a statement sees what is
  committed when it runs and what its own transaction wrote; deadlocks are
  detected and one victim is rolled back.

## 3. Runs

| run | question | bounds |
|---|---|---|
| `rsapi_limits` | Can a report fall between queue, worker, loader and file, or be in two places? How long does the queue get? What is evicted? Which fetch does a polled outcome belong to? | two reports, a slot and a join slot, a queue of two, a loader that keeps one line, each slot issued twice, one crash, two boots |
| `rsapi_lifecycle` | Does shutdown end, and what does it cost against a dead API? Is a report lost when nothing is full? Is every fetch answered, and every report settled? | as above with a queue and a loader that have room, two attempts, no crash |
| `announcer_poll` | Can failures, restarts, full pages or cached answers skip a record or announce one twice, or move the cursor back? | three ids, pages of two, batches of one, two faults of any kind |
| `ingest_cross` | Who can deadlock with whom? Is every request answered? | three connections, two versions, two maps, two players met in opposite orders, two tries |
| `ingest_same_map` | Does the best time stand, are ranks those of the table, is each commit counted once, do ids appear in order? | two connections, three requests for one map sent up to twice, one of them a top-scores re-sync, five tries |
| `results` | Do contests, replays, duels and blocks stay right, and what is settled stay settled, while admins, replicas, uploads and rebuilds cross? | two tournament ids, one or two replicas, two joiners and codes, one run; three months, two operator acts; two uploads of three times, a crash; three nicks of two people, two transactions that resolve nicks (a duel, random runs, saved starts, ingests), a rebuild; two servers, one reporter |
| `sweeps` | Is anything a row owes forgotten, done twice or never done? | two replicas, two writes, one failed statement or recreated container per part; two players, two maps, two runs, four days of rules; two workers, two jobs, two days, one fault |
| `pollers` | Does what is polled arrive, torn never and passed over never? | two replicas, one pack with two stamps, one fault and one break; two log lines read one at a time, refusals (4xx), one rotation, two faults; two servers; two toggles, three ticks; two ids for the announcer |
| `site` | What can a visitor be shown, how old, by whom, and does the browser's state stay sound? | two replicas, two requests, one record, one dropped connection; every route with every write; three navigations; three edits, an undo of two, two builds sent; seven rolls of the dealer; a run of three frames |
| `mesh` | Do votes opened at once, lost events and changing servers leave the mesh on one map, moved by more than one person? Do idle servers come together and never wander off? | two servers, one player each, two votes, one ballot, one oddity (a lost event, a player that changes, a map load of any length), a map the first server has not; three servers, two visits, an unavailable map |
| `ghost_file` | (violation) "a concurrent slower upload never overwrites a faster file" | the ghosts of `results` |
| `ingest_seized` | (violation) new identities "never seize" a canonical group | two first identities of one key under two versions |

What the properties of the suites are made of:

- `ContestSound`: one entry per player though servers submit at once; one edition
  per month, never starved by the overlap rule, never blocked by itself.
  `ResultsStay`: final standings, honoured entries, decided months and stored
  times stay; a run in time is missed only if it was in flight at the freeze.
- `ReplaySound`: no file without its row, a committed ghost survives a crash, a
  duel is between two people, one row per person, both unless the representative of the
  key was seized or left behind (`seized`). `OffTheServers`: a map that
  enough servers failed to load leaves the rotation, unless its reports overlap.
- `AggSound`: a rebuild waits no longer than its cap, is owed whenever tables are
  stale, and one rating snapshot is taken a day. `AwardsSound`: a finish has a pass
  scheduled or owed, or its sender was refused after the commit and sends it again, or it
  is known to be `missed`; awards are earned; progress bars say what qualifying says;
  streaks are exact. `MapgenSound`: quotas are exact, nothing unreviewed is built,
  one worker per job. `SweepsKeep`: tables never go back, published maps stay, one
  award per person. `SweepsEnd`: everything owed is done.
- `OpsSound`: one restart per order, notices spaced (unless a stamp was written from a
  clock older than the last notice: `pulled`), maintenance whole, the limiter
  neither too strict nor more than twice too lax. `FilesSound`: the offset passes
  no line that was neither posted nor refused with a 4xx, a filter edit taken is applied,
  one indexer at a time, no archive served torn unless its client resumed without
  If-Range and met another one (`mixed`). `PollersWork`: what is polled arrives, or was
  refused.
- `CacheSound`, `SiteFresh`, `SiteHonest`: no body older than the eviction it
  survived, also from handlers whose client is gone, no orphan in the in-flight table, an
  age bound for every page through all layers, every request ends. `BrowserSound`: no timer, viewer or answer of one
  page on another; selection, draft and undo follow the course; a build
  button that is off has an answer to come (`ButtonReturns`); a dealt route does
  not cross itself; the replay viewer shows one body whenever its models arrive, orbits
  only while Ctrl is down, reads no frame past the run and stops drawing when closed.
- `VoteSound`: a vote that passes was voted for by `MinYes` people, stale subtotals
  and inherited ballots excepted; of two masters the one that should have yielded
  never had the other's OPEN, gave that vote up for a third one or a result, or
  loaded a map since. `FollowSound`: no
  server rotates away while somebody plays, even through that server's map load,
  nor follows faster than the debounce. `MeshSettles`: a vote nobody rivalled has moved
  every server that can load its map when all is quiet again (`AllSwitched`), except a
  server that was loading another map for as long as the result was sent, and all of them
  when the master itself did (`missed`); votes end
  everywhere and idle servers reach the busiest one's map.

Why these bounds are enough for the questions asked: two reports, a fetch and a
join fill every rung of the eviction ladder with a queue of two; an overshoot
needs one loaded or one retried entry; a stale outcome needs one re-issue. A
page of two out of three ids has a full page, a short page and a page of several
batches, and two faults combine a lost answer with a kill. Two transactions
suffice for every conflict on a row and three for a cycle among which two could
share a version. In the suites every conflict is between two actors (replicas,
servers, uploads, workers), so two of each are given, with room for one of them
to act twice, and one fault so that it can fall between any two steps. Three idle
servers give a busiest one, a rival and a follower. Two servers of a mesh cannot
show what a third one's vote does between two masters: that is left to the theorem
`VotesConverge`, which holds for a mesh of any size. The proofs of section 5 remove
the bounds for the safety properties they state, of `RsApi`, `Announcer`,
`ResponseCache`, `Ingest`, `MeshVote`, `IdleFollow`, `Tournament`, `MonthlyCup`,
`Moderation`, `Replays`, `Operations`, `MapPack`, `Feeds`, `Aggregates` and `Mapgen`.

`CHECK_DEADLOCK FALSE` is set where the modelled world ends: all boots used, all
requests sent, all edits made. The announcer never stops, and its run checks for
deadlock.

### Findings

- `ghost_file`: the row is decided under FOR UPDATE, the file is written after the
  COMMIT; a beaten upload may write last, and the row then advertises a time its
  file does not have.
- `ingest_seized`: the canonical representative is read without a lock and
  inserted with an overwriting ON CONFLICT.

The following were met while modelling. They are visible in the models (most as
the exception a property makes) and have no run of their own:

- Game client: the worker compares the generation once and stores the result some
  statements later; a slot re-issued in between polls the previous fetch's outcome
  (`raced` in `FreshUnlessRaced`; `g_rs_api.cpp` promises 0 "until THIS fetch lands").
  A drain that spools more than `SPOOL_LOAD_MAX` lines loses the surplus at the next
  boot.
- Announcer: a page is taken for the last one if it is shorter than the limit asked
  for, but the server clamps the limit; a record committed between the two SELECTs
  of `recordsAfter` may be passed over (`window`); a batch whose answer was lost is
  announced again (`doubt`).
- Ingest: attempts, finishes and daily activity are added to on every delivery, so a
  re-sent request counts twice; with the counter row locked by every ingest that
  inserts, the map row's lock is not needed for exact ranks.
- Monthly cup: a force recorded between a pass's read of the period and its write of
  `blocked` is lost (`db.js:6823`), against the comment at `db.js:6820`.
- Tournaments: `setTournamentMaps` is a transaction of its own that checks no status;
  a run stamped before the end but committed after the freeze does not count
  (`server.js:1352` says every run does); a cancelled edition keeps its slug, and the
  series ends there.
- Achievements: a daily claim that waits across midnight may be taken twice for one
  day; a rebuild of identities between the choice of rows and their insertion gives
  one person an award twice; the progress bar of an average is rounded and ignores
  `minRuns`; "new in this window" is wrong for a player whose earlier best is older
  than the finish log and was improved since.
- Aggregates and achievements: `touchServer` failing after the commit (`server.js:2120`)
  skips the scheduling of a refresh and the queueing of the players for their awards
  (`server.js:2132-2135`). The sender gets a 5xx and sends again; if it is gone by then, or
  gives up, the finish is in nobody's hands until the pass over the whole field, which
  takes it up only if its rule still counts it (`missed`).
- Map jobs: with a worker slower than its lease two workers hold one job
  (`SlowWorkers`), although `worker.py` calls running two "safe".
- Moderation: overlapping load-failure reports each count without the other;
  making a quarantine a permanent block is two transactions, and another moderator's
  unblock in between leaves the map in neither.
- Operations: overlapping maintenance toggles interleave five separate writes. A toggle reads
  its clock before the first of them (`server.js:1731`): if a timer claims a notice in
  between, the stamp it writes is older than that notice, and the next one comes less
  than an interval later.
- Site: memos cleared before the commit can be refilled with old data; a page of
  several statements may be torn by a commit; a late view paints over a newer one,
  clears its timer or leaks its viewer; live edits push undo entries past the cap; every
  redraw of the editor's report turns the build button on again, a surface button, a brush,
  Escape or a late quota answer included, so that a second build can be sent while one is
  out (the server's quota bounds what comes of it);
  models that arrive after the replay viewer was closed are never disposed.
- Map pack: a pack replaced during a download by a file that is not shorter goes
  unnoticed; taking over a stale lock may remove a fresh one; a touched file is
  hashed again at every refresh; a Range without If-Range is honoured whatever the archive has
  become (`mappack.js:733`), so that `curl -C -`, which the header comment recommends
  (`mappack.js:20`), may stitch two archives together.
- Collector: a log truncated and regrown past the offset is read from the middle; a
  rotation loses what was not read; a line longer than `READ_CAP` stops the tail. Any 4xx
  drops a whole chunk, good lines included, and the file or the offset moves past it
  (`collector.js:89-97`, `226-227`): also a 401, a 403 or the 429 of the ingest limiter,
  while the comment at `collector.js:81` explains it with a malformed batch.
- Replays: a rebuild leaves ghosts and saved starts under former representatives; a first
  identity that overwrites another's row (`ingest_seized`), or a player inserted while a
  rebuild that did not list them runs, splits one person's rows and lets a duel have that
  person on both sides; a half-written ghost file is not restored.
- Response cache: the handler of a request whose client is gone runs on and its 200 is
  still stored (`cache.js:112-121`; the close handler, 131, only releases the followers), so
  a request nobody waits for can put an answer behind an eviction as any other can.
- Mesh votes: a pass does not forget the peers' subtotals, so at a master that stays
  on its map the next vote can pass with one voter, although `MESHVOTE_MIN_YES` is a
  "floor so one player can't move the mesh"; ballots belong to slots and survive their
  players; only servers whose tally has arrived count as eligible; two masters whose
  OPENs are lost may both pass, and the servers then swap maps; with three servers
  two masters need no loss: a follower gives its vote up for the smaller id of a third
  one, and when that one is over its cooldown (30 s) ends before the first vote (60 s)
  does, so that it may open its own beside it; a cancellation is
  sent once, and a peer that misses it waits for its own timeout. A server that loads a map
  while a result is sent (1.5 s) never hears of it and stays behind, as `meshvote.as:32`
  concedes, and a vote whose master loads another map by itself ends with that.
- Idle servers: the idle clock runs on while the rotation is held, and two servers
  that just emptied may follow each other once within the grace.

## 4. Fairness

Fairness is weak, and only of the chosen part in a suite. Liveness in a suite is
one formula `[]<>(P1 /\ P2 ...)`: resting parts satisfy their conjuncts, and faults
and operators are bounded, so that it says where each part comes to rest.

- `RsApi`: the worker thread runs when it can; a call the script thread is in
  continues; the think poller runs every frame. Nothing is assumed of the API:
  `Send` picks its outcome freely. Only `EventuallySettled` assumes, in its own
  statement, that a report that is sent again and again is answered in the end.
  Nothing makes the script stop, report or boot.
- `Ingest`: a statement that is not waiting runs, a handler answers, and
  PostgreSQL's deadlock detector fires. `Abort` and `ReplyLost` are never fair.
- `Announcer`: ticks come (setInterval), an await in a poll ends (every fetch has
  a timeout), a stopped process is restarted (the container's restart policy)
  and a cached answer expires. Faults are bounded by `MaxFaults`, which is the
  assumption that the API and the webhook recover.
- `ResponseCache`: a request's own steps are taken (the GET has a timeout, the
  handler returns), commands on a connection are executed or lost with it, and
  the TTL passes. The follow timeout, the reconnect and the evictions are not
  fair: `EveryRequestEnds` holds without the timeout and `EventuallyFresh`
  although no eviction may ever arrive.
- `MCSweeps`: timers fire, statements end, containers are recreated; a worker polls
  every five seconds and a server syncs every few minutes; the sweep interval fires.
- `MCPollers`: the same of the state timer, the collector's loop, the live round's
  timeouts and the filter's timer. The map pack needs one assumption more: a replica
  that asks again and again for a lock that is free again and again gets it, since
  refreshes are hours apart, a retry comes after a minute and a hash pass takes
  seconds.
- `MCMesh`: frames run, an event arrives or is lost, loads end, time passes. Players
  open, cast, cancel, come and go as they please.

## 5. Proofs

The theorems hold for every value of the constants that satisfies the named
assumptions. These say that limits, delays and bounds are natural numbers (positive
where the code's constant is), that names of different kinds differ, that the request
bodies of `Ingest` are well formed (an entry without a time comes from the race log
only) and its requests, players, maps and versions finitely many, so that what they add
up to is a sum, that players of the award tables are finitely many, that a course may
have two pieces (`SegCap`) and a dealt route two tiles (`MaxTiles`), that a map load (`LoadTicks`) takes less than `FollowGrace`, and that votes and
cooldowns last (`Duration`, `Cooldown`). Where a theorem has a hypothesis of its own, it
is stated below.

`RsApiProofs`:

- `TypeCorrect` (`TypeOK`). Not inductive alone: that a worker in its store
  window holds a fetch, and that a retried request has a type at all, needs
  `Phases`, which ties each thread's locals to its place. `TypeInv` is the two
  together; lemmas on removal from a sequence (`RemoveAtProperties`) and on the
  entry `makeRoomLocked` picks (`EvicteeInQueue`) carry the queue through `Push`.
- `QueueBounded` (`QueueBound`): queue, worker's hand and loader never hold more
  than `QUEUE_MAX` plus the greater of 1 and `SPOOL_LOAD_MAX`. `BoundInv` adds why the
  two unchecked pushes do not add up: until the loader has pushed, which it does
  once per boot and before the worker takes anything, the queue was filled only
  through `makeRoomLocked`.
- `Fresh` (`FreshUnlessRaced`): `FreshInv` adds that what the worker is about to
  publish in its store window is of the current generation unless the slot was
  re-issued meanwhile.
- `EveryReportAccounted` (`Accounted`) and `NoReportTwice` (`HeldOnce`), together from
  `CustodyInv`: neither is inductive without the other (a report held twice would
  still be held after it is settled), nor without the two facts about the process
  it adds: `stop` is set only while the script thread joins the worker, and a worker
  has returned only with an empty queue, so that a boot forgets nothing. Lemmas say what
  each operation on the queue does to the set of reports in it.
- `DrainCostsTwo` (`DrainCost`): `DrainInv` counts the failures still to come, one
  for a fetch whose reply was not weighed yet and one for the drain's first report.
- `ReportsOutliveFetches` (`EvictionLadder`), an action property.
- `NothingLostWithRoom` (`NothingLost`), under the hypotheses that rule out the ways the
  code has to lose a report: the queue has a place (`makeRoomLocked` evicts nothing) and the
  spool file is no longer than the loader reads (`[]Room`), the process does not crash (also
  `Room`), the file can be opened (`~SpoolCanFail`) and no report exceeds its line
  (`Oversized = {}`). Shutdowns and boots, a dead API, rejected and repeated sends are all
  allowed. `RoomInv` adds that every line on disk is in the loader's hands before the file
  is removed. The run `lifecycle` has the same hypotheses by its bounds.

`PollersProofs`, for any number of replicas, ids, lines, packs and clients. The announcer:

- `AnnouncerTypeCorrect` (`TypeOK`).
- `NoSkipOutsideWindow` (`SkipsOnlyInWindow`), under `MaxPerPoll <= ServerCap`. The
  hypothesis is needed: the code takes a page for the last one if it is shorter
  than the limit it asked for, but the server clamps that limit to 50. The invariant
  says of each piece of state which ids it accounts for: below the cursor, in
  memory and on disk, every standing record is announced, in the window or in a
  baseline; a page, in progress or cached, holds every standing record between
  the id it was asked for and its last row, and, if it is short, up to `maxId`;
  a half-posted page is split at the cursor. Commits can only add above `used`,
  and deletions only shrink what must be covered (`FeedStep`), which is exactly
  what `RaceFeed` promises and `Ingest` is proved to keep.
- `CursorNeverBack` (`CursorForward`), an action property, from `PageInv`: every page
  lies above the cursor it was asked with, so `max(maxId, last row)` does too, even
  when the newest row was deleted between the two reads.
- `NoSecondAnnouncement` (`AnnouncedTwiceOnlyInDoubt`): `TraceInv` says that an
  announced id above a cursor (in memory, on disk, in the rest of a page) is in
  doubt.

The other parts:

- `EditsApplied` (`EditApplied`, a conjunct of `FilesSound`), from `ReloadInv`: a load that
  began after the edit has read it, and one that finds its replica ahead of it leaves it
  `crossed`.
- `OperatorsSideIsSound` (`OpsSound`). `MaintInv`: while one toggle alone is under way,
  the configuration, its message and its time agree as far as that toggle has come
  (`Alone`); overlapping toggles are the exception the property names. A notice is tight only if the claim's clock is less than an interval
  after the last notice; the stamp in the row, which a claim must have reached, is an
  interval after that notice unless a toggle wrote an older one. `LimitInv`: the open
  window of the limiter counts every request since it began and let no more than `Allowed`
  through, and no earlier window that still matters let more, so any stretch of a window's
  length meets two windows at most. `NewestRowsStay` (`NewestKept`): a pruning keeps the
  greatest ids it reads.
- `FilesAreSound` (`FilesSound`). `PackInv`: while no lock was broken, who hashes holds
  it alone; what an index, a layout or a client's parts say of a file is what the mirror
  holds for as long as the file keeps the stamp it was hashed under; and what a client has
  and what it waits for are together the archive its ETag names, until it is served a range
  of another. `ColInv`: unless a
  file was cut, every line below an offset of this file, in memory and on disk, was posted
  or refused, and what a tick has read and not posted is still to post.

`SiteProofs`, for any number of replicas, requests, dropped connections, navigations,
edits, pieces of a course and frames of a replay:

- `LeadersRun` (`InflightRuns`, a conjunct of `CacheSound`), without hypothesis. `Leads`
  says that a registered request runs at the replica that registered it and has not
  settled, which rests on registering before the first await; `Built` says what the
  program counter implies of a request's locals.
- `CacheIsSound` (`CacheSound`), under `FastHandlers`: a handler that reads before an
  eviction has answered before the second DEL (`REINVALIDATE_MS`). A slower one stores
  a body that nothing evicts before its TTL, so the hypothesis is what the two-stage
  DEL is for. `NothingOlder` accounts for every place an old body can wait: Redis,
  a command on its way, a handler, a follower's leader.
  A handler whose client left reads and stores like any other, within the same time.
- `BrowserIsSound` (`BrowserSound`), of each view's own specification and of the run's,
  whose restrictions it does not need. `PageParts`: unless a navigation overlapped another,
  only the page that was asked for last still has blocks to run or polls to answer, and
  what it is to show is on the screen or in a block to come (`WillShow`); a viewer, an
  editor or a stream that runs is held by the page it belongs to (`Held`). `EdParts`:
  whoever works in a control has a state to go back to, a selection lies within the course,
  and the states on the two stacks are numbered in the order they were made, which is what
  undo and redo rest on. `Sound`: the pieces of a dealt route share no cell and keep out of
  the spawn; it is inductive only with `Chained`, that the way on from where a piece was
  entered never leads back to it, because the code tests a new piece against all but the
  last. `ViewerInv`: a camera mode is rendered when it is set and when the models
  come, and the viewer believes in a key only while it can hear its release.
- `FloorIsKept` (`FloorKept`, a conjunct of `SiteHonest`), an action property, from the same.
- `SiteStaysFresh` (`SiteFresh`), of the cached reads' own specification and of the run's.
  `ReadApi` has no constants, so the run decides it too; the proof says why it holds and what
  a new route owes. `RoutesAreGood` goes through the table of routes: a query behind a key
  that is evicted at once reads no table the rebuild swaps in and no memo, and the map page
  alone reads the memo, in its last statement. For any route that satisfies it, `ReadInv` is
  inductive: an answer in the making misses no more than the rebuild and the memo explain
  (`MissedBounds`), each copy adds its life (`CopyBounds`), and the second eviction waits for
  the handler at work, so that nothing stored after it misses the write.

`IngestProofs`, for any number of connections, requests, players, maps and versions:

- `CyclesOfTwoVersions` (`CyclesCrossVersions`): `LocksHeld` says which row locks a
  transaction at a given statement holds; everyone who waits holds its version row.
- `RanksAlwaysExact` (`RanksExact`): the ranks stored are those of the committed rows. It is
  inductive only with `TablesSound`, which says the same of each transaction's view (the
  table as it would leave it), that its rows are of its map, whose row it has locked, and
  that its new ids lie above every visible one because it holds the counter row.
- `BestAlwaysOnRecord` (`BestOnRecord`): `BestSoFar` says, of the table and of every view,
  that a run key has a row exactly if a time was offered, and it holds the least one; a
  view accounts for the committed times and the entries it is through with.
- `CountedOnce` (`CountedPerCommit`): attempts and finishes of a run key are what the
  committed deliveries add up to, a sum over the requests of how often each was committed
  times what its entries count; the daily total is the sum over the keys. `CountInv` says
  (`NotesSound`) that a transaction has noted exactly what the entries it is through with
  count, nothing if its request is no live one and nothing once it ended, so its commit
  adds one more time what its request counts. The sums are taken apart by the lemmas of
  `SumTheorems`.
- `FeedImplemented` (`ImplementsFeed`): the refinement. `RaceFeed` has `IdBound` ids, a
  bound of the instance and not of the code, so the theorem is for behaviours in
  which no greater id is committed (`[](newest <= IdBound)`). A commit maps to
  `CommitRows`: its new ids are above `newest`, and no committed row moves up in rank;
  every other step is a stutter. No liveness is involved: `RaceFeed` is a safety
  specification.

`MeshProofs`, for a mesh of any size:

- `IdleServersFollow` (`FollowSound`): `Remembers` relates one server's memory of another
  to how long that one has been silent: an entry is as old as the silence, or one tick older,
  and if there is none, the peer was silent for the grace or for as long as the server is
  up. `Blank` says what a map load forgets; that servers which have thought this
  tick saw whoever is there closes the step from one tick to the next.
- `VotesAreSound` (`VoteSound`), of the next two. `VotesNeedVoters` (`VoteFloor`): `FloorInv`
  says that while a vote runs nobody's yes is forgotten, and that neither a subtotal on
  its way nor one its master has noted says more than was cast at the server it is from
  (`Backed`). What the master adds up is then a sum over servers of ballots that are each
  counted once (`VotersSum`), so a pass with fewer voters than `MinYes` must have counted
  a subtotal of another vote or a ballot taken over, which is what `old` records.
- `VotesConverge` (`OneMasterSoon`, a conjunct of `VoteSound`): `Owned` says that a vote, its
  events and its result belong to the server its id names; `Settled` that a result
  is out only when its vote is over, that a master decides in the frame its time is up, and
  that a follower does not give up before its master decides; then every server with a
  greater tag than a master's either still has that master's OPEN to come, has a reason
  not to know (`unaware`), follows it, or waits out the cooldown of having just followed it
  (`Aware`). The last case is why the code needs a cooldown: a follower that expires in
  the frame in which its master decides could open a vote beside it otherwise.

`ResultsProofs`, for any number of servers, replicas, uploads, players, months and reports:

- `ContestsAreSound` (`ContestSound`), if there is a limit on skips. `TourInv`: a join
  that enters holds the row of its code, and no other join does; ids are handed out in
  order; only a closed window is frozen, and a run under way that cannot count any more was
  frozen out after its end. `CupInv`: a month is decided before the next one, by a pass that
  has the months before it as they stay, so the streak it counts is the one on record; an
  edition that was made is on record as scheduled, unless the record was lost.
- `ResultsAreSettled` (`ResultsStay`), an action property, from the same invariants.

- `MapsStayOff` (`OffTheServers`), from `QuarantineInv`: a report under way carries the
  counts of the rows it has seen, a quarantine outlasts each report it rests on, and the
  second statement of a permanent block runs only while the block stands or somebody
  lifted it. Writes are of two statements, so the property is not inductive without what
  each holds between them.
- `StoresSound` (`ReplaySound`) and `RowsOnlyGetFaster` (`RowsOnlyFaster`, a conjunct of
  `ResultsStay`). `GhostInv`: the map row's lock makes the look at the row and its update
  one step, and what is about to be written to the file was in the row. `PeopleInv`: what a
  transaction has resolved a nick to is the representative it sees (its own first row,
  or the committed one), and it holds that player's row (`TxInv`); a rebuild moves
  representatives only with the row of every player it listed in its hands (`RebuildInv`);
  and what is stored for a key is stored under its representative. All three hold until
  the key is `seized`: two transactions that each found no representative, or a rebuild
  that did not list a player.

`SweepsProofs`, for any number of replicas, workers, requesters and jobs:

- `TablesAreSound` (`AggSound`) and `TablesGoForward` (`AggForward`, a conjunct of
  `SweepsKeep`), under `[]Prompt`: a snapshot of the ratings ends before its day is
  `SR_HISTORY_DAYS` old. The hypothesis is needed: the prune of a later day's snapshot
  removes the row that tells a late one it was taken. `AggInv` says who owes a rebuild
  (`Owes`: a timer, a request for another pass, a pass that reads after the write, a
  drain), that timer and dirtiness of a refresher add up to no more than the cap (`Timed`),
  and that one replica builds at a time, from a read no older than what is published.
- `MapsAreSound` (`MapgenSound`) and `PublishedStay` (`PublishedStays`, a conjunct of
  `SweepsKeep`), under `~SlowWorkers`: a claim goes stale only when its worker is dead,
  which is what the worker's lease is for. `MgInv` ties what a worker is about to do to its
  row (`Holds`: status, name, and the pack in the store once it is renamed), which makes
  `OneWorker` and the statuses inductive together. What was given back has ended
  (`JobOk`), so that every refund drops exactly one job from the requester's count; the
  counts themselves are cardinalities of the charged and spent jobs, and `GiveBack` and
  `SubmitKeeps` follow one job into or out of them.

- `AwardsAreOwed` (`AchSound`, a conjunct of `AwardsSound`), for the achievement passes
  alone: `AchInv` says that a pass never has a day that has not come, and that no day
  after the last one claimed was ever claimed, as long as every claim is made on its own
  day. A claim is then of a day that is greater than every claimed one. What each step
  does to one replica is a lemma on its record; `InHand`, the players a replica has still
  to answer, queue or evaluate, loses somebody only in a step that awards, or counts as missed, every
  finish of theirs, or in which they are refused and send again.
- `AwardsAreSound` (`AwardsSound`), of the passes and the rules they evaluate, each alone and
  in the run (which needs the map and the measure its finishes are of). `RulesAreSound`
  (`RulesSound`) is about tables that `RulesInv` describes: a representative represents
  itself, and a personal best is of the day of a logged finish, or older than the log.
  For each kind of rule its value and its gate agree on who has reached the target
  (`BarOf`), where a least rank or a greatest speed decides because numbers have one
  (`LeastWithin`, `MostOver`) and the average because it is compared before it is
  rounded. A streak: two days are as far from their row numbers exactly if no day
  between them is missing (`NoGap`), so an island is a run of consecutive days and the
  largest one the longest run (`LargestIsland`).
- `OneAwardEach` (`AwardOncePerPerson`), an action property: the rows of a pass are
  representatives, and no two of these are one person, unless identities moved between the
  choice of the rows and their insertion.
- `SweepsAreKept` (`SweepsKeep`), of the above, under the conditions of each.

`GhostInv`, `PeopleInv`, `QuarantineInv`, `ReloadInv`, `AggInv`, `MgInv`, `AchInv`,
`RulesInv`, `ReadInv`, `EdInv`, `DealInv` and `ViewerInv` were checked by TLC on the bounds of their
runs before they were proved (`AggInv` and `MgInv` with two faults).

Three attempts failed, or proved too little, for a reason that was the model's.
`IdleFollow` kept who had thought in the current tick across a map load, which forgets
that global; and `OneMasterSoon` excused only lost OPENs, which is enough for two servers,
where TLC checks it, and false for three (see the mesh votes under Findings). `Achievements` let the daily pass of the whole
field settle finishes another replica was about to evaluate; now only the pass a finish
was queued for does. All three were corrected from the source, and the
new invariants were checked by TLC before they were proved, the second also by simulation
with three servers.

`SumTheorems` has the lemmas on data the others share. The library's induction theorems
take an operator as a parameter, which the provers cannot instantiate; but the order of
the numbers and the inclusion of finite sets are well founded, so a set of counterexamples
would have a least element, and a claim whose counterexamples never have one holds
(`LeastNat`, `LeastSet`). This is how a sum over a finite set is taken apart (`SumTake`),
compared (`SumMono`) and followed through a change of one summand (`SumChange`, `SumPut`).

Only model-checked:

- every liveness property (fairness and ENABLED are beyond the prover);
- the conjunct `AllSwitched` of `MeshSettles`: it holds while fewer events are lost between
  servers that listen than a result is repeated, which is a matter of the run's bounds.

## 6. Not modelled

`PROJECT.json` lists every component with its status. Left out for good are pure
I/O and rendering (menus, HUD, markup, charts, rcon, og images), decoders of large
binary files (demos, maps, models), numeric geometry (the map generator, the course
viewer), build-time patch scripts, migrations and shell glue.

Details of modelled parts that are left out: a client that leaves while its request still
waits for Redis, before the cache listens for that; the ingest's checkpoints,
attempts-at-PB, `last_update` and replay columns, and its `wr_demo` branch (one
UPDATE); the announcer's dry-run mode; the client's shared feeds; `mapgenSetHidden`
(one UPDATE); the trusted-server gate of `/game/duel`; the form that parses
achievement rules; the list of recent maps and the vetoes of the rotation; the SQL
of each page beyond what it reads; and the mirror mesh except the events it carries
for votes (sent, repeated once, deduplicated, lost).

## 7. Plan

What is still to come, in this order:

1. `SharedFeeds`: the single-buffer feeds on the client's worker and the top-score
   import of `apitop.as`.
2. `Mirror`: peers, sequence numbers, expiry and bot slots.
3. `PlayerRace`: race, practice and checkpoint states with the attempt counters
   of `racelog.as`; then duels in game.
4. The crash guard's counting, and the site's random deck.

Proofs to add: a reading of the liveness properties as safety with a counter (who is
overtaken how often), which is the part of them the provers could take.
