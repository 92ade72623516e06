------------------------------ MODULE ReadApi ------------------------------
(***************************************************************************)
(* The cached reads of the site: for every GET route behind cache(), what  *)
(* it queries (web/db.js), how long its answer lives in Redis, at the edge *)
(* and in a tab (web/cache.js, web/server.js), and what the writers of     *)
(* those tables evict.  How long can a visitor or a game server be shown   *)
(* an answer without a committed write?                                    *)
(*                                                                         *)
(* A query is the sequence of its statements, a statement the set of the   *)
(* tables it reads; no page is read in one transaction, so a write may     *)
(* commit between two statements.  One route and one write are followed at *)
(* a time.  Instead of a clock, an answer that misses the write carries    *)
(* how many seconds after the commit it may still be shown, worst case:    *)
(* the moment it was made at the latest, plus how long it is kept.  A      *)
(* handler takes no time of its own (slow ones are in ResponseCache).      *)
(***************************************************************************)
EXTENDS Integers, Sequences, FiniteSets, FiniteSetsExt, SequencesExt

VARIABLES rdroute,   \* the route followed
          rdwrite,   \* the write followed
          rdone,     \* what has happened of: memo, commit, evict, sweep, rebuild
          rdcache,     \* the stored answer: until when it is shown without the write
          edge,      \* the edge's copy, likewise
          tab,       \* a tab's copy
          memo,      \* the perfect-run memo of the replica that answers
          fill       \* the handler at work

readVars == <<rdroute, rdwrite, rdone, rdcache, edge, tab, memo, fill>>

Derived == {"best", "standings", "map_index"}     \* swapped in by refreshAggregates
RefreshMaxWait == 30
PerfectTtl == 300
SweepDelay == 1

-----------------------------------------------------------------------------
(* The queries. *)
servers == <<{"server"}>>
recentRecords == <<{"race", "player", "map", "server"}>>
recentFinishes == <<{"finish", "finish_checkpoint", "player", "map", "server", "best"}>>
overview ==
  <<{"map", "map_block", "player", "standings", "race", "run_tally", "checkpoint", "map_index"},
    {"race"}, {"standings", "player"}>> \o recentRecords \o <<{"config"}>> \o servers
gameTopscoresText == <<{"map"}, {"race", "player"}, {"checkpoint"}>>
gameRanksText == <<{"map"}, {"race", "player"}>>
playerSkillRating == <<{"standings", "player"}>>
gamePlayerRecordText == <<{"map"}>> \o playerSkillRating \o <<{"race", "player"}, {"checkpoint"}>>
gameAwardsText == <<{"player_achievement", "achievement", "player"}>>
ghostGzip == <<{"player_ghost"}>>
gameGhostText == <<{"map"}>> \o ghostGzip
maps == <<{"map_index", "map_block", "map_weapon"}, {"map_index", "player", "map_block", "map_weapon"}>>
demoMaps == <<{"player_demo", "map", "map_block"}, {"player_demo", "map", "map_block"}>>
demosForMap == <<{"map"}, {"player_demo", "player"}>>
allDemos == demoMaps \o <<{"player_demo", "player"}>>
perfectRun == <<{"race", "checkpoint", "player", "memo"}>>
mapDetail ==
  <<{"map"}, {"map_index"}, {"best", "player"}, {"player_demo"}, {"player_ghost"}, {"race", "player"},
    {"checkpoint"}, {"player"}, {"player_demo", "player"}, {"player_ghost", "player"}>>
  \o recentFinishes \o <<{"site_setting"}>> \o perfectRun
players == <<{"standings", "player"}, {"standings", "player"}>>
earnedAchievements == <<{"player_achievement", "achievement", "player"}>>
playerTrophies == <<{"player"}, {"tournament_standing", "tournament_trophy", "tournament", "player"}>>
playerDuels == <<{"player"}, {"duel", "map", "player"}, {"duel", "player"}>>
playerDetail ==
  <<{"player"}, {"standings"}, {"sr_history", "player"}, {"standings", "player"}, {"run_tally"}, {"finish"},
    {"best", "map"}, {"best"}, {"best", "map", "run_tally"}, {"player_demo"}, {"player_ghost"}>>
  \o earnedAchievements \o playerTrophies \o playerDuels \o recentFinishes
srDistribution == <<{"standings"}, {"standings"}>>
playTimes == <<{"finish", "player", "server"}, {"finish", "server"}, {"finish"}, {"server"}>>
runActivity == <<{"finish"}, {"run_activity_daily"}, {"run_tally"}, {"finish", "run_activity_daily"}>>
blogList == <<{"blog_post"}, {"blog_post"}>>
blogBySlug == <<{"blog_post"}>>
blogNeighbours == <<{"blog_post"}, {"blog_post"}>>
blogSitemap == <<{"blog_post"}>>
sitemapUrls == <<{"map_index", "map_block"}, {"standings", "player"}, {"tournament"}>>
srBreakdown == <<{"player"}, {"standings"}, {"site_setting"}, {"best", "map"}>>
playerCard == <<{"player"}, {"standings"}>>
compare == playerCard \o playerCard \o <<{"best"}, {"best", "map"}>>
search == <<{"map_index"}, {"player", "standings"}>>
recordsAfter == <<{"race", "player", "map"}, {"race"}>>
blockedMaps == <<{"map_block", "map"}>>
blockedMapNames == <<{"map_block", "map", "map_quarantine"}>>
gameMapWeaponsText == <<{"map_weapon"}>>
gameLastMapsText == <<{"finish", "map"}>>
playerAchievements == <<{"player"}>> \o earnedAchievements \o <<{"achievement"}, {"finish"}>>
achievementsDirectory == <<{"standings"}, {"achievement", "player_achievement", "player"},
                           {"player_achievement", "player", "achievement"}>>
tournaments == <<{"tournament"}, {"tournament_map", "tournament_entrant", "tournament"}>>
tournamentDetail == <<{"tournament"}, {"tournament_map", "map"},
                      {"tournament_standing", "tournament_entrant", "finish", "player"},
                      {"finish", "player"}, {"tournament_entrant", "player"}>>
gameTourneyText == <<{"tournament"}, {"tournament_map", "tournament_entrant", "map"}>>
getSetting == <<{"site_setting"}>>

-----------------------------------------------------------------------------
(* The routes: key, seconds in Redis, edge-cached or not, query.  Routes   *)
(* of the api router have mount-relative default keys.                     *)
Route(key, ttl, atEdge, query) == [key |-> key, ttl |-> ttl, atEdge |-> atEdge, query |-> query]

topscoresCacheKey == "/api/game/topscores"
ranksCacheKey == "/api/game/ranks"

getMapRoutes == {Route("/maps", 60, TRUE, maps), Route("/maps/blocked", 60, FALSE, blockedMaps)}
getMap == {Route("/maps/:id", 30, TRUE, mapDetail)}
getDemos == {Route("/demos", 60, TRUE, demoMaps), Route("/demos/all", 60, TRUE, allDemos),
             Route("/demos/:mapId", 60, TRUE, demosForMap)}
getStats == {Route("/stats/playtimes", 300, TRUE, playTimes), Route("/stats/runs", 300, TRUE, runActivity)}
getBlog == {Route("/blog", 120, TRUE, blogList), Route("/blog?limit=10", 120, TRUE, blogList),
            Route("/blog?offset", 120, TRUE, blogList),
            Route("/blog/this", 120, TRUE, blogBySlug \o blogNeighbours),
            Route("/blog/other", 120, TRUE, blogBySlug \o blogNeighbours)}
getPlayers == {Route("/players", 60, TRUE, players), Route("/players/:id", 30, TRUE, playerDetail),
               Route("/players/:id/sr", 60, TRUE, srBreakdown), Route("/sr/distribution", 300, TRUE, srDistribution),
               Route("/achievements", 300, TRUE, achievementsDirectory),
               Route("/players/:id/achievements", 60, TRUE, playerAchievements),
               Route("/players/:id/trophies", 60, TRUE, playerTrophies)}
getTournaments == {Route("/tournaments", 30, TRUE, tournaments), Route("/tournaments/:slug", 15, TRUE, tournamentDetail)}
getLookups == {Route("/compare", 60, TRUE, compare), Route("/search", 60, FALSE, search),
               Route("/records", 20, FALSE, recordsAfter)}
getOverview == {Route("/overview", 45, TRUE, overview)}
gameBoards == {Route("/api/game/topscores", 30, FALSE, gameTopscoresText), Route("/api/game/ranks", 60, FALSE, gameRanksText)}
gamePlayer == {Route("/api/game/player-record", 60, FALSE, gamePlayerRecordText),
               Route("/api/game/awards", 15, FALSE, gameAwardsText), Route("/game/ghost", 15, FALSE, gameGhostText)}
gameLists == {Route("/game/blocked-maps", 30, FALSE, blockedMapNames)}
gameFeeds == {Route("/game/map-weapons", 600, FALSE, gameMapWeaponsText), Route("/game/last-maps", 60, FALSE, gameLastMapsText),
              Route("/game/tournament", 60, FALSE, gameTourneyText)}
gameTexts == {Route("/game/motd", 30, FALSE, getSetting), Route("/game/announcements", 30, FALSE, getSetting)}
getFeedXml == {Route("/blog.xml", 600, TRUE, blogList)}
getSitemaps == {Route("/sitemap-*.xml", 21600, TRUE, sitemapUrls \o blogSitemap)}

Routes == getOverview \cup getMapRoutes \cup getMap \cup getDemos \cup getStats \cup getBlog \cup getPlayers
          \cup getTournaments \cup getLookups \cup gameBoards \cup gamePlayer \cup gameLists \cup gameFeeds
          \cup gameTexts \cup getFeedXml \cup getSitemaps

-----------------------------------------------------------------------------
(* The writes: tables, keys evicted after the commit, and whether the      *)
(* ranking tables are rebuilt from it.                                     *)
Write(tables, evicts, rebuild) == [tables |-> tables, evicts |-> evicts, rebuild |-> rebuild]

invalidateBlog == {"/blog", "/blog?limit=10", "/blog/this", "/blog.xml"}

ingest == Write({"race", "checkpoint", "finish", "finish_checkpoint", "run_tally", "run_activity_daily",
                 "player", "map"}, {ranksCacheKey, topscoresCacheKey}, TRUE)
blogEdit == Write({"blog_post"}, invalidateBlog, FALSE)
blockMap == Write({"map_block"}, {"/game/blocked-maps"}, FALSE)
unblockMap == Write({"map_block"}, {}, FALSE)
quarantine == Write({"map_quarantine"}, {"/game/blocked-maps"}, FALSE)
setMapgenRated == Write({"site_setting"}, {}, TRUE)
otherWrites == {Write({t}, {}, FALSE) : t \in
  {"site_setting", "duel", "player_demo", "player_ghost", "player_achievement", "achievement", "map_weapon",
   "tournament_standing", "tournament_entrant", "tournament", "server", "sr_history"}}

Writes == {ingest, blogEdit, blockMap, unblockMap, quarantine, setMapgenRated} \cup otherWrites

-----------------------------------------------------------------------------
(* cache(): the lifetimes of an answer.  The edge keeps it for s-maxage    *)
(* and serves it stale while it revalidates; a tab for max-age, and stale  *)
(* likewise.                                                               *)
MaxAge(ttl) == Min({ttl, 15})
MutSwr(ttl) == ttl
Swr(ttl) == Min({ttl, 30})

NoCopy == -2         \* nothing stored
Whole == -1          \* an answer that shows the write
IdleFill == [pc |-> 0, old |-> Whole, keep |-> NoCopy]
ttl == rdroute.ttl
Touches(r, w) ==
  \E i \in DOMAIN r.query : r.query[i] \cap (w.tables \cup (IF w.rebuild THEN Derived ELSE {})) # {}

ReadInit ==
  /\ rdroute \in Routes /\ rdwrite \in {w \in Writes : Touches(rdroute, w)}
  /\ rdone = {} /\ rdcache = NoCopy /\ edge = NoCopy /\ tab = NoCopy /\ memo = NoCopy /\ fill = IdleFill

\* The latest moment of this step, if it was to happen before t.
Latest(t) == IF "commit" \notin rdone THEN 0
             ELSE IF "sweep" \notin rdone THEN Min({t, SweepDelay}) ELSE t

\* A copy of x that is kept for life seconds.
Copy(x, life) == IF x < 0 THEN Whole ELSE Latest(x) + life

\* A statement misses the write while a table it reads has not got it.
Missed(s) ==
  Max({Whole} \cup (IF s \cap rdwrite.tables # {} /\ "commit" \notin rdone THEN {0} ELSE {})
              \cup (IF rdwrite.rebuild /\ s \cap Derived # {} /\ "rebuild" \notin rdone THEN {RefreshMaxWait} ELSE {}))

\* A request misses Redis and its handler starts.
StartFill ==
  /\ fill.pc = 0 /\ rdcache = NoCopy
  /\ fill' = [IdleFill EXCEPT !.pc = 1]
  /\ UNCHANGED <<rdroute, rdwrite, rdone, rdcache, edge, tab, memo>>

\* Its next statement; the perfect run comes from the memo while that lasts.
Statement ==
  /\ fill.pc \in DOMAIN rdroute.query
  /\ LET s == rdroute.query[fill.pc]
         hit == "memo" \in s /\ memo # NoCopy
     IN fill' = [pc |-> fill.pc + 1,
                 old |-> Max({fill.old, IF hit THEN memo ELSE Missed(s)}),
                 keep |-> IF "memo" \in s /\ ~hit THEN Copy(Missed(s), PerfectTtl) ELSE fill.keep]
  /\ UNCHANGED <<rdroute, rdwrite, rdone, rdcache, edge, tab, memo>>

\* The memo is set, and res.send stores the answer with the route's TTL.
StoreAnswer ==
  /\ fill.pc = Len(rdroute.query) + 1
  /\ rdcache' = Copy(fill.old, ttl)
  /\ memo' = IF fill.keep # NoCopy THEN fill.keep ELSE memo
  /\ fill' = IdleFill
  /\ UNCHANGED <<rdroute, rdwrite, rdone, edge, tab>>

\* A hit is served as it is and is not stored again.
EdgeFetch ==
  /\ rdroute.atEdge /\ rdcache # NoCopy
  /\ edge' = Copy(rdcache, ttl + Swr(ttl))
  /\ UNCHANGED <<rdroute, rdwrite, rdone, rdcache, tab, memo, fill>>

TabFetch ==
  /\ edge # NoCopy
  /\ tab' = Copy(edge, MaxAge(ttl) + Swr(ttl))
  /\ UNCHANGED <<rdroute, rdwrite, rdone, rdcache, edge, memo, fill>>

CopyExpires ==
  /\ \/ rdcache' = NoCopy /\ UNCHANGED memo
     \/ memo' = NoCopy /\ UNCHANGED rdcache
  /\ UNCHANGED <<rdroute, rdwrite, rdone, edge, tab, fill>>

\* _ingestTx drops the memo of its own replica, before it commits; what is
\* followed may be the other replica's.
MemoDelete ==
  /\ rdwrite = ingest /\ rdone = {} /\ rdone' = {"memo"}
  /\ memo' \in {NoCopy, memo}
  /\ UNCHANGED <<rdroute, rdwrite, rdcache, edge, tab, fill>>

CommitWrite ==
  /\ "commit" \notin rdone /\ (rdwrite = ingest => "memo" \in rdone)
  /\ rdone' = rdone \cup {"commit"}
  /\ UNCHANGED <<rdroute, rdwrite, rdcache, edge, tab, memo, fill>>

\* invalidate: at once, and again a second later, when whatever handler was
\* at work has ended.
EvictKeys(step, after) ==
  /\ after \in rdone /\ step \notin rdone
  /\ step = "sweep" => fill.pc = 0
  /\ rdone' = rdone \cup {step}
  /\ rdcache' = IF rdroute.key \in rdwrite.evicts THEN NoCopy ELSE rdcache
  /\ UNCHANGED <<rdroute, rdwrite, edge, tab, memo, fill>>

Rebuild ==
  /\ rdwrite.rebuild /\ "commit" \in rdone /\ "rebuild" \notin rdone
  /\ rdone' = rdone \cup {"rebuild"}
  /\ UNCHANGED <<rdroute, rdwrite, rdcache, edge, tab, memo, fill>>

ReadNext ==
  \/ StartFill \/ Statement \/ StoreAnswer \/ EdgeFetch \/ TabFetch \/ CopyExpires
  \/ MemoDelete \/ CommitWrite \/ EvictKeys("evict", "commit") \/ EvictKeys("sweep", "evict") \/ Rebuild

-----------------------------------------------------------------------------
(* The boards a record announcement is checked against, the vote pool and  *)
(* the post that was edited: the keys whose eviction the code relies on.   *)
AtOnce ==
  \/ rdroute.key \in {"/api/game/topscores", "/api/game/ranks"} /\ rdwrite = ingest
  \/ rdroute.key = "/game/blocked-maps" /\ rdwrite \in {blockMap, quarantine}
  \/ rdroute.key \in {"/blog", "/blog?limit=10", "/blog/this", "/blog.xml"} /\ rdwrite = blogEdit

(* How far a stored answer may be behind: a second where the code evicts,  *)
(* else the TTL, after the rebuild where it shows ranking tables, after    *)
(* the memo where it shows a perfect run.                                  *)
RebuildLag == IF rdwrite.rebuild /\ \E i \in DOMAIN rdroute.query : rdroute.query[i] \cap Derived # {}
              THEN 30 ELSE 0
MemoLag == IF rdwrite = ingest /\ rdroute.query = mapDetail THEN 300 ELSE 0
OriginLag == (IF AtOnce THEN 1 ELSE ttl) + RebuildLag + MemoLag

(* An answer without a committed write is gone from Redis, from the edge   *)
(* and from the tab within the sum of the lifetimes on the way, whatever   *)
(* statement of the query the commit fell between; and the tab adds at     *)
(* most 15 + 30 seconds of its own ("Capping both keeps a reload honest"). *)
SiteFresh ==
  /\ "sweep" \in rdone /\ AtOnce => rdcache \in {NoCopy, Whole} \/ rdcache <= OriginLag
  /\ ~AtOnce => rdcache <= OriginLag
  /\ edge <= OriginLag + ttl + 30
  /\ tab <= OriginLag + ttl + 30 + 45

(* Why: an answer misses no more than the rebuild and the memo explain,    *)
(* and after the second eviction of an AtOnce key no answer, stored or in  *)
(* the making, misses the write.                                           *)
ReadInv ==
  /\ rdroute \in Routes /\ rdwrite \in Writes
  /\ ("evict" \in rdone => "commit" \in rdone) /\ ("sweep" \in rdone => "evict" \in rdone)
  /\ fill \in [pc : Nat, old : Int, keep : Int] /\ (fill.pc = 0 => fill = IdleFill)
  /\ {rdcache, edge, tab, memo} \subseteq Int
  /\ Whole <= fill.old /\ fill.old <= RebuildLag + MemoLag
  /\ fill.keep <= MemoLag /\ memo <= MemoLag
  /\ rdcache <= ttl + RebuildLag + MemoLag
  /\ "sweep" \in rdone /\ AtOnce => rdcache \in {NoCopy, Whole} /\ fill.old = Whole
  /\ edge <= OriginLag + ttl + 30
  /\ tab <= OriginLag + ttl + 30 + 45

ReadSpec == ReadInit /\ [][ReadNext]_readVars
=============================================================================
