---- MODULE Pages ----
(***************************************************************************)
(* The site's single page (web/public/assets/js/app.js): the router, the   *)
(* views it dispatches to, their polls and viewers.  Everything runs on    *)
(* one thread; a view runs in blocks, and between two blocks it awaits     *)
(* something, while other handlers run.  No view checks that it is still   *)
(* wanted after an await.  A view below is the set of its possible         *)
(* sequences of blocks, a block the sequence of the effects it has on the  *)
(* shared page; markup and data are left out.                              *)
(***************************************************************************)
EXTENDS Integers, Sequences, FiniteSets, SequencesExt

CONSTANT MaxNavs    \* bound: navigations in one tab

ASSUME PagesAssumption == MaxNavs \in Nat \ {0}

VARIABLES nav,      \* the current navigation; 0 before the first
          path,     \* the path of each navigation
          act,      \* the blocks each navigation's view has yet to run
          pg,       \* the page and the module's variables
          polls,    \* refreshes in flight, as <<kind, navigation>>
          typed,    \* navigations whose list filter has a debounce pending
          picked,   \* the path the visitor last asked for
          overlap,  \* something older was still pending when this navigation began
          everlap   \* ... or when any navigation did

pageVars == <<nav, path, act, pg, polls, typed, picked, overlap, everlap>>

Navs == 1..MaxNavs
Plain == {<< <<"loading">>, <<"paint">> >>}      \* loading(); await api(); app.innerHTML = ...

viewOverview == Plain
viewMaps == Plain
viewDemos == Plain
viewDemosMap == Plain
viewPlayers == Plain
viewMap == Plain
viewPlayer == Plain
viewAchievements == Plain
viewRandom == Plain
viewTournaments == Plain
viewTournament == Plain
viewBlog == Plain
viewBlogPost == Plain
viewMapgenGallery == Plain
viewColors == {<< <<"paint">> >>}
viewAbout == {<< <<>>, <<"paint">> >>}
(* Both players given, or a lone slot to name; and the comparison of a player with itself. *)
viewCompare == Plain \cup {<< <<"loading">>, <<>>, <<"paint">> >>}
(* A cube younger than five minutes is drawn without a fetch. *)
viewStats == Plain \cup {<< <<"paint">> >>}
viewRuns == Plain \cup {<< <<"paint">> >>}
viewMapgen == {<< <<"loading", "paint">>, <<"armMapgen">> >>, << <<"loading", "paint">>, <<"stopMapgen">> >>}
viewMapgenJob == {<< <<"loading">>, <<"paint", "armMapgen">> >>, << <<"loading">>, <<"paint", "stopMapgen">> >>}
viewMapgenEditor == {<< <<"loading">>, <<"paint">>, <<"stillHere">>, <<"editor">> >>,
                     << <<"loading", "paint">>, <<"stillHere">>, <<"editor">> >>}
viewReplay == {<< <<"loading">>, <<>>, <<"paint">>, <<>>, <<"replay">> >>,
               << <<"loading">>, <<>>, <<"paint">> >>}

viewLive == {<< <<"loading", "forgetLive">>, <<"renderLive", "armLive">> >>}
viewServer == {<< <<"loading", "stopStream">>, <<"paint">>, <<"stream", "armLive">> >>,
               << <<"loading", "stopStream">>, <<"paint", "armLive">> >>}

Lists == viewMaps \cup viewDemos \cup viewPlayers \cup viewPlayer
Others == viewOverview \cup viewDemosMap \cup viewMap \cup viewAchievements \cup viewRandom
          \cup viewTournaments \cup viewTournament \cup viewBlog \cup viewBlogPost
          \cup viewMapgenGallery \cup viewColors \cup viewAbout \cup viewCompare
          \cup viewStats \cup viewRuns \cup viewMapgen \cup viewMapgenEditor \cup viewReplay

(* The router's table, by path; "other" stands for the pages that only paint. *)
Dispatch == [list |-> Lists, other |-> Others, job |-> viewMapgenJob,
             live |-> viewLive, server1 |-> viewServer, server2 |-> viewServer]
Paths == DOMAIN Dispatch

----
NoPage == [shown |-> <<0, "blank">>, liveHtml |-> FALSE,
           live |-> {}, liveTimer |-> 0, mapgen |-> {}, mapgenTimer |-> 0,
           viewers |-> {}, replay |-> 0, editor |-> 0, stream |-> 0]

MutStopLiveRefresh(s) == [s EXCEPT !.liveTimer = 0]

stopLiveRefresh(s) == [s EXCEPT !.live = @ \ {s.liveTimer}, !.liveTimer = 0]
stopMapgenPoll(s) == [s EXCEPT !.mapgen = @ \ {s.mapgenTimer}, !.mapgenTimer = 0]
stopReplay(s) == [s EXCEPT !.viewers = @ \ {<<"replay", s.replay>>}, !.replay = 0]
stopEditor(s) == [s EXCEPT !.viewers = @ \ {<<"editor", s.editor>>}, !.editor = 0]
stopServerStream(s) == [s EXCEPT !.viewers = @ \ {<<"stream", s.stream>>}, !.stream = 0]

(* renderLive touches the page only when its markup changed. *)
renderLive(s, n) == IF s.liveHtml THEN s ELSE [s EXCEPT !.shown = <<n, "page">>, !.liveHtml = TRUE]

Do(s, n, e) ==
  CASE e = "loading" -> [s EXCEPT !.shown = <<n, "loading">>]
    [] e = "paint" -> [s EXCEPT !.shown = <<n, "page">>]
    [] e = "forgetLive" -> [s EXCEPT !.liveHtml = FALSE]
    [] e = "renderLive" -> renderLive(s, n)
    [] e = "armLive" -> LET t == stopLiveRefresh(s) IN [t EXCEPT !.live = @ \cup {n}, !.liveTimer = n]
    [] e = "stopMapgen" -> stopMapgenPoll(s)
    [] e = "armMapgen" -> LET t == stopMapgenPoll(s) IN [t EXCEPT !.mapgen = @ \cup {n}, !.mapgenTimer = n]
    [] e = "stopStream" -> stopServerStream(s)
    [] e = "stream" -> IF path[n] # path[nav] THEN s
                       ELSE [s EXCEPT !.viewers = @ \cup {<<"stream", n>>}, !.stream = n]
    [] e = "editor" -> [s EXCEPT !.viewers = @ \cup {<<"editor", n>>}, !.editor = n]
    [] e = "replay" -> [s EXCEPT !.viewers = @ \cup {<<"replay", n>>}, !.replay = n]
    [] OTHER -> s

(* No block has more than two effects. *)
Run(s, n, block) ==
  LET t == IF block = <<>> THEN s ELSE Do(s, n, block[1])
  IN IF Len(block) < 2 THEN t ELSE Do(t, n, block[2])

StopAll(s) == stopServerStream(stopEditor(stopReplay(stopMapgenPoll(stopLiveRefresh(s)))))

Pending == (\E n \in Navs : act[n] # <<>>) \/ polls # {}

PageInit ==
  /\ nav = 0 /\ path = [n \in Navs |-> "none"] /\ act = [n \in Navs |-> <<>>]
  /\ pg = NoPage /\ polls = {} /\ typed = {} /\ picked = "none"
  /\ overlap = FALSE /\ everlap = FALSE

(* go and popstate: the router stops what the module knows of, and the     *)
(* view's first block runs.                                                *)
router(p, prog) ==
  /\ nav < MaxNavs
  /\ nav' = nav + 1
  /\ path' = [path EXCEPT ![nav + 1] = p]
  /\ act' = [act EXCEPT ![nav + 1] = Tail(prog)]
  /\ pg' = Run(StopAll(pg), nav + 1, Head(prog))
  /\ overlap' = Pending /\ everlap' = (everlap \/ Pending)

go(p) ==
  /\ \E prog \in Dispatch[p] : router(p, prog)
  /\ picked' = p
  /\ UNCHANGED <<polls, typed>>

(* wireFilter: a keystroke in a list's filter arms 350 ms ... *)
TypeFilter ==
  /\ nav > 0 /\ path[nav] = "list" /\ pg.shown = <<nav, "page">>
  /\ typed' = typed \cup {nav}
  /\ UNCHANGED <<nav, path, act, pg, polls, picked, overlap, everlap>>

(* ... and navigates to the filtered list, wherever the visitor is by then. *)
FilterFires(n) ==
  /\ n \in typed
  /\ typed' = typed \ {n}
  /\ \E prog \in Lists : router("list", prog)
  /\ UNCHANGED <<polls, picked>>

(* What a view awaited is there: its next block runs.  The editor leaves   *)
(* when its root is no longer in the document.                             *)
Resume(n) ==
  /\ act[n] # <<>>
  /\ IF Head(act[n]) = <<"stillHere">> /\ pg.shown # <<n, "page">>
     THEN act' = [act EXCEPT ![n] = <<>>] /\ pg' = pg
     ELSE /\ act' = [act EXCEPT ![n] = Tail(@)]
          /\ pg' = Run(pg, n, Head(act[n]))
  /\ UNCHANGED <<nav, path, polls, typed, picked, overlap, everlap>>

(* It failed: the router's errorView, or the view's own message in its place; *)
(* a failed import or mount writes into the viewer's own root.                *)
ViewFails(n) ==
  /\ act[n] # <<>>
  /\ act' = [act EXCEPT ![n] = <<>>]
  /\ pg' = IF \E i \in DOMAIN act[n] : \E e \in {"paint", "renderLive"} : e \in ToSet(act[n][i])
           THEN [pg EXCEPT !.shown = <<n, "page">>] ELSE pg
  /\ UNCHANGED <<nav, path, polls, typed, picked, overlap, everlap>>

(* The 5 s interval of the live and server pages looks at the path first. *)
LiveTick(n) ==
  /\ n \in pg.live /\ path[n] = path[nav]
  /\ polls' = polls \cup {<<"live", n>>}
  /\ UNCHANGED <<nav, path, act, pg, typed, picked, overlap, everlap>>

(* renderLive repaints the page; renderServerBody writes into whatever     *)
(* server page is in the document.                                         *)
LiveAnswer(n) ==
  /\ <<"live", n>> \in polls
  /\ polls' = polls \ {<<"live", n>>}
  /\ pg' = IF path[n] = "live" THEN renderLive(pg, n)
           ELSE IF pg.shown[1] > 0 /\ path[pg.shown[1]] \in {"server1", "server2"} /\ pg.shown[2] = "page"
                THEN [pg EXCEPT !.shown = <<n, "page">>] ELSE pg
  /\ UNCHANGED <<nav, path, act, typed, picked, overlap, everlap>>

LiveChanges ==
  /\ pg.liveHtml
  /\ pg' = [pg EXCEPT !.liveHtml = FALSE]
  /\ UNCHANGED <<nav, path, act, polls, typed, picked, overlap, everlap>>

(* The map request pages poll with a chain of one-shot timers. *)
MapgenTick(n) ==
  /\ n \in pg.mapgen
  /\ pg' = [pg EXCEPT !.mapgen = @ \ {n}]
  /\ polls' = polls \cup {<<"mapgen", n>>}
  /\ UNCHANGED <<nav, path, act, typed, picked, overlap, everlap>>

(* The answer draws into the page's own nodes and arms the next timer until *)
(* the request is settled; only the list of requests stops the timer first. *)
MapgenAnswer(n, settled) ==
  /\ <<"mapgen", n>> \in polls
  /\ polls' = polls \ {<<"mapgen", n>>}
  /\ LET s == IF path[n] = "job" THEN pg ELSE stopMapgenPoll(pg)
     IN pg' = IF settled THEN s ELSE [s EXCEPT !.mapgen = @ \cup {n}, !.mapgenTimer = n]
  /\ UNCHANGED <<nav, path, act, typed, picked, overlap, everlap>>

PageSteps ==
  \E n \in Navs : Resume(n) \/ LiveAnswer(n) \/ \E settled \in BOOLEAN : MapgenAnswer(n, settled)

PageNext ==
  \/ \E p \in Paths : go(p)
  \/ TypeFilter \/ LiveChanges \/ PageSteps
  \/ \E n \in Navs : FilterFires(n) \/ ViewFails(n) \/ LiveTick(n) \/ MapgenTick(n)

PageSpec == PageInit /\ [][PageNext]_pageVars

(* An interval is never lost: whatever views overlap, at most one is       *)
(* alive, and the module holds its handle, so the next navigation ends it. *)
OneInterval == pg.live \subseteq {pg.liveTimer}

(* Without an overlap, the page that was asked for is the page that stays, *)
(* with its refresh running: no timer of a page left behind, and no markup *)
(* remembered from an earlier visit, gets in its way.                      *)
RightPage ==
  ~Pending /\ ~overlap /\ nav > 0 => pg.shown = <<nav, "page">>

(* Without overlaps every viewer still running is one the module can stop. *)
ViewersHeld ==
  ~everlap => \A v \in pg.viewers : v[2] \in {pg.replay, pg.editor, pg.stream}

PageSound == OneInterval /\ RightPage /\ ViewersHeld
====
