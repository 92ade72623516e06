----------------------------- MODULE Tournament -----------------------------
(***************************************************************************)
(* The tournament calendar of the web service: the admin forms, entry      *)
(* codes, in-game joins, the runs that score, and the sweep that both      *)
(* replicas run to freeze results and to roll a recurring series forward.  *)
(* One action per transaction (or per statement, where the code awaits     *)
(* between two statements that are not in one transaction).                *)
(*                                                                         *)
(* Abstractions.  A run is a player, a map and the time it was stamped; a  *)
(* standing is the set of (player, map) pairs that score, so places and    *)
(* points are left out.  A slug is the pair (series, edition).  Trophies   *)
(* are inserted with the standing, one per row, and are not a variable of  *)
(* their own.  join_open is always TRUE.  Requests that are refused and    *)
(* change nothing are not actions.                                         *)
(***************************************************************************)
EXTENDS Naturals, FiniteSets

CONSTANTS TIds,        \* tournament ids, 1..n, handed out in order
          TCodes,      \* entrant rows (codes), 1..n, handed out in order
          TPlayers,    \* canonical players
          TMaps,       \* maps a pool may hold
          TReplicas,   \* web replicas, each with its own sweep timer
          TJoiners,    \* join requests that may be in flight at once
          TMaxTime,    \* bound on the clock
          TLen,        \* length of every window
          TStep,       \* repeat_every_days
          TGap,        \* repeat_gap_days
          TMaxRuns,    \* bound on the runs in the log
          TMaxEdits    \* bound on the admin's requests

ASSUME TourAssumption ==
  /\ IsFiniteSet(TIds) /\ TIds = 1..Cardinality(TIds) /\ TIds # {}
  /\ IsFiniteSet(TCodes) /\ TCodes = 1..Cardinality(TCodes)
  /\ TMaxTime \in Nat /\ TLen \in Nat \ {0} /\ TStep \in Nat \ {0} /\ TGap \in Nat
  /\ TMaxRuns \in Nat /\ TMaxEdits \in Nat

VARIABLES tnow,     \* the clock
          tedits,   \* admin requests and failures of the sweep so far (bounded by TMaxEdits)
          tour,     \* tournament rows
          tpool,    \* tournament_map
          tentry,   \* tournament_entrant rows by code
          truns,    \* the finish log
          tflight,  \* a run between its time stamp and its commit
          tstand,   \* tournament_standing / tournament_trophy
          tadmin,   \* the admin request in progress
          tjoin,    \* join requests in progress
          tsweep    \* each replica's sweep

tourVars == <<tnow, tedits, tour, tpool, tentry, truns, tflight, tstand, tadmin, tjoin, tsweep>>

NoPlayer == "none"
TStatuses == {"unused", "deleted", "draft", "published", "finalized", "cancelled"}
TRows == {t \in TIds : tour[t].status \notin {"unused", "deleted"}}
TUnused == [status |-> "unused", start |-> 0, end |-> 0, repeat |-> FALSE,
            series |-> 0, edition |-> 1, auto |-> FALSE]
TIdle == [pc |-> "idle", t |-> 0, pool |-> {}, seen |-> {}]
TNoJoin == [pc |-> "idle", t |-> 0, code |-> 0, p |-> NoPlayer]
TNoSweep == [pc |-> "idle", at |-> 0, todo |-> {}]
TNoRun == [p |-> NoPlayer, m |-> "none", at |-> 0, open |-> {}]

\* The next value of a one-up id column, or nothing once the bound is reached.
TFresh(S) == {i \in S : \A j \in S : j < i => tour[j].status # "unused"} \cap
             {i \in S : tour[i].status = "unused"}
TFreshCode == {c \in TCodes : tentry[c].t = 0 /\ \A d \in TCodes : d < c => tentry[d].t # 0}

-----------------------------------------------------------------------------
(* What the queries and the pure helpers compute.                          *)

Overlaps(aStart, aEnd, bStart, bEnd) == aStart < bEnd /\ bStart < aEnd

\* overlappingTournaments is empty; also the exclusion constraint
\* tournament_no_overlap, over every row that is not cancelled.
SlotFree(start, end, excludeId) ==
  \A t \in TRows \ {excludeId} :
    tour[t].status = "cancelled" \/ ~Overlaps(start, end, tour[t].start, tour[t].end)

PhaseOf(row, now) ==
  CASE row.status # "published" -> row.status
    [] now < row.start -> "upcoming"
    [] now >= row.start /\ now < row.end -> "live"
    [] OTHER -> "ended"

JoinOpen(t, now) == t \in TRows /\ PhaseOf(tour[t], now) \in {"upcoming", "live"}

\* The live tournament, else the next one to start.
CurrentOrNext(now) ==
  LET pub  == {t \in TRows : tour[t].status = "published"}
      live == {t \in pub : tour[t].start <= now /\ now < tour[t].end}
      next == {t \in pub : tour[t].start > now /\
                 \A u \in pub : tour[u].start > now => tour[t].start <= tour[u].start}
  IN IF live # {} THEN live ELSE next

Claimed(t) == {c \in TCodes : tentry[c].t = t /\ tentry[c].p # NoPlayer}
Entered(t, p) == \E c \in TCodes : tentry[c].t = t /\ tentry[c].p = p

\* standingsQuery: entrants' runs on pool maps inside the half-open window.
Standings(t) ==
  {<<r.p, r.m>> : r \in {x \in truns : /\ Entered(t, x.p) /\ x.m \in tpool[t]
                                       /\ tour[t].start <= x.at /\ x.at < tour[t].end}}

\* Where scheduleNextEdition puts the window that follows prev.
NextStart(prev, now) ==
  LET first == prev.end + TGap
      past(k) == first + k * TStep + TLen <= now
      k0 == CHOOSE k \in 0..TMaxTime : ~past(k) /\ \A j \in 0..TMaxTime : j < k => past(j)
  IN first + k0 * TStep

\* A finalized recurring edition with no later, non-cancelled one.
Orphans ==
  {t \in TRows : /\ tour[t].status = "finalized" /\ tour[t].repeat
                 /\ \A n \in TRows : tour[n].series = tour[t].series /\ tour[n].edition > tour[t].edition
                                       => tour[n].status = "cancelled"}

-----------------------------------------------------------------------------
(* The admin forms.                                                        *)

Request == tedits < TMaxEdits /\ tedits' = tedits + 1

\* createTournament: the row in one statement ...
AdminCreate(start, status, repeat, pool) ==
  /\ Request
  /\ tadmin.pc = "idle"
  /\ \E t \in TFresh(TIds) :
       /\ SlotFree(start, start + TLen, t)
       /\ tour' = [tour EXCEPT ![t] = [status |-> status, start |-> start, end |-> start + TLen,
                                       repeat |-> repeat, series |-> t, edition |-> 1, auto |-> FALSE]]
       /\ tadmin' = [TIdle EXCEPT !.pc = "maps", !.t = t, !.pool = pool]
  /\ UNCHANGED <<tnow, tpool, tentry, truns, tflight, tstand, tjoin, tsweep>>

\* updateTournament: every column but the series, never of a finalized row ...
AdminUpdate(t, start, status, pool) ==
  /\ Request
  /\ tadmin.pc = "idle"
  /\ t \in TRows /\ tour[t].status # "finalized"
  /\ status = "cancelled" \/ SlotFree(start, start + TLen, t)
  /\ tour' = [tour EXCEPT ![t].status = status, ![t].start = start, ![t].end = start + TLen]
  /\ tadmin' = [TIdle EXCEPT !.pc = "maps", !.t = t, !.pool = pool]
  /\ UNCHANGED <<tnow, tpool, tentry, truns, tflight, tstand, tjoin, tsweep>>

\* ... and then setTournamentMaps, a transaction of its own, which looks at
\* the tournament no more (the foreign key alone refuses a deleted one).
SetTournamentMaps ==
  /\ tadmin.pc = "maps"
  /\ tpool' = IF tadmin.t \in TRows THEN [tpool EXCEPT ![tadmin.t] = tadmin.pool] ELSE tpool
  /\ tadmin' = TIdle
  /\ UNCHANGED <<tnow, tedits, tour, tentry, truns, tflight, tstand, tjoin, tsweep>>

\* The replica restarts (every deploy recreates it) before the second
\* transaction: the row stays without its pool.
AdminLost ==
  /\ tadmin.pc # "idle" /\ tadmin' = TIdle
  /\ UNCHANGED <<tnow, tedits, tour, tpool, tentry, truns, tflight, tstand, tjoin, tsweep>>

SetTournamentStatus(t, status) ==
  /\ Request
  /\ t \in TRows /\ tour[t].status # "finalized" /\ status # tour[t].status
  /\ status = "cancelled" \/ SlotFree(tour[t].start, tour[t].end, t)
  /\ tour' = [tour EXCEPT ![t].status = status]
  /\ UNCHANGED <<tnow, tpool, tentry, truns, tflight, tstand, tadmin, tjoin, tsweep>>

\* deleteTournament, one statement: its conditions are read from the
\* statement's snapshot ...
DeleteCheck(t) ==
  /\ Request
  /\ tadmin.pc = "idle" /\ t \in TRows
  /\ tstand[t] = {} /\ \A p \in TPlayers : ~Entered(t, p)
  /\ tadmin' = [TIdle EXCEPT !.pc = "delete", !.t = t, !.seen = Claimed(t)]
  /\ UNCHANGED <<tnow, tour, tpool, tentry, truns, tflight, tstand, tjoin, tsweep>>

\* ... while the row goes, and with it its pool and entrants (ON DELETE
\* CASCADE), once no transaction holds one of those entrant rows.
DeleteTournament ==
  /\ tadmin.pc = "delete"
  /\ \A j \in TJoiners : tjoin[j].t = tadmin.t => tjoin[j].code = 0
  /\ tour' = [tour EXCEPT ![tadmin.t].status = "deleted"]
  /\ tpool' = [tpool EXCEPT ![tadmin.t] = {}]
  /\ tentry' = [c \in TCodes |-> IF tentry[c].t = tadmin.t
                                 THEN [tentry[c] EXCEPT !.p = NoPlayer, !.dead = TRUE] ELSE tentry[c]]
  /\ tstand' = [tstand EXCEPT ![tadmin.t] = {}]
  /\ tadmin' = TIdle
  /\ UNCHANGED <<tnow, tedits, truns, tflight, tjoin, tsweep>>

-----------------------------------------------------------------------------
(* Entry codes and joins.                                                  *)

\* POST /tournaments/:slug/join and createEntryCode.
CreateEntryCode(t) ==
  /\ JoinOpen(t, tnow)
  /\ \E c \in TFreshCode : tentry' = [tentry EXCEPT ![c].t = t]
  /\ UNCHANGED <<tnow, tedits, tour, tpool, truns, tflight, tstand, tadmin, tjoin, tsweep>>

\* redeemEntryCode up to its UPDATE: the entrant row is locked, the
\* tournament row is not.
RedeemCheck(j, c, p) ==
  LET t == tentry[c].t IN
  /\ tjoin[j].pc = "idle" /\ \A k \in TJoiners : tjoin[k].code # c
  /\ t # 0 /\ ~tentry[c].dead /\ JoinOpen(t, tnow)
  /\ ~Entered(t, p) /\ tentry[c].p = NoPlayer
  /\ tjoin' = [tjoin EXCEPT ![j] = [pc |-> "enter", t |-> t, code |-> c, p |-> p]]
  /\ UNCHANGED <<tnow, tedits, tour, tpool, tentry, truns, tflight, tstand, tadmin, tsweep>>

\* joinTournamentInGame up to its INSERT.
JoinCheck(j, p) ==
  /\ tjoin[j].pc = "idle"
  /\ \E t \in CurrentOrNext(tnow) :
       /\ JoinOpen(t, tnow) /\ ~Entered(t, p)
       /\ tjoin' = [tjoin EXCEPT ![j] = [pc |-> "enter", t |-> t, code |-> 0, p |-> p]]
  /\ UNCHANGED <<tnow, tedits, tour, tpool, tentry, truns, tflight, tstand, tadmin, tsweep>>

\* The write and the commit.  The unique index on (tournament, player)
\* refuses the loser of two joins, the foreign key a deleted tournament.
EnterCommit(j) ==
  LET q == tjoin[j] IN
  /\ q.pc = "enter"
  /\ IF q.t \notin TRows \/ Entered(q.t, q.p) THEN UNCHANGED tentry
     ELSE IF q.code # 0 THEN tentry' = [tentry EXCEPT ![q.code].p = q.p]
     ELSE \E c \in TFreshCode : tentry' = [tentry EXCEPT ![c].t = q.t, ![c].p = q.p]
  /\ tjoin' = [tjoin EXCEPT ![j] = TNoJoin]
  /\ UNCHANGED <<tnow, tedits, tour, tpool, truns, tflight, tstand, tadmin, tsweep>>

-----------------------------------------------------------------------------
(* Runs: stamped with the ingest clock, visible when the ingest commits.   *)

RunStamp(p, m) ==
  /\ tflight = TNoRun /\ Cardinality(truns) < TMaxRuns
  /\ tflight' = [p |-> p, m |-> m, at |-> tnow,
                 open |-> {t \in TIds : tour[t].status # "finalized"}]
  /\ UNCHANGED <<tnow, tedits, tour, tpool, tentry, truns, tstand, tadmin, tjoin, tsweep>>

RunCommit ==
  /\ tflight # TNoRun
  /\ truns' = truns \cup {[p |-> tflight.p, m |-> tflight.m, at |-> tflight.at]}
  /\ tflight' = TNoRun
  /\ UNCHANGED <<tnow, tedits, tour, tpool, tentry, tstand, tadmin, tjoin, tsweep>>

-----------------------------------------------------------------------------
(* The sweep.                                                              *)

Freeze(t) ==
  /\ tstand' = [tstand EXCEPT ![t] = @ \cup Standings(t)]
  /\ tour' = [tour EXCEPT ![t].status = "finalized"]

MutFinalizeNoRecheck(t, now) ==
  IF t \in TRows THEN Freeze(t) ELSE UNCHANGED <<tstand, tour>>

\* finalizeTournament re-reads the row under its lock; ON CONFLICT DO NOTHING
\* would only add rows.
Finalize(t, now) ==
  IF t \in TRows /\ tour[t].status = "published" /\ tour[t].end <= now
  THEN Freeze(t) ELSE UNCHANGED <<tstand, tour>>

\* scheduleNextEdition: row and pool in one transaction; a taken slug or
\* slot means nothing is written.
ScheduleNext(t, now) ==
  LET prev == tour[t]
      start == NextStart(prev, now)
      taken == \E n \in TRows : tour[n].series = prev.series /\ tour[n].edition = prev.edition + 1
      fresh == TFresh(TIds)
  IN IF taken \/ ~SlotFree(start, start + TLen, 0) \/ fresh = {} \/ start + TLen > TMaxTime
     THEN UNCHANGED <<tour, tpool>>
     ELSE \E n \in fresh :
            /\ tour' = [tour EXCEPT ![n] = [prev EXCEPT !.status = "published", !.start = start,
                          !.end = start + TLen, !.edition = prev.edition + 1, !.auto = TRUE]]
            /\ tpool' = [tpool EXCEPT ![n] = tpool[t]]

\* sweepTournaments -> finalizeDueTournaments: the due list ...
SweepStart(r) ==
  /\ tsweep[r].pc = "idle"
  /\ tsweep' = [tsweep EXCEPT ![r] = [pc |-> "finalize", at |-> tnow,
                  todo |-> {t \in TRows : tour[t].status = "published" /\ tour[t].end <= tnow}]]
  /\ UNCHANGED <<tnow, tedits, tour, tpool, tentry, truns, tflight, tstand, tadmin, tjoin>>

\* ... each in its own try (an item that throws is skipped) ...
SweepFinalize(r) ==
  /\ tsweep[r].pc = "finalize"
  /\ \E t \in tsweep[r].todo :
       /\ tsweep' = [tsweep EXCEPT ![r].todo = @ \ {t}]
       /\ Finalize(t, tsweep[r].at)
  /\ UNCHANGED <<tnow, tedits, tpool, tentry, truns, tflight, tadmin, tjoin>>

SweepItemFails(r) ==
  /\ Request
  /\ \E t \in tsweep[r].todo : tsweep' = [tsweep EXCEPT ![r].todo = @ \ {t}]
  /\ UNCHANGED <<tnow, tour, tpool, tentry, truns, tflight, tstand, tadmin, tjoin>>

\* ... then the reconciliation.
SweepOrphans(r) ==
  /\ tsweep[r].pc = "finalize" /\ tsweep[r].todo = {}
  /\ tsweep' = [tsweep EXCEPT ![r].pc = "schedule", ![r].todo = Orphans]
  /\ UNCHANGED <<tnow, tedits, tour, tpool, tentry, truns, tflight, tstand, tadmin, tjoin>>

SweepSchedule(r) ==
  /\ tsweep[r].pc = "schedule"
  /\ \E t \in tsweep[r].todo :
       /\ tsweep' = [tsweep EXCEPT ![r].todo = @ \ {t}]
       /\ ScheduleNext(t, tsweep[r].at)
  /\ UNCHANGED <<tnow, tedits, tentry, truns, tflight, tstand, tadmin, tjoin>>

SweepEnd(r) ==
  /\ tsweep[r].pc = "schedule" /\ tsweep[r].todo = {}
  /\ tsweep' = [tsweep EXCEPT ![r] = TNoSweep]
  /\ UNCHANGED <<tnow, tedits, tour, tpool, tentry, truns, tflight, tstand, tadmin, tjoin>>

\* The replica is recreated part-way.
SweepCut(r) ==
  /\ tsweep[r].pc # "idle" /\ Request
  /\ tsweep' = [tsweep EXCEPT ![r] = TNoSweep]
  /\ UNCHANGED <<tnow, tour, tpool, tentry, truns, tflight, tstand, tadmin, tjoin>>

\* The admin's "finalize now".
AdminFinalize(t) ==
  /\ t \in TRows /\ tour[t].status = "published" /\ tour[t].end <= tnow
  /\ Finalize(t, tnow)
  /\ UNCHANGED <<tnow, tedits, tpool, tentry, truns, tflight, tadmin, tjoin, tsweep>>

TourTick ==
  /\ tnow < TMaxTime /\ tnow' = tnow + 1
  /\ UNCHANGED <<tedits, tour, tpool, tentry, truns, tflight, tstand, tadmin, tjoin, tsweep>>

-----------------------------------------------------------------------------
TourInit ==
  /\ tnow = 0 /\ tedits = 0 /\ tour = [t \in TIds |-> TUnused] /\ tpool = [t \in TIds |-> {}]
  /\ tentry = [c \in TCodes |-> [t |-> 0, p |-> NoPlayer, dead |-> FALSE]]
  /\ truns = {} /\ tflight = TNoRun /\ tstand = [t \in TIds |-> {}]
  /\ tadmin = TIdle /\ tjoin = [j \in TJoiners |-> TNoJoin] /\ tsweep = [r \in TReplicas |-> TNoSweep]

TourAdmin ==
  \/ \E start \in 0..(TMaxTime - TLen), status \in {"draft", "published"}, pool \in (SUBSET TMaps) \ {{}} :
       \/ \E repeat \in BOOLEAN : AdminCreate(start, status, repeat, pool)
       \/ \E t \in TIds : AdminUpdate(t, start, status, pool)
  \/ SetTournamentMaps \/ AdminLost \/ DeleteTournament
  \/ \E t \in TIds : DeleteCheck(t) \/ AdminFinalize(t)
  \/ \E t \in TIds, status \in {"draft", "published", "cancelled"} : SetTournamentStatus(t, status)

TourPlayers ==
  \/ \E t \in TIds : CreateEntryCode(t)
  \/ \E j \in TJoiners, p \in TPlayers : JoinCheck(j, p) \/ \E c \in TCodes : RedeemCheck(j, c, p)
  \/ \E j \in TJoiners : EnterCommit(j)
  \/ \E p \in TPlayers, m \in TMaps : RunStamp(p, m)
  \/ RunCommit

SweepTournaments(r) ==
  \/ SweepStart(r) \/ SweepFinalize(r) \/ SweepOrphans(r) \/ SweepSchedule(r) \/ SweepEnd(r)

TourSweep == \E r \in TReplicas : SweepTournaments(r) \/ SweepItemFails(r) \/ SweepCut(r)

TourNext == TourAdmin \/ TourPlayers \/ TourSweep \/ TourTick

TourSpec == TourInit /\ [][TourNext]_tourVars

-----------------------------------------------------------------------------
Editions == [status : TStatuses, start : 0..TMaxTime, end : 0..TMaxTime, repeat : BOOLEAN,
             series : {0} \cup TIds, edition : 1..(Cardinality(TIds) + 1), auto : BOOLEAN]
Entrants == [t : {0} \cup TIds, p : TPlayers \cup {NoPlayer}, dead : BOOLEAN]
Joins == [pc : {"idle", "enter"}, t : {0} \cup TIds, code : {0} \cup TCodes, p : TPlayers \cup {NoPlayer}]
TourSweeps == [pc : {"idle", "finalize", "schedule"}, at : 0..TMaxTime, todo : SUBSET TIds]
TourTypeOK ==
  /\ tnow \in 0..TMaxTime /\ tedits \in 0..TMaxEdits
  /\ tour \in [TIds -> Editions] /\ tpool \in [TIds -> SUBSET TMaps]
  /\ tentry \in [TCodes -> Entrants] /\ tjoin \in [TJoiners -> Joins]
  /\ truns \subseteq [p : TPlayers, m : TMaps, at : 0..TMaxTime]
  /\ tflight = TNoRun \/ tflight \in [p : TPlayers, m : TMaps, at : 0..TMaxTime, open : SUBSET TIds]
  /\ tstand \in [TIds -> SUBSET (TPlayers \X TMaps)]
  /\ tadmin \in [pc : {"idle", "maps", "delete"}, t : {0} \cup TIds, pool : SUBSET TMaps, seen : SUBSET TCodes]
  /\ tsweep \in [TReplicas -> TourSweeps]

\* A final result stays final.  Once finalizeTournament has committed, no
\* admin form, second replica or "finalize now" changes the row's status or
\* window or the frozen standing.  The pool the result was computed from is
\* replaced only by an edit whose row update committed before the freeze and
\* whose setTournamentMaps came after it: that transaction has no guard.
FinalIsFinal ==
  [][\A t \in TIds : tour[t].status = "finalized" =>
       \/ tour'[t].status = "deleted"
       \/ /\ tour'[t] = tour[t] /\ tstand'[t] = tstand[t]
          /\ tpool'[t] # tpool[t] => tadmin.pc = "maps" /\ tadmin.t = t]_tourVars

\* "Every run you set on a tournament map before it ends counts", up to what
\* the ingest clock can promise: a run inside the window that commits after
\* the freeze was already being ingested when the result was frozen.
MissedOnlyInFlight ==
  [][\A t \in TIds :
       /\ truns' # truns /\ t \in TRows /\ tour[t].status = "finalized"
       /\ tour[t].start <= tflight.at /\ tflight.at < tour[t].end
       => t \in tflight.open]_tourVars

\* A player who was told "registered" stays registered: no later join,
\* redeem or deletion takes the entry away, a deletion that had already
\* looked at the entrants when the entry was made excepted.
EntryHonoured ==
  [][\A c \in TCodes : tentry[c].p # NoPlayer /\ tentry'[c].p # tentry[c].p =>
       tadmin.pc = "delete" /\ tadmin.t = tentry[c].t /\ c \notin tadmin.seen]_tourVars

\* One entry per player and tournament, though the check for an existing
\* entry and the write are apart and two servers may submit the same player.
OneEntry ==
  \A c, d \in TCodes : c # d /\ tentry[c].p # NoPlayer /\ tentry[c].t = tentry[d].t
                       => tentry[c].p # tentry[d].p

(* ... and why.  Ids are handed out in order, so an edition's number stays *)
(* below them; only a closed window is frozen, and what a run that is      *)
(* being ingested cannot count in any more was frozen after its end.       *)
Used(t) == tour[t].status # "unused"
RowsInv ==
  /\ \A t, u \in TIds : u < t /\ Used(t) => Used(u)
  /\ \A t \in TIds : tour[t].edition <= t /\ (tour[t].status = "finalized" => tour[t].end <= tnow)
  /\ \A r \in TReplicas : tsweep[r].at <= tnow /\ \A t \in tsweep[r].todo : Used(t)
  /\ tflight # TNoRun => \A t \in TIds \ tflight.open :
       \/ tour[t].status = "deleted"
       \/ tour[t].status = "finalized" /\ tour[t].end <= tflight.at
(* A join holds the entrant row of its code, and no other join does; a     *)
(* deletion has seen nobody entered.                                       *)
EntriesInv ==
  /\ \A c \in TCodes : tentry[c].t = 0 => tentry[c].p = NoPlayer
  /\ \A j \in TJoiners : tjoin[j].pc = "enter" => tjoin[j].t # 0
  /\ \A j \in TJoiners : tjoin[j].code # 0 =>
       /\ tentry[tjoin[j].code].t = tjoin[j].t /\ tentry[tjoin[j].code].p = NoPlayer
       /\ tjoin[j].pc = "enter" /\ \A k \in TJoiners \ {j} : tjoin[k].code # tjoin[j].code
  /\ tadmin.pc = "delete" => tadmin.seen = {} /\ tadmin.t # 0 /\ Used(tadmin.t)
TourInv == TourTypeOK /\ OneEntry /\ RowsInv /\ EntriesInv

\* Every published tournament whose window has closed is frozen sooner or
\* later, whatever items fail and whichever replica is recreated.
NoneOverdue == \A t \in TRows : PhaseOf(tour[t], tnow) # "ended"

\* A finalized recurring edition gets a successor sooner or later, unless the
\* successor's slug is held by a cancelled edition or its slot stays booked.
SeriesGoesOn ==
  \A t \in Orphans :
     \/ \E n \in TRows : tour[n].series = tour[t].series /\ tour[n].edition = tour[t].edition + 1
     \/ ~SlotFree(NextStart(tour[t], tnow), NextStart(tour[t], tnow) + TLen, 0)
     \/ NextStart(tour[t], tnow) + TLen > TMaxTime \/ TFresh(TIds) = {}
=============================================================================
