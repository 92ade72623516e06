---- MODULE Aggregates ----
(***************************************************************************)
(* The rebuild of the ranking tables (best, standings, map_index) and the  *)
(* daily skill-rating snapshot at its tail.  Every web replica runs the    *)
(* same in-process debounce (web/server.js doRefresh,                      *)
(* scheduleAggregateRefresh) over one shared database, where the rebuild   *)
(* is serialised by an advisory lock (web/db.js refreshAggregates).        *)
(*                                                                         *)
(* The race table is a version counter: a write is one committed ingest    *)
(* that inserted or improved a time, or a change of the mapgen_rated       *)
(* setting, and a rebuild publishes the version it read under the lock.    *)
(* Time is the number of ticks since the first unrefreshed write and until *)
(* the timer fires, per replica.                                           *)
(***************************************************************************)
EXTENDS Integers, FiniteSets, FiniteSetsExt

CONSTANTS AggReplicas,   \* the web replicas
          RefreshDebounce,   \* REFRESH_DEBOUNCE_MS, in ticks
          RefreshMaxWait,    \* REFRESH_MAX_WAIT_MS, in ticks
          SrKeep,            \* SR_HISTORY_DAYS
          MaxWrites,         \* bound: writes to the race table
          MaxAggFaults,      \* bound: failed statements and dead processes
          MaxSrDay           \* bound: the last day

ASSUME AggAssumption ==
  /\ RefreshDebounce \in Nat \ {0} /\ RefreshMaxWait \in Nat \ {0}
  /\ SrKeep \in Nat \ {0} /\ MaxWrites \in Nat /\ MaxAggFaults \in Nat /\ MaxSrDay \in Nat

VARIABLES dbv,      \* the version of the race table (and of the setting)
          agg,      \* the version best, standings and map_index were built from
          srday,    \* today (UTC)
          srhist,   \* sr_history: the days with rows
          srwrites, \* how often each day's rows were inserted
          excused,  \* a rebuild failed, or was never asked for, since the last write
          aggfaults,
          rf        \* per replica: the refresher's variables and its rebuild

aggVars == <<dbv, agg, srday, srhist, srwrites, excused, aggfaults, rf>>

Days == 0..MaxSrDay

(***************************************************************************)
(* timer: ticks until doRefresh fires, -1 when refreshTimer is null.       *)
(* dirty: ticks since firstDirtyAt, -1 when it is 0.                       *)
(* run: where the rebuild is.  asked: an ingest has committed and its      *)
(* handler has not yet called scheduleAggregateRefresh.                    *)
(***************************************************************************)
FreshProcess == [up |-> "down", timer |-> -1, dirty |-> -1, run |-> "idle", again |-> FALSE,
                 seen |-> 0, memo |-> -1, day |-> 0, asked |-> FALSE]

MutRefreshDropsAgain(s) ==
  LET t == [s EXCEPT !.timer = -1, !.dirty = -1]
  IN IF t.up # "up" \/ t.run # "idle" THEN t ELSE [t EXCEPT !.run = "wait"]

DoRefresh(s) ==
  LET t == [s EXCEPT !.timer = -1, !.dirty = -1]
  IN CASE t.up # "up" -> t
       [] t.up = "up" /\ t.run # "idle" -> [t EXCEPT !.again = TRUE]
       [] OTHER -> [t EXCEPT !.run = "wait"]

MutScheduleNoMaxWait(s) ==
  [s EXCEPT !.dirty = IF s.dirty = -1 THEN 0 ELSE s.dirty, !.timer = RefreshDebounce]

ScheduleAggregateRefresh(s) ==
  LET t == [s EXCEPT !.dirty = IF s.dirty = -1 THEN 0 ELSE s.dirty]
  IN IF t.dirty >= RefreshMaxWait THEN DoRefresh(t)
     ELSE [t EXCEPT !.timer = Min({RefreshDebounce, RefreshMaxWait - t.dirty})]

(* The finally of doRefresh; a boot that got here starts to serve. *)
RefreshDone(s) ==
  LET t == [s EXCEPT !.run = "idle", !.again = FALSE, !.up = IF s.up = "boot" THEN "up" ELSE s.up]
  IN IF s.again THEN DoRefresh(t) ELSE t

AggInit ==
  /\ dbv = 0 /\ agg = 0 /\ srday = 0 /\ srhist = {} /\ excused = FALSE /\ aggfaults = 0
  /\ srwrites = [d \in Days |-> 0]
  /\ rf = [r \in AggReplicas |-> [FreshProcess EXCEPT !.up = "up"]]

Serving(r) == rf[r].up \in {"up", "drain"}

(* POST /api/ingest commits an inserted or improved time ... *)
IngestCommits(r) ==
  /\ dbv < MaxWrites /\ Serving(r) /\ ~rf[r].asked
  /\ dbv' = dbv + 1 /\ excused' = FALSE
  /\ rf' = [rf EXCEPT ![r].asked = TRUE]
  /\ UNCHANGED <<agg, srday, srhist, srwrites, aggfaults>>

(* ... then awaits touchServer and asks for a rebuild. *)
IngestSchedules(r) ==
  /\ rf[r].asked
  /\ rf' = [rf EXCEPT ![r] = ScheduleAggregateRefresh([rf[r] EXCEPT !.asked = FALSE])]
  /\ UNCHANGED <<dbv, agg, srday, srhist, srwrites, excused, aggfaults>>

(* touchServer throws: the handler answers 500 and never asks. *)
TouchServerFails(r) ==
  /\ rf[r].asked /\ aggfaults < MaxAggFaults
  /\ rf' = [rf EXCEPT ![r].asked = FALSE]
  /\ excused' = TRUE /\ aggfaults' = aggfaults + 1
  /\ UNCHANGED <<dbv, agg, srday, srhist, srwrites>>

(* POST /admin/mapgen stores the flag and rebuilds at once. *)
SetMapgenRated(r) ==
  /\ dbv < MaxWrites /\ rf[r].up = "up"
  /\ dbv' = dbv + 1 /\ excused' = FALSE
  /\ rf' = [rf EXCEPT ![r] = DoRefresh(rf[r])]
  /\ UNCHANGED <<agg, srday, srhist, srwrites, aggfaults>>

RefreshTimer(r) ==
  /\ rf[r].timer = 0
  /\ rf' = [rf EXCEPT ![r] = DoRefresh(rf[r])]
  /\ UNCHANGED <<dbv, agg, srday, srhist, srwrites, excused, aggfaults>>

(* A tick passes only once every timer that is due has fired. *)
AggTick ==
  /\ \A r \in AggReplicas : rf[r].timer # 0
  /\ \E r \in AggReplicas : rf[r].timer > 0
  /\ rf' = [r \in AggReplicas |->
             IF rf[r].timer < 0 THEN rf[r]
             ELSE [rf[r] EXCEPT !.timer = @ - 1, !.dirty = @ + 1]]
  /\ UNCHANGED <<dbv, agg, srday, srhist, srwrites, excused, aggfaults>>

MutLockAndRead(r) ==
  /\ rf[r].run = "wait"
  /\ rf' = [rf EXCEPT ![r].run = "build", ![r].seen = dbv]
  /\ UNCHANGED <<dbv, agg, srday, srhist, srwrites, excused, aggfaults>>

(* refreshAggregates: pg_advisory_xact_lock, then everything is read. *)
LockAndRead(r) ==
  /\ rf[r].run = "wait" /\ \A o \in AggReplicas : rf[o].run # "build"
  /\ rf' = [rf EXCEPT ![r].run = "build", ![r].seen = dbv]
  /\ UNCHANGED <<dbv, agg, srday, srhist, srwrites, excused, aggfaults>>

(* The table swap commits; snapshotSrHistory takes the date. *)
SwapCommits(r) ==
  /\ rf[r].run = "build"
  /\ agg' = rf[r].seen
  /\ rf' = [rf EXCEPT ![r].run = "snap", ![r].day = srday]
  /\ UNCHANGED <<dbv, srday, srhist, srwrites, excused, aggfaults>>

(* The rebuild throws: logged and left to the next ingest; at boot the     *)
(* process exits.                                                          *)
RebuildFails(r) ==
  /\ rf[r].run \in {"wait", "build"} /\ aggfaults < MaxAggFaults
  /\ aggfaults' = aggfaults + 1
  /\ excused' = (excused \/ rf[r].up # "boot")
  /\ rf' = [rf EXCEPT ![r] = IF @.up = "boot" THEN FreshProcess ELSE RefreshDone(@)]
  /\ UNCHANGED <<dbv, agg, srday, srhist, srwrites>>

(* The gate of snapshotSrHistory: today is memoised, or already in the table. *)
SnapshotGate(r) ==
  /\ rf[r].run = "snap"
  /\ rf' = [rf EXCEPT ![r] =
             IF @.memo = @.day THEN RefreshDone(@)
             ELSE IF @.day \in srhist THEN RefreshDone([@ EXCEPT !.memo = rf[r].day])
             ELSE [@ EXCEPT !.run = "snaplock"]]
  /\ UNCHANGED <<dbv, agg, srday, srhist, srwrites, excused, aggfaults>>

(* The transaction under its own advisory lock, which re-checks the day. *)
SnapshotCommits(r) ==
  LET d == rf[r].day IN
  /\ rf[r].run = "snaplock"
  /\ IF d \in srhist THEN UNCHANGED <<srhist, srwrites>>
     ELSE /\ srhist' = {e \in srhist \cup {d} : e >= d - (SrKeep - 1)}
          /\ srwrites' = [srwrites EXCEPT ![d] = @ + 1]
  /\ rf' = [rf EXCEPT ![r] = RefreshDone([@ EXCEPT !.memo = d])]
  /\ UNCHANGED <<dbv, agg, srday, excused, aggfaults>>

(* A failed snapshot never fails the refresh. *)
SnapshotFails(r) ==
  /\ rf[r].run \in {"snap", "snaplock"} /\ aggfaults < MaxAggFaults
  /\ aggfaults' = aggfaults + 1
  /\ rf' = [rf EXCEPT ![r] = RefreshDone(@)]
  /\ UNCHANGED <<dbv, agg, srday, srhist, srwrites, excused>>

(* SIGTERM: shuttingDown, the timer is cleared, open requests drain. *)
Shutdown(r) ==
  /\ rf[r].up = "up" /\ aggfaults < MaxAggFaults
  /\ aggfaults' = aggfaults + 1
  /\ rf' = [rf EXCEPT ![r].up = "drain", ![r].timer = -1]
  /\ UNCHANGED <<dbv, agg, srday, srhist, srwrites, excused>>

(* The drained process exits, or the eight-second backstop kills it. *)
Exit(r) ==
  /\ rf[r].up = "drain"
  /\ rf' = [rf EXCEPT ![r] = FreshProcess]
  /\ UNCHANGED <<dbv, agg, srday, srhist, srwrites, excused, aggfaults>>

(* openDatabase rebuilds before the replica serves. *)
Boot(r) ==
  /\ rf[r].up = "down"
  /\ rf' = [rf EXCEPT ![r].up = "boot", ![r].run = "wait"]
  /\ UNCHANGED <<dbv, agg, srday, srhist, srwrites, excused, aggfaults>>

SrMidnight ==
  /\ srday < MaxSrDay /\ srday' = srday + 1
  /\ UNCHANGED <<dbv, agg, srhist, srwrites, excused, aggfaults, rf>>

RefreshSteps(r) == \/ RefreshTimer(r) \/ IngestSchedules(r) \/ LockAndRead(r) \/ SwapCommits(r)
                   \/ SnapshotGate(r) \/ SnapshotCommits(r) \/ Exit(r) \/ Boot(r)

AggNext ==
  \/ \E r \in AggReplicas :
       \/ IngestCommits(r) \/ TouchServerFails(r) \/ SetMapgenRated(r) \/ RefreshSteps(r)
       \/ RebuildFails(r) \/ SnapshotFails(r) \/ Shutdown(r)
  \/ AggTick \/ SrMidnight

AggSpec == AggInit /\ [][AggNext]_aggVars

(* The rebuild starts at most RefreshMaxWait ticks after the first write   *)
(* it is for, however many writes keep pushing the debounce: a continuous  *)
(* ingest stream cannot starve it.                                         *)
BoundedWait == \A r \in AggReplicas : rf[r].up = "up" => rf[r].dirty <= RefreshMaxWait

(* A write the tables do not show yet is owed by somebody: a timer, a      *)
(* queued pass, a rebuild that read it, a replica that will rebuild when   *)
(* it boots; else the log recorded a failure since.                        *)
RefreshOwed ==
  agg < dbv => \/ excused
               \/ \E r \in AggReplicas :
                    \/ rf[r].asked \/ rf[r].timer >= 0 \/ rf[r].again \/ rf[r].run = "wait"
                    \/ rf[r].run = "build" /\ rf[r].seen = dbv
                    \/ rf[r].up # "up"

(* The rows of one day are inserted once, whichever replicas reach midnight first. *)
SnapshotOnce == \A d \in Days : srwrites[d] <= 1

AggSound == BoundedWait /\ RefreshOwed /\ SnapshotOnce

(* ... and why.  A timer is always the timer of a write, within the wait;  *)
(* one replica builds at a time; what a replica owes survives it, because  *)
(* one that stops rebuilds when it boots; and a day's rows are pruned only *)
(* when the day is old.                                                    *)
RfType == [up : {"down", "boot", "up", "drain"}, timer : Int, dirty : Int,
           run : {"idle", "wait", "build", "snap", "snaplock"}, again : BOOLEAN,
           seen : Nat, memo : Int, day : Nat, asked : BOOLEAN]

Timed(s) ==
  /\ s.timer >= -1 /\ s.dirty >= -1
  /\ s.timer >= 0 => s.dirty >= 0 /\ s.dirty + s.timer <= RefreshMaxWait
  /\ s.up = "up" /\ s.timer = -1 => s.dirty = -1
  /\ s.up \in {"down", "boot"} => s.timer = -1 /\ s.dirty = -1 /\ ~s.asked /\ ~s.again
  /\ s.up = "down" => s.run = "idle"

Owes(s, v) == s.asked \/ s.timer >= 0 \/ s.again \/ s.run = "wait"
              \/ (s.run = "build" /\ s.seen = v) \/ s.up \in {"down", "drain"}

AggInv ==
  /\ dbv \in Nat /\ agg \in 0..dbv /\ srday \in Days /\ excused \in BOOLEAN
  /\ rf \in [AggReplicas -> RfType] /\ \A r \in AggReplicas : Timed(rf[r]) /\ rf[r].day <= srday
  /\ \A r \in AggReplicas : rf[r].run = "build" => rf[r].seen \in agg..dbv
  /\ \A r, o \in AggReplicas : rf[r].run = "build" /\ rf[o].run = "build" => r = o
  /\ agg < dbv => excused \/ \E r \in AggReplicas : Owes(rf[r], dbv)
  /\ srwrites \in [Days -> 0..1]
  /\ \A d \in Days : srwrites[d] = 0 \/ d \in srhist \/ d + SrKeep <= srday

(* A snapshot does not take SR_HISTORY_DAYS days: while one is under way   *)
(* its day is not old enough for another day's rows to prune it.           *)
Prompt == \A r \in AggReplicas : rf[r].run \in {"snap", "snaplock"} => srday < rf[r].day + SrKeep

(* The published tables never go back to an older read of the race table. *)
AggForward == [][agg' >= agg]_aggVars

(* Once writes stop, the tables catch up with the last one unless the log  *)
(* recorded a failure after it.                                            *)
CaughtUp == agg = dbv \/ excused
====
