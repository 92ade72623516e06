---- MODULE Operations ----
(***************************************************************************)
(* The operators' side of the site, shared by both web replicas through    *)
(* the database: the force restart a game box's watchdog collects,         *)
(* maintenance mode and its repeated in-game notice, the operator log and  *)
(* its pruning, and the in-process rate limiter (web/server.js, web/db.js).*)
(* The four parts share no variable; each has its own next-state relation. *)
(***************************************************************************)
EXTENDS Integers, FiniteSets, FiniteSetsExt, Functions

CONSTANTS OpsReplicas,
          Interval,       \* MAINT_REBROADCAST_SECS, in ticks
          LogKeep,        \* LOG_KEEP
          Window, Allowed, \* windowMs in ticks and max of a rateLimiter
          MaxRequests,    \* bound: restart requests
          MaxToggles,     \* bound: maintenance toggles
          MaxOpsTime,     \* bound: the clock of notices and limits
          MaxLog,         \* bound: log rows
          MaxHits         \* bound: rate limited requests

ASSUME OpsAssumption ==
  /\ Interval \in Nat \ {0} /\ LogKeep \in Nat /\ Window \in Nat \ {0} /\ Allowed \in Nat \ {0}
  /\ MaxRequests \in Nat /\ MaxToggles \in Nat /\ MaxOpsTime \in Nat /\ MaxLog \in Nat /\ MaxHits \in Nat

VARIABLES wanted, asked, handed, withdrawn, merged,                \* restarts of one server
          opsnow, conf, local, toggling, overlapped, toggles,            \* maintenance
          claiming, said, reading,
          logrows, lognext, logopen,                               \* server_log
          limnow, hits, arrived, refused                           \* one limiter, one key

restartVars == <<wanted, asked, handed, withdrawn, merged>>
maintVars == <<opsnow, conf, local, toggling, overlapped, toggles, claiming, said, reading>>
logVars == <<logrows, lognext, logopen>>
limitVars == <<limnow, hits, arrived, refused>>
opsVars == <<restartVars, maintVars, logVars, limitVars>>

----
(* Force restart: restart_requested_at is set or NULL. *)
RequestServerRestart ==
  /\ asked < MaxRequests /\ asked' = asked + 1
  /\ merged' = IF wanted THEN merged + 1 ELSE merged
  /\ wanted' = TRUE
  /\ UNCHANGED <<handed, withdrawn>>

(* GET /game/ops: the statement that reads the request clears it. *)
ClaimServerRestart ==
  /\ wanted
  /\ wanted' = FALSE /\ handed' = handed + 1
  /\ UNCHANGED <<asked, withdrawn, merged>>

CancelServerRestart ==
  /\ wanted' = FALSE /\ wanted
  /\ withdrawn' = withdrawn + 1
  /\ UNCHANGED <<asked, handed, merged>>

RestartNext == RequestServerRestart \/ ClaimServerRestart \/ CancelServerRestart

(* However polls of the watchdog race with each other and with the panel,  *)
(* every request ends in exactly one place: pending, handed out once,      *)
(* withdrawn, or folded into a later one.                                  *)
RestartOnce == asked = handed + withdrawn + merged + IF wanted THEN 1 ELSE 0

----
(***************************************************************************)
(* Maintenance mode: setMaintenance reads the clock (now) and writes its   *)
(* config keys one statement at a time.  conf.at is                        *)
(* maintenance_rebroadcast_at, 0 for no row; claiming is the clock a       *)
(* replica's timer read for its claim, 0 for none under way.  History, in  *)
(* said: the clock of the last notice, whether two came too close, and     *)
(* whether the stamp was written from a clock older than that notice.      *)
(***************************************************************************)
Off == [active |-> FALSE, msg |-> FALSE, at |-> 0]
Idle == [pc |-> 0, on |-> FALSE, now |-> 0]

StartToggle(r, on) ==
  /\ toggles < MaxToggles /\ toggling[r].pc = 0
  /\ toggles' = toggles + 1
  /\ overlapped' = \E o \in OpsReplicas : toggling[o].pc # 0
  /\ conf' = [conf EXCEPT !.active = on]
  /\ toggling' = [toggling EXCEPT ![r] = [pc |-> 1, on |-> on, now |-> opsnow]]
  /\ UNCHANGED <<opsnow, local, claiming, said, reading>>

ToggleMessage(r) ==
  /\ toggling[r].pc = 1
  /\ conf' = [conf EXCEPT !.msg = toggling[r].on]
  /\ toggling' = [toggling EXCEPT ![r].pc = 2]
  /\ UNCHANGED <<opsnow, local, overlapped, toggles, claiming, said, reading>>

(* The stamp, from the clock read at the start; then, with no await        *)
(* between, the local copy.                                                *)
ToggleStamp(r) ==
  /\ toggling[r].pc = 2
  /\ LET now == toggling[r].now IN
       IF toggling[r].on
       THEN /\ conf' = [conf EXCEPT !.at = now + Interval]
            /\ said' = [said EXCEPT !.pulled = now < said.last]
       ELSE conf' = [conf EXCEPT !.at = 0] /\ said' = said
  /\ local' = [local EXCEPT ![r] = toggling[r].on]
  /\ toggling' = [toggling EXCEPT ![r] = Idle]
  /\ UNCHANGED <<opsnow, overlapped, toggles, claiming, reading>>

(* The 30 s timer on a replica that believes maintenance is on reads the   *)
(* clock ...                                                               *)
MaintTimer(r) ==
  /\ local[r] /\ claiming[r] = 0
  /\ claiming' = [claiming EXCEPT ![r] = opsnow]
  /\ UNCHANGED <<opsnow, conf, local, toggling, overlapped, toggles, said, reading>>

Notice(now) == [last   |-> IF now > said.last THEN now ELSE said.last,
                pulled |-> now < said.last,
                tight  |-> said.tight \/ (~said.pulled /\ said.last >= 0 /\ now - said.last < Interval)]

MutClaimRebroadcast(r) ==   \* mutant: the claim does not look at the stamp
  /\ claiming[r] # 0 /\ claiming' = [claiming EXCEPT ![r] = 0]
  /\ conf.at # 0
  /\ said' = Notice(claiming[r])
  /\ UNCHANGED <<opsnow, conf, local, toggling, overlapped, toggles, reading>>

(* ... and then the conditional update; the notice when it won the row.    *)
ClaimRebroadcast(r) ==
  /\ claiming[r] # 0 /\ claiming' = [claiming EXCEPT ![r] = 0]
  /\ IF conf.at # 0 /\ conf.at <= claiming[r]
     THEN /\ conf' = [conf EXCEPT !.at = claiming[r] + Interval]
          /\ said' = Notice(claiming[r])
     ELSE UNCHANGED <<conf, said>>
  /\ UNCHANGED <<opsnow, local, toggling, overlapped, toggles, reading>>

(* refreshMaintenance: the read, and later the assignment. *)
ReadState(r) ==
  /\ reading[r] = "none"
  /\ reading' = [reading EXCEPT ![r] = IF conf.active THEN "on" ELSE "off"]
  /\ UNCHANGED <<opsnow, conf, local, toggling, overlapped, toggles, claiming, said>>

ApplyState(r) ==
  /\ reading[r] # "none"
  /\ local' = [local EXCEPT ![r] = reading[r] = "on"]
  /\ reading' = [reading EXCEPT ![r] = "none"]
  /\ UNCHANGED <<opsnow, conf, toggling, overlapped, toggles, claiming, said>>

OpsTick ==
  /\ opsnow < MaxOpsTime /\ opsnow' = opsnow + 1
  /\ UNCHANGED <<conf, local, toggling, overlapped, toggles, claiming, said, reading>>

MaintSteps(r) == ReadState(r) \/ ApplyState(r)

MaintNext ==
  \/ \E r \in OpsReplicas :
       \/ \E on \in BOOLEAN : StartToggle(r, on)
       \/ ToggleMessage(r) \/ ToggleStamp(r) \/ MaintSteps(r)
       \/ MaintTimer(r) \/ ClaimRebroadcast(r)
  \/ OpsTick

(* Two repeated notices are a whole interval apart by the clocks their     *)
(* claims read, whichever replicas send them, however late a claim reaches *)
(* the database and however often maintenance was switched between them -  *)
(* unless switching it on read its clock before the first of the two and   *)
(* wrote its stamp after it: such a stamp is older than the notice, and    *)
(* the code lets it bring the next one forward.                            *)
NoticeSpacing == ~said.tight

(* Between toggles that did not overlap, the state and the notice stamp    *)
(* agree: maintenance that is on is repeated, and one that is off is not.  *)
MaintWhole ==
  (\A r \in OpsReplicas : toggling[r].pc = 0) /\ ~overlapped
    => (conf.active <=> conf.at # 0) /\ (conf.active <=> conf.msg)

(* Both replicas agree with the database: again and again. *)
MaintAgreed == \A r \in OpsReplicas : local[r] = conf.active

----
(* appendServerLog: the row takes its id when the statement runs and is    *)
(* seen when it commits.                                                   *)
AppendServerLog ==
  /\ lognext <= MaxLog
  /\ logopen' = logopen \cup {lognext} /\ lognext' = lognext + 1
  /\ UNCHANGED logrows

LogCommits(i) ==
  /\ logopen' = logopen \ {i} /\ logrows' = logrows \cup {i}
  /\ UNCHANGED lognext

(* pruneServerLogs: ORDER BY id DESC OFFSET keep LIMIT 1. *)
Cutoff == {i \in logrows : Cardinality({j \in logrows : j > i}) = LogKeep}

PruneServerLogs ==
  /\ Cutoff # {}
  /\ logrows' = {i \in logrows : \A c \in Cutoff : i > c}
  /\ UNCHANGED <<lognext, logopen>>

LogNext == AppendServerLog \/ (\E i \in logopen : LogCommits(i)) \/ PruneServerLogs

(* A prune never takes one of the LogKeep newest rows, with statements in  *)
(* flight on either side of it.                                            *)
NewestKept == [][\A i \in logrows \ logrows' : Cardinality({j \in logrows : j > i}) >= LogKeep]_logVars

----
(***************************************************************************)
(* rateLimiter, for one key: a counter with the time it resets, dropped by *)
(* the sweep once past.  arrived: the times of the key's requests.         *)
(***************************************************************************)
NoHits == [count |-> 0, reset |-> -1]
Opened == [count |-> 0, reset |-> limnow + Window]
LimTimes == 0..MaxOpsTime
Recent(f) == SumFunctionOnSet(f, {t \in LimTimes : t > limnow - Window /\ t <= limnow})

Entry == IF hits.reset = -1 \/ hits.reset <= limnow THEN Opened ELSE hits

LimitedRequest ==
  /\ arrived.n < MaxHits
  /\ hits' = [Entry EXCEPT !.count = @ + 1]
  /\ refused' = (hits'.count > Allowed)
  /\ arrived' = [n |-> arrived.n + 1,
                 all |-> [arrived.all EXCEPT ![limnow] = @ + 1],
                 let |-> IF refused' THEN arrived.let ELSE [arrived.let EXCEPT ![limnow] = @ + 1]]
  /\ UNCHANGED limnow

Sweep ==
  /\ hits.reset # -1 /\ hits.reset <= limnow
  /\ hits' = NoHits
  /\ UNCHANGED <<limnow, arrived, refused>>

LimTick ==
  /\ limnow < MaxOpsTime /\ limnow' = limnow + 1 /\ refused' = FALSE
  /\ UNCHANGED <<hits, arrived>>

LimitNext == LimitedRequest \/ Sweep \/ LimTick

(* A request is refused only when its key sent more than Allowed in the    *)
(* last Window (a report under that rate is never lost to a 429), and no   *)
(* Window lets more than twice Allowed through.                            *)
LimiterSound ==
  /\ refused => Recent(arrived.all) > Allowed
  /\ Recent(arrived.let) <= 2 * Allowed

----
OpsInit ==
  /\ wanted = FALSE /\ asked = 0 /\ handed = 0 /\ withdrawn = 0 /\ merged = 0
  /\ opsnow = 1 /\ conf = Off /\ local = [r \in OpsReplicas |-> FALSE]
  /\ toggling = [r \in OpsReplicas |-> Idle] /\ overlapped = FALSE /\ toggles = 0
  /\ said = [last |-> -1, pulled |-> FALSE, tight |-> FALSE]
  /\ claiming = [r \in OpsReplicas |-> 0]
  /\ reading = [r \in OpsReplicas |-> "none"]
  /\ logrows = {} /\ lognext = 1 /\ logopen = {}
  /\ limnow = 0 /\ hits = NoHits /\ refused = FALSE
  /\ arrived = [n |-> 0, all |-> [t \in LimTimes |-> 0], let |-> [t \in LimTimes |-> 0]]

OpsNext ==
  \/ RestartNext /\ UNCHANGED <<maintVars, logVars, limitVars>>
  \/ MaintNext /\ UNCHANGED <<restartVars, logVars, limitVars>>
  \/ LogNext /\ UNCHANGED <<restartVars, maintVars, limitVars>>
  \/ LimitNext /\ UNCHANGED <<restartVars, maintVars, logVars>>

OpsSound == RestartOnce /\ NoticeSpacing /\ MaintWhole /\ LimiterSound

OpsSpec == OpsInit /\ [][OpsNext]_opsVars

----
(***************************************************************************)
(* ... and why.  A toggle that overlaps none is alone until its stamp, and *)
(* what it has written by then is what it was for; the next notice is due  *)
(* an interval after the last one, but for a stamp older than that.        *)
(***************************************************************************)
RestartInv ==
  /\ wanted \in BOOLEAN /\ asked \in Nat /\ handed \in Nat /\ withdrawn \in Nat /\ merged \in Nat
  /\ RestartOnce
MaintInv ==
  /\ opsnow \in Nat \ {0} /\ overlapped \in BOOLEAN
  /\ conf \in [active : BOOLEAN, msg : BOOLEAN, at : Nat]
  /\ local \in [OpsReplicas -> BOOLEAN] /\ reading \in [OpsReplicas -> {"none", "on", "off"}]
  /\ toggling \in [OpsReplicas -> [pc : 0..2, on : BOOLEAN, now : Nat]]
  /\ claiming \in [OpsReplicas -> Nat]
  /\ said \in [last : Nat \cup {-1}, pulled : BOOLEAN, tight : BOOLEAN]
  /\ NoticeSpacing
  /\ ~said.pulled /\ said.last >= 0 /\ conf.at # 0 => conf.at >= said.last + Interval
  /\ MaintWhole
  /\ ~overlapped => \A r \in OpsReplicas : toggling[r].pc # 0 =>
       /\ \A o \in OpsReplicas \ {r} : toggling[o].pc = 0
       /\ conf.active = toggling[r].on
       /\ toggling[r].pc = 2 => conf.msg = toggling[r].on
LogInv == logrows \in SUBSET Nat /\ IsFiniteSet(logrows) /\ logopen \in SUBSET Nat /\ lognext \in Nat

(* The limiter: its open window began when the last one was over, counts   *)
(* every request since and lets at most Allowed of them through; no        *)
(* earlier window that still matters let through more.                     *)
Span(a, b) == {t \in LimTimes : a <= t /\ t <= b}
Live == hits.reset > limnow
LimitTyped ==
  /\ limnow \in LimTimes /\ refused \in BOOLEAN
  /\ hits \in [count : Nat, reset : Nat \cup {-1}]
  /\ arrived \in [n : Nat, all : [LimTimes -> Nat], let : [LimTimes -> Nat]]
  /\ \A t \in LimTimes : t > limnow => arrived.all[t] = 0 /\ arrived.let[t] = 0
LimitInv ==
  /\ LimitTyped
  /\ Live => LET open == hits.reset - Window IN
       /\ open \in 0..limnow
       /\ hits.count = SumFunctionOnSet(arrived.all, Span(open, limnow))
       /\ SumFunctionOnSet(arrived.let, Span(open, limnow)) <= hits.count
       /\ SumFunctionOnSet(arrived.let, Span(open, limnow)) <= Allowed
       /\ SumFunctionOnSet(arrived.let, Span(limnow - Window + 1, open - 1)) <= Allowed
  /\ ~Live =>
       /\ SumFunctionOnSet(arrived.let, Span(limnow - Window + 1, limnow)) <= Allowed
       /\ arrived.all[limnow] = 0 /\ arrived.let[limnow] = 0
  /\ refused => Live /\ hits.count > Allowed

OpsInv == RestartInv /\ MaintInv /\ LogInv /\ LimitInv
====
