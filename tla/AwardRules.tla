----------------------------- MODULE AwardRules -----------------------------
(***************************************************************************)
(* The rule catalog of the achievements (web/achievements.js): what each   *)
(* kind of rule asks of the tables, for the players who qualify and, with  *)
(* the threshold removed, for a player's progress bar; over tables that    *)
(* ingests, renames and rebuilt identities change; and the insertion of    *)
(* the awards (web/db.js _insertAwards), a statement after the one that    *)
(* chose the players.  When a pass runs is in Achievements.                *)
(*                                                                         *)
(* Abstractions.  The clock counts UTC days and everything happens at one  *)
(* time of day.  One version.  A finish carries one measure, q, for its    *)
(* strafe quality, top speed or launch speed.  A player finishes a map at  *)
(* most once a day with the same measure.  best and standings are read as  *)
(* just rebuilt (Aggregates has their delay); standings rank by records.   *)
(***************************************************************************)
EXTENDS Integers, FiniteSets, FiniteSetsExt, Functions

CONSTANTS RulePlayers, RuleMaps,
          RuleStrafe,     \* maps of the category a rule may ask for
          Measures,       \* values a finish may carry
          Legacy,         \* <<player, map>> that may have a time older than the log
          LastDay,        \* bound: the last day
          MonthDays,      \* length of a month
          RollDays,       \* length of the rolling window
          MaxRuleRuns     \* bound: finishes

ASSUME AwardRulesAssumption ==
  /\ LastDay \in Nat /\ MonthDays \in Nat \ {0} /\ RollDays \in Nat \ {0}
  /\ IsFiniteSet(RulePlayers) /\ Measures \subseteq Nat /\ RuleStrafe \subseteq RuleMaps
  /\ Legacy \subseteq RulePlayers \X RuleMaps

VARIABLES rday,      \* today
          finish,    \* the finish log
          race,      \* personal bests: time, created_at, attempts
          old,       \* who had a time before the log began
          group,     \* player.canonical_id
          pass,      \* the rows of one definition between SELECT and INSERT
          held       \* player_achievement, for that definition

rulesVars == <<rday, finish, race, old, group, pass, held>>

Unknown == -1      \* NULL
NoRace == [time |-> 0, at |-> Unknown, attempts |-> Unknown]
NoPass == [on |-> FALSE, rows |-> {}, period |-> 0, moved |-> FALSE]

Groups == {group[p] : p \in RulePlayers}
Members(g) == {p \in RulePlayers : group[p] = g}

-----------------------------------------------------------------------------
(* Windows and periods.                                                    *)

windowSince(win) ==
  CASE win = "month" -> rday - (rday % MonthDays)
    [] win = "day" -> rday
    [] win = "rolling30" -> rday - RollDays
    [] OTHER -> 0

periodKey(def) ==
  CASE def.repeatable /\ def.win = "month" -> rday \div MonthDays
    [] def.repeatable /\ def.win = "day" -> rday
    [] OTHER -> 0

-----------------------------------------------------------------------------
(* What the rules read.                                                    *)

Log(g, since) == {f \in finish : group[f.p] = g /\ f.day >= since}
ActiveDays(g, since) == {f.day : f \in Log(g, since)}

\* run_tally: an attempt for each finish, and one for a time older than the log.
Tally(g, maps) == Cardinality({f \in Log(g, 0) : f.map \in maps})
                  + Cardinality({l \in old : group[l[1]] = g /\ l[2] \in maps})
Counter(g) == Tally(g, RuleMaps)

Races(g) == {race[p][m] : p \in Members(g), m \in RuleMaps} \ {NoRace}
BestTime(g, m) == LET t == {race[p][m].time : p \in Members(g)} \ {0}
                  IN IF t = {} THEN 0 ELSE Min(t)
best(g) == {m \in RuleMaps : BestTime(g, m) # 0}
bestRank(g, m) == 1 + Cardinality({h \in Groups : BestTime(h, m) # 0 /\ BestTime(h, m) < BestTime(g, m)})
records(g) == Cardinality({m \in best(g) : bestRank(g, m) = 1})
globalRank(g) == 1 + Cardinality({h \in Groups : records(h) > records(g)})

\* SELECT ... GROUP BY player HAVING gate: the gate is left out of a
\* progress query.  Unknown stands for a group without rows.
Rows(o, value(_), gate(_)) ==
  {[player |-> g, value |-> value(g)] :
     g \in {h \in o.ids : value(h) # Unknown /\ (o.progress \/ gate(h))}}

Counted(n) == IF n = 0 THEN Unknown ELSE n
Least(S) == IF S = {} THEN Unknown ELSE Min(S)
Most(S) == IF S = {} THEN Unknown ELSE Max(S)

-----------------------------------------------------------------------------
(* The kinds.                                                              *)

MutNewMaps(g, since) ==
  {m \in RuleMaps :
     /\ \E f \in Log(g, 0) : f.map = m
     /\ Min({f.day : f \in {x \in Log(g, 0) : x.map = m}}) >= since
     /\ race[g][m] = NoRace \/ race[g][m].at >= since}

\* Maps whose first logged finish is in the window and of which the group
\* holds no best from before it.
newMaps(g, since) ==
  {m \in RuleMaps :
     /\ \E f \in Log(g, 0) : f.map = m
     /\ Min({f.day : f \in {x \in Log(g, 0) : x.map = m}}) >= since
     /\ ~\E p \in Members(g) : race[p][m] # NoRace /\ (race[p][m].at = Unknown \/ race[p][m].at < since)}

distinct_maps_finished(rule, o) ==
  LET since == windowSince(rule.win)
      maps(g) == IF rule.win = "lifetime" THEN best(g)
                 ELSE IF rule.newOnly THEN newMaps(g, since)
                 ELSE {f.map : f \in Log(g, since)}
      value(g) == Counted(Cardinality(maps(g)))
      gate(g) == value(g) >= rule.min
  IN Rows(o, value, gate)

finishes(rule, o) ==
  LET value(g) == Counted(IF rule.win = "lifetime" THEN Counter(g)
                          ELSE Cardinality(Log(g, windowSince(rule.win))))
      gate(g) == value(g) >= rule.min
  IN Rows(o, value, gate)

attempts(rule, o) ==
  LET value(g) == Counted(Counter(g))
      gate(g) == value(g) >= rule.min
  IN Rows(o, value, gate)

movement_total(rule, o) == attempts(rule, o)

\* The best single run; DISTINCT ON, the greatest measure first.
strafe_quality_run(rule, o) ==
  LET value(g) == Most({f.q : f \in Log(g, 0)})
      gate(g) == \E f \in Log(g, 0) : f.q >= rule.min
  IN Rows(o, value, gate)

max_speed_run(rule, o) == strafe_quality_run(rule, o)
start_speed_run(rule, o) == strafe_quality_run(rule, o)

\* The average decides unrounded; the value is rounded.
strafe_quality_avg(rule, o) ==
  LET log(g) == Log(g, windowSince(rule.win))
      sum(g) == SumFunctionOnSet([f \in finish |-> f.q], log(g))
      n(g) == Cardinality(log(g))
      value(g) == IF n(g) = 0 THEN Unknown ELSE (2 * sum(g) + n(g)) \div (2 * n(g))
      gate(g) == n(g) >= rule.runs /\ sum(g) >= rule.min * n(g)
  IN Rows(o, value, gate)

world_records(rule, o) ==
  LET value(g) == IF best(g) = {} THEN Unknown ELSE records(g)
      gate(g) == records(g) >= rule.min
  IN Rows(o, value, gate)

global_rank(rule, o) ==
  LET value(g) == IF best(g) = {} THEN Unknown ELSE globalRank(g)
      gate(g) == globalRank(g) <= rule.min
  IN Rows(o, value, gate)

map_rank(rule, o) ==
  LET ranks(g) == {bestRank(g, m) : m \in best(g) \cap rule.maps}
      value(g) == Least(ranks(g))
      gate(g) == \E k \in ranks(g) : k <= rule.min
  IN Rows(o, value, gate)

map_category_finished(rule, o) ==
  LET value(g) == Counted(Cardinality(best(g) \cap RuleStrafe))
      gate(g) == value(g) >= rule.min
  IN Rows(o, value, gate)

map_time(rule, o) ==
  LET times(g) == (UNION {{race[p][m].time : p \in Members(g)} : m \in rule.maps}) \ {0}
      value(g) == Least(times(g))
      gate(g) == \E t \in times(g) : t <= rule.min
  IN Rows(o, value, gate)

pb_attempts(rule, o) ==
  LET tries(g) == {r.attempts : r \in Races(g)} \ {Unknown}
      value(g) == Least(tries(g))
      gate(g) == \E a \in tries(g) : a <= rule.min
  IN Rows(o, value, gate)

\* Gaps and islands: consecutive days share day - row_number.
Islands(days) ==
  LET rowNumber(d) == Cardinality({e \in days : e <= d})
      key(d) == d - rowNumber(d)
  IN {{d \in days : key(d) = key(e)} : e \in days}

play_streak(rule, o) ==
  LET value(g) == Most({Cardinality(i) : i \in Islands(ActiveDays(g, 0))})
      gate(g) == value(g) >= rule.min
  IN Rows(o, value, gate)

dedication(rule, o) ==
  LET value(g) == Counted(Cardinality(ActiveDays(g, windowSince(rule.win))))
      gate(g) == value(g) >= rule.min
  IN Rows(o, value, gate)

Sql(def, o) ==
  CASE def.kind = "distinct_maps_finished" -> distinct_maps_finished(def, o)
    [] def.kind = "finishes" -> finishes(def, o)
    [] def.kind = "attempts" -> attempts(def, o)
    [] def.kind = "movement_total" -> movement_total(def, o)
    [] def.kind = "strafe_quality_run" -> strafe_quality_run(def, o)
    [] def.kind = "max_speed_run" -> max_speed_run(def, o)
    [] def.kind = "start_speed_run" -> start_speed_run(def, o)
    [] def.kind = "strafe_quality_avg" -> strafe_quality_avg(def, o)
    [] def.kind = "world_records" -> world_records(def, o)
    [] def.kind = "global_rank" -> global_rank(def, o)
    [] def.kind = "map_rank" -> map_rank(def, o)
    [] def.kind = "map_category_finished" -> map_category_finished(def, o)
    [] def.kind = "map_time" -> map_time(def, o)
    [] def.kind = "pb_attempts" -> pb_attempts(def, o)
    [] def.kind = "play_streak" -> play_streak(def, o)
    [] def.kind = "dedication" -> dedication(def, o)

qualifyQuery(def, ids) == Sql(def, [progress |-> FALSE, ids |-> ids])
progressQuery(def, g) == Sql(def, [progress |-> TRUE, ids |-> {g}])

\* displayMeta's better: ranks, times and attempts count downwards.
BetterLow == {"global_rank", "map_rank", "map_time", "pb_attempts"}
Reached(def, value) == IF def.kind \in BetterLow THEN value <= def.min ELSE value >= def.min

-----------------------------------------------------------------------------
(* What changes the tables.                                                *)

RulesInit ==
  /\ rday = 0 /\ finish = {} /\ old \in SUBSET Legacy
  /\ race = [p \in RulePlayers |-> [m \in RuleMaps |->
               IF <<p, m>> \in old THEN [time |-> 2, at |-> Unknown, attempts |-> Unknown] ELSE NoRace]]
  /\ group = [p \in RulePlayers |-> p] /\ pass = NoPass /\ held = {}

\* An ingested finish: logged and counted, and the personal best replaced
\* when it is the first or faster.
IngestFinish(p, m, q) ==
  LET f == [p |-> p, map |-> m, q |-> q, day |-> rday]
      row == race[p][m]
      best1(t) == [race EXCEPT ![p][m] = [time |-> t, at |-> rday, attempts |-> Tally(group[p], {m}) + 1]]
  IN /\ f \notin finish /\ Cardinality(finish) < MaxRuleRuns
     /\ finish' = finish \cup {f}
     /\ \/ row = NoRace /\ race' = best1(2)
        \/ row # NoRace /\ row.time > 1 /\ race' = best1(row.time - 1)
        \/ row # NoRace /\ UNCHANGED race
     /\ UNCHANGED <<rday, old, group, pass, held>>

\* Two nicks turn out to be one person (a login arrives), or the rebuild of
\* the identities picks another representative; nobody is split again.
Regroup(g) ==
  /\ group' = [p \in RulePlayers |-> g]
  /\ pass' = IF pass.on THEN [pass EXCEPT !.moved = TRUE] ELSE pass
  /\ UNCHANGED <<rday, finish, race, old, held>>

NextDay ==
  /\ rday < LastDay /\ rday' = rday + 1
  /\ UNCHANGED <<finish, race, old, group, pass, held>>

\* evaluateAchievements: the rows of a definition ...
SelectRows(def, ids) ==
  /\ ~pass.on
  /\ LET rows == qualifyQuery(def, ids)
     IN /\ rows # {}
        /\ pass' = [on |-> TRUE, rows |-> {r.player : r \in rows}, period |-> periodKey(def), moved |-> FALSE]
  /\ UNCHANGED <<rday, finish, race, old, group, held>>

MutInsertAwards ==
  /\ pass.on
  /\ held' = held \cup {<<p, pass.period>> : p \in pass.rows}
  /\ pass' = NoPass
  /\ UNCHANGED <<rday, finish, race, old, group>>

\* ... and _insertAwards: but for those whose group holds the award of the
\* period under another id.
InsertAwards ==
  /\ pass.on
  /\ held' = held \cup {<<p, pass.period>> : p \in {q \in pass.rows :
                 ~\E h \in held : h[2] = pass.period /\ h[1] # q /\ group[h[1]] = group[q]}}
  /\ pass' = NoPass
  /\ UNCHANGED <<rday, finish, race, old, group>>

\* The definition that is awarded: a finish in every month.
Monthly == [kind |-> "finishes", win |-> "month", min |-> 1, repeatable |-> TRUE]

TablesNext(maps, measures) ==
  \/ \E p \in RulePlayers :
       (\E m \in maps, q \in measures : IngestFinish(p, m, q)) \/ Regroup(p)
  \/ NextDay

\* A pass over everybody, or over the players of one ingest.
PassNext ==
  (\E ids \in {Groups} \cup {{g} : g \in Groups} : SelectRows(Monthly, ids)) \/ InsertAwards

RulesSpec == RulesInit /\ [][TablesNext(RuleMaps, Measures) \/ PassNext]_rulesVars

-----------------------------------------------------------------------------
\* Definitions an admin could make of each kind.
Definitions ==
  {[kind |-> k, win |-> "lifetime", min |-> 2, newOnly |-> FALSE, maps |-> RuleMaps, runs |-> 2] :
     k \in {"distinct_maps_finished", "finishes", "attempts", "movement_total", "strafe_quality_run",
           "max_speed_run", "start_speed_run", "strafe_quality_avg", "map_category_finished", "play_streak"}}
  \cup {[kind |-> k, win |-> "lifetime", min |-> 1, newOnly |-> FALSE, maps |-> ms, runs |-> 1] :
     k \in {"world_records", "global_rank", "map_rank", "map_time", "pb_attempts"},
     ms \in {RuleMaps} \cup {{m} : m \in RuleMaps}}
  \cup {[kind |-> "distinct_maps_finished", win |-> w, min |-> 1, newOnly |-> n, maps |-> RuleMaps, runs |-> 1] :
     w \in {"month", "rolling30"}, n \in BOOLEAN}
  \cup {[kind |-> k, win |-> w, min |-> 2, newOnly |-> FALSE, maps |-> RuleMaps, runs |-> 2] :
     k \in {"finishes", "strafe_quality_avg", "dedication"}, w \in {"month", "day", "rolling30"}}

(* A profile's bar and the award agree: who qualifies has a bar that has   *)
(* reached its target, and a bar that has reached it belongs to a player   *)
(* who qualifies; the average excepted, whose bar is rounded and does not  *)
(* count the runs.  And the pass over an ingest's players finds those of   *)
(* them the pass over everybody finds.                                     *)
BarHonest(def) ==
  LET all == {r.player : r \in qualifyQuery(def, Groups)} IN
  \A g \in Groups :
    LET full == \E r \in progressQuery(def, g) : Reached(def, r.value) IN
    /\ g \in all => full
    /\ full /\ def.kind # "strafe_quality_avg" => g \in all
    /\ {r.player : r \in qualifyQuery(def, {g})} = {g} \cap all

ProgressHonest == \A def \in Definitions : BarHonest(def)

(* Gaps and islands find the longest run of consecutive days.              *)
LongestRun(days) ==
  Max({0} \cup {n \in 1..Cardinality(days) : \E d \in days : d..(d + n - 1) \subseteq days})

StreakExact ==
  \A g \in Groups : ActiveDays(g, 0) # {} =>
    progressQuery([kind |-> "play_streak", win |-> "lifetime", min |-> 1], g)
      = {[player |-> g, value |-> LongestRun(ActiveDays(g, 0))]}

(* A map counts as new exactly when the person, under whatever nick, first *)
(* finished it in the window; the one leak is a time older than the log    *)
(* that was improved in the window.                                        *)
NewIsNew ==
  \A win \in {"month", "rolling30"} : \A g \in Groups :
    LET since == windowSince(win)
        logged == {m \in RuleMaps : \E f \in Log(g, 0) : f.map = m}
        firstIn == {m \in logged : \A f \in Log(g, 0) : f.map = m => f.day >= since}
        hadIt(m) == {p \in Members(g) : <<p, m>> \in old}
    IN /\ {m \in firstIn : hadIt(m) = {}} \subseteq newMaps(g, since)
       /\ \A m \in newMaps(g, since) : m \in firstIn /\ \A p \in hadIt(m) : race[p][m].at >= since

RulesSound == ProgressHonest /\ StreakExact /\ NewIsNew

(* One award per person and period: an insertion gives no group a second   *)
(* one, whatever nick holds the first, unless the nicks became one person  *)
(* between the two statements.                                             *)
AwardOncePerPerson ==
  [][\A x \in held' \ held : \A y \in held' \ {x} :
       x[2] = y[2] /\ group[x[1]] = group[y[1]] => pass.moved /\ y \notin held]_rulesVars

(* Why: a group's representative represents itself; the rows of a pass are *)
(* such players, unless identities moved since; and a personal best is of  *)
(* the day of a logged finish, or older than the log.                      *)
BestRow == [time : Nat \ {0}, at : Nat \cup {Unknown}, attempts : Nat]
           \cup [time : Nat \ {0}, at : {Unknown}, attempts : {Unknown}]
RulesInv ==
  /\ rday \in Nat /\ old \subseteq RulePlayers \X RuleMaps
  /\ IsFiniteSet(finish) /\ finish \subseteq [p : RulePlayers, map : RuleMaps, q : Measures, day : 0..rday]
  /\ group \in [RulePlayers -> RulePlayers] /\ \A p \in RulePlayers : group[group[p]] = group[p]
  /\ race \in [RulePlayers -> [RuleMaps -> BestRow \cup {NoRace}]]
  /\ \A p \in RulePlayers, m \in RuleMaps : LET r == race[p][m] IN
       IF r.at = Unknown THEN r # NoRace <=> <<p, m>> \in old
       ELSE \E f \in finish : f.p = p /\ f.map = m /\ f.day = r.at
  /\ pass.on => pass.rows \subseteq RulePlayers /\ (pass.moved \/ pass.rows \subseteq Groups)
  /\ \A h \in held : h = <<h[1], h[2]>>
=============================================================================
