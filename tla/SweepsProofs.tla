---------------------------- MODULE SweepsProofs -----------------------------
(***************************************************************************)
(* What the work behind the rows promises for every number of replicas,    *)
(* workers, requesters, jobs, players and maps, every debounce, wait,      *)
(* quota and length of a month.                                            *)
(***************************************************************************)
EXTENDS MCSweeps, SumTheorems, FiniteSetTheorems, TLAPS

-----------------------------------------------------------------------------
(* Aggregates: one replica's refresher.                                    *)

\* The smaller of two delays.
LEMMA MinOfTwo ==
  ASSUME NEW a \in Int, NEW b \in Int
  PROVE  Min({a, b}) \in {a, b} /\ Min({a, b}) <= a /\ Min({a, b}) <= b
<1>1. \E x \in {a, b} : \A y \in {a, b} : x <= y
  <2>1. CASE a <= b BY <2>1
  <2>2. CASE ~(a <= b) BY <2>2
  <2> QED BY <2>1, <2>2
<1>2. Min({a, b}) \in {a, b} /\ \A y \in {a, b} : Min({a, b}) <= y BY <1>1 DEF Min
<1> QED BY <1>2

\* A refresher with one or two of its fields changed.
LEMMA RfWith ==
  ASSUME NEW s \in RfType
  PROVE  /\ \A v \in Int : LET t == [s EXCEPT !.timer = v]
              IN /\ t \in RfType /\ t.timer = v /\ t.up = s.up /\ t.dirty = s.dirty /\ t.run = s.run
                 /\ t.again = s.again /\ t.seen = s.seen /\ t.memo = s.memo /\ t.day = s.day /\ t.asked = s.asked
         /\ \A v \in Int : LET t == [s EXCEPT !.dirty = v]
              IN /\ t \in RfType /\ t.dirty = v /\ t.up = s.up /\ t.timer = s.timer /\ t.run = s.run
                 /\ t.again = s.again /\ t.seen = s.seen /\ t.memo = s.memo /\ t.day = s.day /\ t.asked = s.asked
         /\ \A v \in Int : LET t == [s EXCEPT !.memo = v]
              IN /\ t \in RfType /\ t.memo = v /\ t.up = s.up /\ t.timer = s.timer /\ t.run = s.run
                 /\ t.again = s.again /\ t.seen = s.seen /\ t.dirty = s.dirty /\ t.day = s.day /\ t.asked = s.asked
BY DEF RfType

\* ... its pass changed.
LEMMA RfRun ==
  ASSUME NEW s \in RfType, NEW v \in {"idle", "wait", "build", "snap", "snaplock"}
  PROVE  LET t == [s EXCEPT !.run = v]
         IN /\ t \in RfType /\ t.run = v /\ t.up = s.up /\ t.dirty = s.dirty /\ t.timer = s.timer
            /\ t.again = s.again /\ t.seen = s.seen /\ t.memo = s.memo /\ t.day = s.day /\ t.asked = s.asked
BY DEF RfType

\* ... the pass asked for after it.
LEMMA RfAgain ==
  ASSUME NEW s \in RfType, NEW v \in BOOLEAN
  PROVE  LET t == [s EXCEPT !.again = v]
         IN /\ t \in RfType /\ t.again = v /\ t.up = s.up /\ t.dirty = s.dirty /\ t.timer = s.timer
            /\ t.run = s.run /\ t.seen = s.seen /\ t.memo = s.memo /\ t.day = s.day /\ t.asked = s.asked
BY DEF RfType

\* ... the ingest about to ask.
LEMMA RfAsked ==
  ASSUME NEW s \in RfType, NEW v \in BOOLEAN
  PROVE  LET t == [s EXCEPT !.asked = v]
         IN /\ t \in RfType /\ t.asked = v /\ t.up = s.up /\ t.dirty = s.dirty /\ t.timer = s.timer
            /\ t.run = s.run /\ t.seen = s.seen /\ t.memo = s.memo /\ t.day = s.day /\ t.again = s.again
BY DEF RfType

\* ... its process.
LEMMA RfUp ==
  ASSUME NEW s \in RfType, NEW v \in {"down", "boot", "up", "drain"}
  PROVE  LET t == [s EXCEPT !.up = v]
         IN /\ t \in RfType /\ t.up = v /\ t.asked = s.asked /\ t.dirty = s.dirty /\ t.timer = s.timer
            /\ t.run = s.run /\ t.seen = s.seen /\ t.memo = s.memo /\ t.day = s.day /\ t.again = s.again
BY DEF RfType

\* ... the version it read, or its day.
LEMMA RfSeen ==
  ASSUME NEW s \in RfType, NEW v \in Nat
  PROVE  /\ LET t == [s EXCEPT !.seen = v]
            IN /\ t \in RfType /\ t.seen = v /\ t.asked = s.asked /\ t.dirty = s.dirty /\ t.timer = s.timer
               /\ t.run = s.run /\ t.up = s.up /\ t.memo = s.memo /\ t.day = s.day /\ t.again = s.again
         /\ LET t == [s EXCEPT !.day = v]
            IN /\ t \in RfType /\ t.day = v /\ t.asked = s.asked /\ t.dirty = s.dirty /\ t.timer = s.timer
               /\ t.run = s.run /\ t.up = s.up /\ t.memo = s.memo /\ t.seen = s.seen /\ t.again = s.again
BY DEF RfType

\* doRefresh: a serving replica runs its pass now or again after the one that runs.
LEMMA DoRefreshIs ==
  ASSUME NEW s \in RfType
  PROVE  LET t == DoRefresh(s)
         IN /\ t \in RfType /\ t.timer = -1 /\ t.dirty = -1
            /\ t.up = s.up /\ t.asked = s.asked /\ t.seen = s.seen /\ t.day = s.day
            /\ s.up # "up" => t.run = s.run /\ t.again = s.again
            /\ s.up = "up" /\ s.run # "idle" => t.run = s.run /\ t.again
            /\ s.up = "up" /\ s.run = "idle" => t.run = "wait" /\ t.again = s.again
<1> DEFINE a == [s EXCEPT !.timer = -1]
           b == [a EXCEPT !.dirty = -1]
<1>1. -1 \in Int OBVIOUS
<1>2. a \in RfType /\ a.timer = -1 /\ a.up = s.up /\ a.dirty = s.dirty /\ a.run = s.run
      /\ a.again = s.again /\ a.seen = s.seen /\ a.memo = s.memo /\ a.day = s.day /\ a.asked = s.asked
  BY <1>1, RfWith, Zenon
<1> HIDE DEF a
<1>3. b \in RfType /\ b.dirty = -1 /\ b.up = a.up /\ b.timer = a.timer /\ b.run = a.run
      /\ b.again = a.again /\ b.seen = a.seen /\ b.memo = a.memo /\ b.day = a.day /\ b.asked = a.asked
  BY <1>1, <1>2, RfWith, SMTT(60)
<1>4. b = [s EXCEPT !.timer = -1, !.dirty = -1] BY DEF a, RfType
<1> HIDE DEF b
<1>5. DoRefresh(s) = CASE b.up # "up" -> b
                       [] b.up = "up" /\ b.run # "idle" -> [b EXCEPT !.again = TRUE]
                       [] OTHER -> [b EXCEPT !.run = "wait"]
  BY <1>4 DEF DoRefresh
<1>6. CASE s.up # "up"
  <2>1. DoRefresh(s) = b BY <1>2, <1>3, <1>5, <1>6
  <2> QED BY <1>2, <1>3, <1>6, <2>1
<1>7. CASE s.up = "up" /\ s.run # "idle"
  <2>1. DoRefresh(s) = [b EXCEPT !.again = TRUE] BY <1>2, <1>3, <1>5, <1>7
  <2> DEFINE t == [b EXCEPT !.again = TRUE]
  <2>2. t \in RfType /\ t.again = TRUE /\ t.up = b.up /\ t.dirty = b.dirty /\ t.timer = b.timer
        /\ t.run = b.run /\ t.seen = b.seen /\ t.memo = b.memo /\ t.day = b.day /\ t.asked = b.asked
    BY <1>3, RfAgain, Zenon
  <2> HIDE DEF t
  <2> QED BY <1>2, <1>3, <1>7, <2>1, <2>2, ZenonT(60) DEF t
<1>8. CASE s.up = "up" /\ s.run = "idle"
  <2>1. DoRefresh(s) = [b EXCEPT !.run = "wait"] BY <1>2, <1>3, <1>5, <1>8
  <2> DEFINE t == [b EXCEPT !.run = "wait"]
  <2>2. t \in RfType /\ t.run = "wait" /\ t.up = b.up /\ t.dirty = b.dirty /\ t.timer = b.timer
        /\ t.again = b.again /\ t.seen = b.seen /\ t.memo = b.memo /\ t.day = b.day /\ t.asked = b.asked
    BY <1>3, RfRun, Zenon
  <2> HIDE DEF t
  <2> QED BY <1>2, <1>3, <1>8, <2>1, <2>2 DEF t
<1> QED BY <1>6, <1>7, <1>8

\* scheduleAggregateRefresh arms the timer within the wait, or refreshes when it is over.
LEMMA ScheduleIs ==
  ASSUME NEW s \in RfType, Timed(s)
  PROVE  LET t == ScheduleAggregateRefresh(s)
         IN /\ t \in RfType /\ t.up = s.up /\ t.asked = s.asked /\ t.seen = s.seen /\ t.day = s.day
            /\ \/ /\ t.run = s.run /\ t.again = s.again
                  /\ t.timer >= 0 /\ t.dirty >= 0 /\ t.dirty + t.timer <= RefreshMaxWait
               \/ /\ t.timer = -1 /\ t.dirty = -1
                  /\ s.up # "up" => t.run = s.run /\ t.again = s.again
                  /\ s.up = "up" /\ s.run # "idle" => t.run = s.run /\ t.again
                  /\ s.up = "up" /\ s.run = "idle" => t.run = "wait" /\ t.again = s.again
<1> DEFINE d == IF s.dirty = -1 THEN 0 ELSE s.dirty
           a == [s EXCEPT !.dirty = d]
<1>1. s.dirty \in Int /\ s.dirty >= -1 BY DEF RfType, Timed
<1>2. d \in Int /\ d >= 0 BY <1>1
<1>3. ScheduleAggregateRefresh(s) = IF a.dirty >= RefreshMaxWait THEN DoRefresh(a)
                                    ELSE [a EXCEPT !.timer = Min({RefreshDebounce, RefreshMaxWait - a.dirty})]
  BY DEF ScheduleAggregateRefresh
<1> HIDE DEF d
<1>4. a \in RfType /\ a.dirty = d /\ a.up = s.up /\ a.timer = s.timer /\ a.run = s.run
      /\ a.again = s.again /\ a.seen = s.seen /\ a.memo = s.memo /\ a.day = s.day /\ a.asked = s.asked
  BY <1>2, RfWith, Zenon
<1> HIDE DEF a
<1>5. CASE d >= RefreshMaxWait
  <2>1. ScheduleAggregateRefresh(s) = DoRefresh(a) BY <1>3, <1>4, <1>5
  <2> QED BY <1>4, <2>1, DoRefreshIs
<1>6. CASE ~(d >= RefreshMaxWait)
  <2> DEFINE m == Min({RefreshDebounce, RefreshMaxWait - d})
             t == [a EXCEPT !.timer = m]
  <2>1. RefreshDebounce \in Nat /\ RefreshMaxWait \in Nat BY AggAssumption
  <2>2. m \in {RefreshDebounce, RefreshMaxWait - d} /\ m <= RefreshMaxWait - d
    <3>1. RefreshDebounce \in Int /\ RefreshMaxWait - d \in Int BY <1>2, <2>1
    <3> QED BY <3>1, MinOfTwo
  <2>3. ScheduleAggregateRefresh(s) = t BY <1>3, <1>4, <1>6
  <2> HIDE DEF m
  <2>4. m \in Int /\ m >= 0 /\ d + m <= RefreshMaxWait BY <1>2, <1>6, <2>1, <2>2
  <2>5. t \in RfType /\ t.timer = m /\ t.up = a.up /\ t.dirty = a.dirty /\ t.run = a.run
        /\ t.again = a.again /\ t.seen = a.seen /\ t.memo = a.memo /\ t.day = a.day /\ t.asked = a.asked
    BY <1>4, <2>4, RfWith, SMTT(60)
  <2> HIDE DEF t
  <2> QED BY <1>2, <1>4, <2>3, <2>4, <2>5
<1> QED BY <1>5, <1>6

\* The end of a pass: the next one starts if it was asked for.
LEMMA DoneIs ==
  ASSUME NEW s \in RfType, Timed(s)
  PROVE  LET t == RefreshDone(s)
         IN /\ t \in RfType /\ t.asked = s.asked /\ t.seen = s.seen /\ t.day = s.day
            /\ t.up = IF s.up = "boot" THEN "up" ELSE s.up
            /\ t.run \in {"idle", "wait"} /\ ~t.again
            /\ \/ ~s.again /\ t.run = "idle" /\ t.timer = s.timer /\ t.dirty = s.dirty
               \/ s.again /\ t.timer = -1 /\ t.dirty = -1 /\ (t.run = "wait" \/ t.up = "drain")
<1> DEFINE u == IF s.up = "boot" THEN "up" ELSE s.up
           a == [s EXCEPT !.run = "idle"]
           b == [a EXCEPT !.again = FALSE]
           c == [b EXCEPT !.up = u]
<1>1. u \in {"down", "boot", "up", "drain"} BY DEF RfType
<1>2. c = [s EXCEPT !.run = "idle", !.again = FALSE, !.up = IF s.up = "boot" THEN "up" ELSE s.up] BY DEF RfType
<1>3. RefreshDone(s) = IF s.again THEN DoRefresh(c) ELSE c BY <1>2 DEF RefreshDone
<1> HIDE DEF u
<1>4. a \in RfType /\ a.run = "idle" /\ a.up = s.up /\ a.dirty = s.dirty /\ a.timer = s.timer
      /\ a.again = s.again /\ a.seen = s.seen /\ a.memo = s.memo /\ a.day = s.day /\ a.asked = s.asked
  BY RfRun, Zenon
<1> HIDE DEF a
<1>5. b \in RfType /\ b.again = FALSE /\ b.up = a.up /\ b.dirty = a.dirty /\ b.timer = a.timer
      /\ b.run = a.run /\ b.seen = a.seen /\ b.memo = a.memo /\ b.day = a.day /\ b.asked = a.asked
  BY <1>4, RfAgain, Zenon
<1> HIDE DEF b
<1>6. c \in RfType /\ c.up = u /\ c.asked = b.asked /\ c.dirty = b.dirty /\ c.timer = b.timer
      /\ c.run = b.run /\ c.seen = b.seen /\ c.memo = b.memo /\ c.day = b.day /\ c.again = b.again
  BY <1>1, <1>5, RfUp, ZenonT(60)
<1> HIDE DEF c
<1>7. CASE ~s.again BY <1>3, <1>4, <1>5, <1>6, <1>7 DEF u
<1>8. CASE s.again
  <2>1. RefreshDone(s) = DoRefresh(c) /\ c.run = "idle" /\ ~c.again BY <1>3, <1>4, <1>5, <1>6, <1>8
  <2>2. u \in {"up", "drain"}
    <3>1. s.up \notin {"down", "boot"} BY <1>8 DEF Timed
    <3> QED BY <3>1 DEF u, RfType
  <2> QED BY <1>4, <1>5, <1>6, <1>8, <2>1, <2>2, DoRefreshIs DEF u
<1> QED BY <1>7, <1>8

\* A step of one replica: it builds alone, and what it owed and gives up is
\* published, excused, or still owed.
LEMMA ReplicaMoves ==
  ASSUME AggInv, NEW r \in AggReplicas, NEW w \in RfType, rf' = [rf EXCEPT ![r] = w],
         Timed(w), w.day <= srday, srday' = srday,
         dbv' \in Nat, dbv' >= dbv, agg' \in 0..dbv', excused' \in BOOLEAN,
         w.run = "build" => w.seen \in agg'..dbv' /\ \A o \in AggReplicas \ {r} : rf[o].run # "build",
         agg' = agg \/ rf[r].run = "build",
         agg' < dbv' => \/ excused' \/ Owes(w, dbv')
                        \/ dbv' = dbv /\ agg < dbv /\ ~excused /\ ~Owes(rf[r], dbv),
         srwrites' \in [Days -> 0..1],
         \A d \in Days : srwrites'[d] = 0 \/ d \in srhist' \/ d + SrKeep <= srday
  PROVE  AggInv'
<1>1. rf' \in [AggReplicas -> RfType] /\ rf'[r] = w /\ \A o \in AggReplicas \ {r} : rf'[o] = rf[o]
  BY DEF AggInv
<1>2. ASSUME NEW o \in AggReplicas PROVE Timed(rf'[o]) /\ rf'[o].day <= srday'
  BY <1>1 DEF AggInv
<1>3. ASSUME NEW o \in AggReplicas, rf'[o].run = "build" PROVE rf'[o].seen \in agg'..dbv'
  <2>1. CASE o = r BY <1>1, <1>3, <2>1
  <2>2. CASE o # r
    <3>1. rf[o].run = "build" /\ rf[o].seen \in agg..dbv BY <1>1, <1>3, <2>2 DEF AggInv
    <3>2. rf[r].run # "build" BY <2>2, <3>1 DEF AggInv
    <3>3. agg' = agg /\ dbv \in Nat /\ agg \in Nat BY <3>2 DEF AggInv
    <3> QED BY <1>1, <2>2, <3>1, <3>3
  <2> QED BY <2>1, <2>2
<1>4. ASSUME NEW p \in AggReplicas, NEW o \in AggReplicas, rf'[p].run = "build", rf'[o].run = "build"
      PROVE  p = o
  BY <1>1, <1>4 DEF AggInv
<1>5. ASSUME agg' < dbv', ~excused' PROVE \E o \in AggReplicas : Owes(rf'[o], dbv')
  <2>1. CASE Owes(w, dbv') BY <1>1, <2>1
  <2>2. CASE dbv' = dbv /\ agg < dbv /\ ~excused /\ ~Owes(rf[r], dbv)
    <3>1. PICK o \in AggReplicas : Owes(rf[o], dbv) BY <2>2 DEF AggInv
    <3>2. o # r BY <2>2, <3>1
    <3> QED BY <1>1, <2>2, <3>1, <3>2
  <2> QED BY <1>5, <2>1, <2>2
<1>6. srday \in Days BY DEF AggInv
<1>7. \A o \in AggReplicas : Timed(rf[o])' BY <1>2 DEF Timed
<1>8. agg' < dbv' => excused' \/ \E o \in AggReplicas : Owes(rf[o], dbv)' BY <1>5 DEF Owes
<1>9. \A o \in AggReplicas : rf'[o].day <= srday' BY <1>2
<1>10. \A o \in AggReplicas : rf'[o].run = "build" => rf'[o].seen \in agg'..dbv' BY <1>3
<1>11. /\ srday' \in Days /\ dbv' \in Nat /\ agg' \in 0..dbv' /\ excused' \in BOOLEAN
       /\ srwrites' \in [Days -> 0..1]
       /\ \A d \in Days : srwrites'[d] = 0 \/ d \in srhist' \/ d + SrKeep <= srday'
  BY <1>6
<1>12. rf' \in [AggReplicas -> RfType] BY <1>1
<1> QED BY <1>4, <1>7, <1>8, <1>9, <1>10, <1>11, <1>12 DEF AggInv

\* ... one that neither reads nor writes the tables and keeps what it owes.
LEMMA QuietMoves ==
  ASSUME AggInv, NEW r \in AggReplicas, NEW w \in RfType, rf' = [rf EXCEPT ![r] = w],
         Timed(w), w.day <= srday, UNCHANGED <<srday, dbv, agg, excused>>,
         w.run = "build" => rf[r].run = "build" /\ w.seen = rf[r].seen,
         Owes(rf[r], dbv) => Owes(w, dbv),
         srwrites' \in [Days -> 0..1],
         \A d \in Days : srwrites'[d] = 0 \/ d \in srhist' \/ d + SrKeep <= srday
  PROVE  AggInv'
<1>1. dbv \in Nat /\ agg \in 0..dbv /\ excused \in BOOLEAN BY DEF AggInv
<1>2. w.run = "build" => w.seen \in agg'..dbv' /\ \A o \in AggReplicas \ {r} : rf[o].run # "build"
  BY DEF AggInv
<1>3. agg' < dbv' => \/ excused' \/ Owes(w, dbv')
                     \/ dbv' = dbv /\ agg < dbv /\ ~excused /\ ~Owes(rf[r], dbv)
  OBVIOUS
<1>4. dbv' \in Nat /\ dbv' >= dbv /\ agg' \in 0..dbv' /\ excused' \in BOOLEAN BY <1>1
<1>5. agg' = agg \/ rf[r].run = "build" OBVIOUS
<1>6. srday' = srday OBVIOUS
<1> QED BY <1>2, <1>3, <1>4, <1>5, <1>6, ReplicaMoves

\* The typed conjuncts, of one replica.
LEMMA RefresherIs ==
  ASSUME AggInv, NEW r \in AggReplicas
  PROVE  /\ rf[r] \in RfType /\ Timed(rf[r]) /\ rf[r].day \in Nat /\ rf[r].day <= srday /\ srday \in Days
         /\ rf[r].timer \in Int /\ rf[r].dirty \in Int /\ rf[r].memo \in Int /\ rf[r].seen \in Nat
         /\ srwrites \in [Days -> 0..1]
         /\ \A d \in Days : srwrites[d] = 0 \/ d \in srhist \/ d + SrKeep <= srday
BY DEF AggInv, RfType

\* Starting a pass, or asking for one, leaves the timer in order.
LEMMA RefreshTimed ==
  ASSUME NEW s \in RfType, Timed(s)
  PROVE  Timed(DoRefresh(s)) /\ (s.up \in {"up", "drain"} => \A v : Owes(DoRefresh(s), v))
<1> DEFINE t == DoRefresh(s)
<1>1. /\ t \in RfType /\ t.timer = -1 /\ t.dirty = -1
      /\ t.up = s.up /\ t.asked = s.asked /\ t.seen = s.seen /\ t.day = s.day
      /\ s.up # "up" => t.run = s.run /\ t.again = s.again
      /\ s.up = "up" /\ s.run # "idle" => t.run = s.run /\ t.again
      /\ s.up = "up" /\ s.run = "idle" => t.run = "wait" /\ t.again = s.again
  BY DoRefreshIs, Zenon
<1> HIDE DEF t
<1>2. Timed(t) BY <1>1 DEF Timed
<1>3. s.up \in {"up", "drain"} => \A v : Owes(t, v) BY <1>1 DEF Owes
<1> QED BY <1>2, <1>3 DEF t

\* So does the end of a pass, and nothing owed is forgotten.
LEMMA DoneTimed ==
  ASSUME NEW s \in RfType, Timed(s)
  PROVE  /\ Timed(RefreshDone(s)) /\ RefreshDone(s).run # "build"
         /\ s.run \notin {"wait", "build"} => \A v : Owes(s, v) => Owes(RefreshDone(s), v)
<1> DEFINE t == RefreshDone(s)
<1>1. /\ t \in RfType /\ t.asked = s.asked /\ t.seen = s.seen /\ t.day = s.day
      /\ t.up = IF s.up = "boot" THEN "up" ELSE s.up
      /\ t.run \in {"idle", "wait"} /\ ~t.again
      /\ \/ ~s.again /\ t.run = "idle" /\ t.timer = s.timer /\ t.dirty = s.dirty
         \/ s.again /\ t.timer = -1 /\ t.dirty = -1 /\ (t.run = "wait" \/ t.up = "drain")
  BY DoneIs, Zenon
<1> HIDE DEF t
<1>2. (t.timer = s.timer /\ t.dirty = s.dirty) \/ (t.timer = -1 /\ t.dirty = -1) BY <1>1
<1>3. s.up \in {"down", "boot", "up", "drain"} /\ (s.up \in {"down", "boot"} => ~s.again) BY DEF RfType, Timed
<1>4. Timed(t) BY <1>1, <1>2, <1>3 DEF Timed
<1>5. s.run \notin {"wait", "build"} => \A v : Owes(s, v) => Owes(t, v) BY <1>1 DEF Owes
<1> QED BY <1>1, <1>4, <1>5 DEF t

\* The handler asks for a rebuild.
LEMMA ScheduleKeeps ==
  ASSUME AggInv, NEW r \in AggReplicas, IngestSchedules(r) PROVE AggInv'
<1> DEFINE s == [rf[r] EXCEPT !.asked = FALSE]
           w == ScheduleAggregateRefresh(s)
<1>1. rf' = [rf EXCEPT ![r] = w] /\ UNCHANGED <<dbv, agg, srday, srhist, srwrites, excused>> /\ rf[r].asked
  BY DEF IngestSchedules
<1>2. s \in RfType /\ s.asked = FALSE /\ s.up = rf[r].up /\ s.dirty = rf[r].dirty /\ s.timer = rf[r].timer
      /\ s.run = rf[r].run /\ s.seen = rf[r].seen /\ s.memo = rf[r].memo /\ s.day = rf[r].day /\ s.again = rf[r].again
  BY RefresherIs, RfAsked, Zenon
<1> HIDE DEF s
<1>3. Timed(s) /\ s.up \in {"up", "drain"}
  <2>1. Timed(rf[r]) /\ rf[r] \in RfType BY RefresherIs
  <2>2. rf[r].up \in {"up", "drain"} BY <1>1, <2>1 DEF Timed, RfType
  <2> QED BY <1>2, <2>1, <2>2 DEF Timed
<1>4. /\ w \in RfType /\ w.up = s.up /\ w.asked = s.asked /\ w.seen = s.seen /\ w.day = s.day
      /\ \/ /\ w.run = s.run /\ w.again = s.again
            /\ w.timer >= 0 /\ w.dirty >= 0 /\ w.dirty + w.timer <= RefreshMaxWait
         \/ /\ w.timer = -1 /\ w.dirty = -1
            /\ s.up # "up" => w.run = s.run /\ w.again = s.again
            /\ s.up = "up" /\ s.run # "idle" => w.run = s.run /\ w.again
            /\ s.up = "up" /\ s.run = "idle" => w.run = "wait" /\ w.again = s.again
  BY <1>2, <1>3, ScheduleIs, Zenon
<1> HIDE DEF w
<1>5. w.timer \in Int /\ w.dirty \in Int BY <1>4 DEF RfType
<1>6. Timed(w) BY <1>3, <1>4, <1>5 DEF Timed
<1>7. Owes(w, dbv) BY <1>3, <1>4 DEF Owes
<1>8. w.day <= srday BY <1>2, <1>4, RefresherIs
<1>9. w.run = "build" => rf[r].run = "build" /\ w.seen = rf[r].seen BY <1>2, <1>3, <1>4
<1>10. srwrites' \in [Days -> 0..1] /\ \A d \in Days : srwrites'[d] = 0 \/ d \in srhist' \/ d + SrKeep <= srday
  BY <1>1, RefresherIs
<1> QED BY <1>1, <1>4, <1>6, <1>7, <1>8, <1>9, <1>10, QuietMoves

\* The timer fires.
LEMMA TimerFires ==
  ASSUME AggInv, NEW r \in AggReplicas, RefreshTimer(r) PROVE AggInv'
<1> DEFINE w == DoRefresh(rf[r])
<1>1. rf' = [rf EXCEPT ![r] = w] /\ UNCHANGED <<dbv, agg, srday, srhist, srwrites, excused>> /\ rf[r].timer = 0
  BY DEF RefreshTimer
<1>2. /\ rf[r] \in RfType /\ Timed(rf[r]) /\ rf[r].day <= srday
      /\ srwrites' \in [Days -> 0..1] /\ \A d \in Days : srwrites'[d] = 0 \/ d \in srhist' \/ d + SrKeep <= srday
  BY <1>1, RefresherIs
<1>3. rf[r].up \in {"up", "drain"} BY <1>1, <1>2 DEF Timed, RfType
<1>4. Timed(w) /\ Owes(w, dbv) BY <1>2, <1>3, RefreshTimed
<1>5. w \in RfType /\ w.day = rf[r].day /\ w.seen = rf[r].seen /\ (w.run = "build" => rf[r].run = "build")
  BY <1>2, DoRefreshIs
<1> HIDE DEF w
<1> QED BY <1>1, <1>2, <1>4, <1>5, QuietMoves

\* A pass ends, with or without a memoised day.
LEMMA PassEnds ==
  ASSUME AggInv, NEW r \in AggReplicas, NEW s \in RfType, Timed(s), s.day <= srday,
         rf' = [rf EXCEPT ![r] = RefreshDone(s)], UNCHANGED <<srday, dbv, agg, excused>>,
         s.run \in {"snap", "snaplock"}, Owes(rf[r], dbv) => Owes(s, dbv),
         srwrites' \in [Days -> 0..1],
         \A d \in Days : srwrites'[d] = 0 \/ d \in srhist' \/ d + SrKeep <= srday
  PROVE  AggInv'
<1> DEFINE w == RefreshDone(s)
<1>1. w \in RfType /\ w.day = s.day BY DoneIs
<1>2. Timed(w) /\ w.run # "build" /\ (Owes(s, dbv) => Owes(w, dbv)) BY DoneTimed
<1>3. rf' = [rf EXCEPT ![r] = w] OBVIOUS
<1> HIDE DEF w
<1> QED BY <1>1, <1>2, <1>3, QuietMoves

\* The same refresher with another memo.
LEMMA MemoIs ==
  ASSUME AggInv, NEW r \in AggReplicas, NEW v \in Int
  PROVE  LET s == [rf[r] EXCEPT !.memo = v]
         IN /\ s \in RfType /\ Timed(s) /\ s.day = rf[r].day /\ s.run = rf[r].run
            /\ (Owes(rf[r], dbv) => Owes(s, dbv))
<1> DEFINE s == [rf[r] EXCEPT !.memo = v]
<1>0. rf[r] \in RfType BY RefresherIs
<1>1. s \in RfType /\ s.memo = v /\ s.up = rf[r].up /\ s.timer = rf[r].timer /\ s.run = rf[r].run
      /\ s.again = rf[r].again /\ s.seen = rf[r].seen /\ s.dirty = rf[r].dirty /\ s.day = rf[r].day /\ s.asked = rf[r].asked
  BY <1>0, RfWith, Zenon
<1> HIDE DEF s
<1>2. Timed(s) BY <1>1, RefresherIs DEF Timed
<1>3. Owes(rf[r], dbv) => Owes(s, dbv) BY <1>1 DEF Owes
<1> QED BY <1>1, <1>2, <1>3 DEF s

\* The gate of the snapshot, and a snapshot that fails.
LEMMA GateKeeps ==
  ASSUME AggInv, NEW r \in AggReplicas, SnapshotGate(r) \/ SnapshotFails(r) PROVE AggInv'
<1>1. /\ rf[r] \in RfType /\ Timed(rf[r]) /\ rf[r].day \in Nat /\ rf[r].day <= srday
      /\ srwrites' \in [Days -> 0..1] /\ \A d \in Days : srwrites'[d] = 0 \/ d \in srhist' \/ d + SrKeep <= srday
      /\ UNCHANGED <<dbv, agg, srday, excused>> /\ DOMAIN rf = AggReplicas /\ rf[r].run \in {"snap", "snaplock"}
  BY RefresherIs DEF SnapshotGate, SnapshotFails, AggInv
<1>2. CASE rf' = [rf EXCEPT ![r] = RefreshDone(rf[r])] BY <1>1, <1>2, PassEnds
<1>3. CASE rf' = [rf EXCEPT ![r] = RefreshDone([rf[r] EXCEPT !.memo = rf[r].day])]
  <2> DEFINE v == rf[r].day
             s == [rf[r] EXCEPT !.memo = v]
  <2>1. v \in Int BY <1>1
  <2>2. s \in RfType /\ Timed(s) /\ s.day = rf[r].day /\ s.run = rf[r].run /\ (Owes(rf[r], dbv) => Owes(s, dbv))
    BY <2>1, MemoIs
  <2>3. rf' = [rf EXCEPT ![r] = RefreshDone(s)] BY <1>3
  <2> HIDE DEF s
  <2> QED BY <1>1, <2>2, <2>3, PassEnds
<1>4. CASE rf' = [rf EXCEPT ![r] = [rf[r] EXCEPT !.run = "snaplock"]]
  <2> DEFINE w == [rf[r] EXCEPT !.run = "snaplock"]
  <2>1. w \in RfType /\ w.run = "snaplock" /\ w.up = rf[r].up /\ w.dirty = rf[r].dirty /\ w.timer = rf[r].timer
        /\ w.again = rf[r].again /\ w.seen = rf[r].seen /\ w.memo = rf[r].memo /\ w.day = rf[r].day /\ w.asked = rf[r].asked
    BY <1>1, RfRun, Zenon
  <2>2. rf' = [rf EXCEPT ![r] = w] BY <1>4
  <2> HIDE DEF w
  <2>3. Timed(w) /\ (Owes(rf[r], dbv) => Owes(w, dbv)) BY <1>1, <2>1 DEF Timed, Owes
  <2>4. w.day <= srday BY <1>1, <2>1
  <2> QED BY <1>1, <2>1, <2>2, <2>3, <2>4, QuietMoves
<1> QED BY <1>1, <1>2, <1>3, <1>4 DEF SnapshotGate, SnapshotFails

\* The snapshot inserts the day's rows once: they are neither there nor pruned.
LEMMA SnapshotKeeps ==
  ASSUME AggInv, Prompt, NEW r \in AggReplicas, SnapshotCommits(r) PROVE AggInv'
<1> DEFINE d == rf[r].day
           s == [rf[r] EXCEPT !.memo = d]
<1>1. /\ rf[r] \in RfType /\ Timed(rf[r]) /\ d \in Nat /\ d <= srday /\ srday \in Days
      /\ srwrites \in [Days -> 0..1] /\ \A e \in Days : srwrites[e] = 0 \/ e \in srhist \/ e + SrKeep <= srday
  BY RefresherIs
<1>2. /\ UNCHANGED <<dbv, agg, srday, excused>> /\ rf[r].run = "snaplock" /\ rf' = [rf EXCEPT ![r] = RefreshDone(s)]
      /\ IF d \in srhist THEN UNCHANGED <<srhist, srwrites>>
         ELSE /\ srhist' = {e \in srhist \cup {d} : e >= d - (SrKeep - 1)}
              /\ srwrites' = [srwrites EXCEPT ![d] = @ + 1]
  BY RefresherIs DEF SnapshotCommits, AggInv
<1>3. srday < d + SrKeep BY <1>2 DEF Prompt
<1>4. s \in RfType /\ Timed(s) /\ s.day = d /\ s.run = rf[r].run /\ (Owes(rf[r], dbv) => Owes(s, dbv))
  <2>1. d \in Int BY <1>1
  <2> HIDE DEF d
  <2>2. s \in RfType /\ Timed(s) /\ s.day = rf[r].day /\ s.run = rf[r].run /\ (Owes(rf[r], dbv) => Owes(s, dbv))
    BY <2>1, MemoIs
  <2> QED BY <2>2 DEF d
<1> HIDE DEF d, s
<1>5. SrKeep \in Nat \ {0} /\ MaxSrDay \in Nat BY AggAssumption
<1>6. d \in Days /\ srday \in Nat BY <1>1, <1>5 DEF Days
<1>7. /\ srwrites' \in [Days -> 0..1]
      /\ \A e \in Days : srwrites'[e] = 0 \/ e \in srhist' \/ e + SrKeep <= srday
  <2>1. CASE d \in srhist BY <1>1, <1>2, <2>1
  <2>2. CASE d \notin srhist
    <3>1. srwrites[d] = 0 BY <1>1, <1>3, <1>5, <1>6, <2>2
    <3>2. srwrites' \in [Days -> 0..1] /\ srwrites'[d] = 1 /\ \A e \in Days \ {d} : srwrites'[e] = srwrites[e]
      BY <1>1, <1>2, <1>6, <2>2, <3>1
    <3>3. ASSUME NEW e \in Days PROVE srwrites'[e] = 0 \/ e \in srhist' \/ e + SrKeep <= srday
      <4>1. e \in Nat BY <1>5 DEF Days
      <4>2. CASE e = d
        <5>1. d >= d - (SrKeep - 1) BY <1>1, <1>5
        <5> QED BY <1>2, <2>2, <4>2, <5>1
      <4>3. CASE e # d /\ e \in srhist
        <5>1. e >= d - (SrKeep - 1) \/ e + SrKeep <= srday BY <1>1, <1>5, <1>6, <4>1
        <5> QED BY <1>2, <2>2, <4>3, <5>1
      <4>4. CASE e # d /\ e \notin srhist BY <1>1, <3>2, <4>4
      <4> QED BY <4>2, <4>3, <4>4
    <3> QED BY <3>2, <3>3
  <2> QED BY <2>1, <2>2
<1> QED BY <1>1, <1>2, <1>4, <1>7, PassEnds

\* A shutdown, an exit and a boot: a replica that is not up owes a rebuild.
LEMMA ProcessKeeps ==
  ASSUME AggInv, NEW r \in AggReplicas, Shutdown(r) \/ Exit(r) \/ Boot(r) PROVE AggInv'
<1>1. /\ rf[r] \in RfType /\ Timed(rf[r]) /\ rf[r].day \in Nat /\ rf[r].day <= srday /\ srday \in Days
      /\ srwrites' \in [Days -> 0..1] /\ \A d \in Days : srwrites'[d] = 0 \/ d \in srhist' \/ d + SrKeep <= srday
      /\ UNCHANGED <<dbv, agg, srday, excused>>
  BY RefresherIs DEF Shutdown, Exit, Boot
<1>2. CASE Shutdown(r)
  <2> DEFINE a == [rf[r] EXCEPT !.up = "drain"]
             w == [a EXCEPT !.timer = -1]
  <2>1. -1 \in Int OBVIOUS
  <2>2. a \in RfType /\ a.up = "drain" /\ a.asked = rf[r].asked /\ a.dirty = rf[r].dirty /\ a.timer = rf[r].timer
        /\ a.run = rf[r].run /\ a.seen = rf[r].seen /\ a.memo = rf[r].memo /\ a.day = rf[r].day /\ a.again = rf[r].again
    BY <1>1, RfUp, Zenon
  <2>3. rf' = [rf EXCEPT ![r] = w] BY <1>2 DEF Shutdown, AggInv, RfType
  <2> HIDE DEF a
  <2>4. w \in RfType /\ w.timer = -1 /\ w.up = a.up /\ w.dirty = a.dirty /\ w.run = a.run
        /\ w.again = a.again /\ w.seen = a.seen /\ w.memo = a.memo /\ w.day = a.day /\ w.asked = a.asked
    BY <2>1, <2>2, RfWith, SMTT(60)
  <2> HIDE DEF w
  <2>5. Timed(w) /\ Owes(w, dbv) BY <1>1, <2>2, <2>4 DEF Timed, Owes
  <2>6. w.day <= srday /\ (w.run = "build" => rf[r].run = "build" /\ w.seen = rf[r].seen) BY <1>1, <2>2, <2>4
  <2> QED BY <1>1, <2>3, <2>4, <2>5, <2>6, QuietMoves
<1>3. CASE Exit(r)
  <2> DEFINE w == FreshProcess
  <2>1. rf' = [rf EXCEPT ![r] = w] BY <1>3 DEF Exit
  <2>2. w \in RfType /\ w.up = "down" /\ w.run = "idle" /\ w.timer = -1 /\ w.dirty = -1 /\ ~w.again /\ ~w.asked /\ w.day = 0
    BY DEF FreshProcess, RfType
  <2> HIDE DEF w
  <2>3. Timed(w) /\ Owes(w, dbv) BY <2>2 DEF Timed, Owes
  <2>4. w.day <= srday BY <1>1, <2>2, AggAssumption DEF Days
  <2> QED BY <1>1, <2>1, <2>2, <2>3, <2>4, QuietMoves
<1>4. CASE Boot(r)
  <2> DEFINE a == [rf[r] EXCEPT !.up = "boot"]
             w == [a EXCEPT !.run = "wait"]
  <2>2. a \in RfType /\ a.up = "boot" /\ a.asked = rf[r].asked /\ a.dirty = rf[r].dirty /\ a.timer = rf[r].timer
        /\ a.run = rf[r].run /\ a.seen = rf[r].seen /\ a.memo = rf[r].memo /\ a.day = rf[r].day /\ a.again = rf[r].again
    BY <1>1, RfUp, Zenon
  <2>3. rf' = [rf EXCEPT ![r] = w] /\ rf[r].up = "down" BY <1>4 DEF Boot, AggInv, RfType
  <2> HIDE DEF a
  <2>4. w \in RfType /\ w.run = "wait" /\ w.up = a.up /\ w.dirty = a.dirty /\ w.timer = a.timer
        /\ w.again = a.again /\ w.seen = a.seen /\ w.memo = a.memo /\ w.day = a.day /\ w.asked = a.asked
    BY <2>2, RfRun, Zenon
  <2> HIDE DEF w
  <2>5. Timed(w) /\ Owes(w, dbv) BY <1>1, <2>2, <2>3, <2>4 DEF Timed, Owes
  <2>6. w.day <= srday /\ w.run # "build" BY <1>1, <2>2, <2>4
  <2> QED BY <1>1, <2>3, <2>4, <2>5, <2>6, QuietMoves
<1> QED BY <1>2, <1>3, <1>4

\* A write: its ingest will ask, or its handler fails and the log says so.
LEMMA WriteAsks ==
  ASSUME AggInv, NEW r \in AggReplicas, IngestCommits(r) \/ TouchServerFails(r) \/ SetMapgenRated(r) PROVE AggInv'
<1>1. /\ rf[r] \in RfType /\ Timed(rf[r]) /\ rf[r].day \in Nat /\ rf[r].day <= srday
      /\ srwrites' \in [Days -> 0..1] /\ \A d \in Days : srwrites'[d] = 0 \/ d \in srhist' \/ d + SrKeep <= srday
      /\ agg' = agg /\ srday' = srday
  BY RefresherIs DEF IngestCommits, TouchServerFails, SetMapgenRated
<1>2. dbv \in Nat /\ agg \in 0..dbv /\ (rf[r].run = "build" => rf[r].seen \in agg..dbv
      /\ \A o \in AggReplicas \ {r} : rf[o].run # "build")
  BY DEF AggInv
<1>3. dbv' \in Nat /\ dbv' >= dbv /\ agg' \in 0..dbv' /\ excused' \in BOOLEAN
  <2>1. (dbv' = dbv + 1 \/ dbv' = dbv) /\ (excused' = FALSE \/ excused' = TRUE)
    BY DEF IngestCommits, TouchServerFails, SetMapgenRated
  <2>2. excused' \in BOOLEAN BY <2>1
  <2>3. dbv' \in Nat /\ dbv' >= dbv /\ agg' \in 0..dbv'
    <3>1. dbv' = dbv + 1 \/ dbv' = dbv BY <2>1
    <3> QED BY <1>1, <1>2, <3>1
  <2> QED BY <2>2, <2>3
<1>4. rf[r].run = "build" => rf[r].seen \in agg'..dbv' /\ \A o \in AggReplicas \ {r} : rf[o].run # "build"
  BY <1>1, <1>2, <1>3
<1>5. CASE IngestCommits(r) \/ TouchServerFails(r)
  <2>1. PICK b \in BOOLEAN : rf' = [rf EXCEPT ![r] = [rf[r] EXCEPT !.asked = b]] /\ (b \/ excused')
    <3>1. CASE IngestCommits(r)
      <4>1. rf' = [rf EXCEPT ![r] = [rf[r] EXCEPT !.asked = TRUE]] BY <3>1 DEF IngestCommits, AggInv
      <4> QED BY <4>1
    <3>2. CASE TouchServerFails(r)
      <4>1. rf' = [rf EXCEPT ![r] = [rf[r] EXCEPT !.asked = FALSE]] /\ excused' BY <3>2 DEF TouchServerFails, AggInv
      <4> QED BY <4>1
    <3> QED BY <1>5, <3>1, <3>2
  <2> DEFINE x == [rf[r] EXCEPT !.asked = b]
  <2>2. x \in RfType /\ x.asked = b /\ x.up = rf[r].up /\ x.dirty = rf[r].dirty /\ x.timer = rf[r].timer
        /\ x.run = rf[r].run /\ x.seen = rf[r].seen /\ x.memo = rf[r].memo /\ x.day = rf[r].day /\ x.again = rf[r].again
    BY <1>1, RfAsked, ZenonT(40)
  <2>3. rf' = [rf EXCEPT ![r] = x] BY <2>1
  <2> HIDE DEF x
  <2>4. rf[r].up \in {"up", "drain"}
    <3>1. CASE IngestCommits(r) BY <3>1 DEF IngestCommits, Serving
    <3>2. CASE TouchServerFails(r) BY <1>1, <3>2 DEF TouchServerFails, Timed, RfType
    <3> QED BY <1>5, <3>1, <3>2
  <2>5. Timed(x) BY <1>1, <2>2, <2>4 DEF Timed
  <2>6. excused' \/ Owes(x, dbv') BY <2>1, <2>2 DEF Owes
  <2>7. x.day <= srday /\ (x.run = "build" => x.seen \in agg'..dbv' /\ \A o \in AggReplicas \ {r} : rf[o].run # "build")
    BY <1>1, <1>4, <2>2
  <2> QED BY <1>1, <1>3, <2>2, <2>3, <2>5, <2>6, <2>7, ReplicaMoves
<1>6. CASE SetMapgenRated(r)
  <2> DEFINE w == DoRefresh(rf[r])
  <2>1. rf' = [rf EXCEPT ![r] = w] /\ rf[r].up = "up" BY <1>6 DEF SetMapgenRated
  <2>2. Timed(w) /\ Owes(w, dbv') BY <1>1, <2>1, RefreshTimed
  <2>3. w \in RfType /\ w.day = rf[r].day /\ w.seen = rf[r].seen /\ (w.run = "build" => rf[r].run = "build")
    BY <1>1, DoRefreshIs
  <2> HIDE DEF w
  <2>4. w.day <= srday /\ (w.run = "build" => w.seen \in agg'..dbv' /\ \A o \in AggReplicas \ {r} : rf[o].run # "build")
    BY <1>1, <1>4, <2>3
  <2> QED BY <1>1, <1>3, <2>1, <2>2, <2>3, <2>4, ReplicaMoves
<1> QED BY <1>5, <1>6

\* The advisory lock: nobody else builds, and the newest rows are read.
LEMMA LockKeeps ==
  ASSUME AggInv, NEW r \in AggReplicas, LockAndRead(r) PROVE AggInv'
<1> DEFINE a == [rf[r] EXCEPT !.run = "build"]
           w == [a EXCEPT !.seen = dbv]
<1>1. /\ rf[r] \in RfType /\ Timed(rf[r]) /\ rf[r].day \in Nat /\ rf[r].day <= srday /\ rf[r].run = "wait"
      /\ srwrites' \in [Days -> 0..1] /\ \A d \in Days : srwrites'[d] = 0 \/ d \in srhist' \/ d + SrKeep <= srday
      /\ UNCHANGED <<agg, srday, dbv, excused>> /\ \A o \in AggReplicas : rf[o].run # "build"
  BY RefresherIs DEF LockAndRead
<1>2. dbv \in Nat /\ agg \in 0..dbv /\ excused \in BOOLEAN BY DEF AggInv
<1>3. a \in RfType /\ a.run = "build" /\ a.up = rf[r].up /\ a.dirty = rf[r].dirty /\ a.timer = rf[r].timer
      /\ a.again = rf[r].again /\ a.seen = rf[r].seen /\ a.memo = rf[r].memo /\ a.day = rf[r].day /\ a.asked = rf[r].asked
  BY <1>1, RfRun, Zenon
<1>4. rf' = [rf EXCEPT ![r] = w] BY DEF LockAndRead, AggInv, RfType
<1> HIDE DEF a
<1>5. w \in RfType /\ w.seen = dbv /\ w.asked = a.asked /\ w.dirty = a.dirty /\ w.timer = a.timer
      /\ w.run = a.run /\ w.up = a.up /\ w.memo = a.memo /\ w.day = a.day /\ w.again = a.again
  BY <1>2, <1>3, RfSeen, ZenonT(40)
<1> HIDE DEF w
<1>6. w.up # "down" BY <1>1, <1>3, <1>5 DEF Timed
<1>7. Timed(w) /\ Owes(w, dbv') BY <1>1, <1>3, <1>5, <1>6 DEF Timed, Owes
<1>8. dbv' \in Nat /\ dbv' >= dbv /\ agg' \in 0..dbv' /\ excused' \in BOOLEAN /\ agg' = agg /\ w.day <= srday
  BY <1>1, <1>2, <1>3, <1>5
<1>9. w.seen \in agg'..dbv' BY <1>1, <1>2, <1>5
<1> QED BY <1>1, <1>4, <1>5, <1>7, <1>8, <1>9, ReplicaMoves

\* The tables are those of the version the builder read.
LEMMA SwapKeeps ==
  ASSUME AggInv, NEW r \in AggReplicas, SwapCommits(r) PROVE AggInv'
<1> DEFINE a == [rf[r] EXCEPT !.run = "snap"]
           w == [a EXCEPT !.day = srday]
<1>1. /\ rf[r] \in RfType /\ Timed(rf[r]) /\ srday \in Nat /\ rf[r].run = "build" /\ agg' = rf[r].seen
      /\ srwrites' \in [Days -> 0..1] /\ \A d \in Days : srwrites'[d] = 0 \/ d \in srhist' \/ d + SrKeep <= srday
      /\ UNCHANGED <<srday, dbv, excused>>
  BY RefresherIs, AggAssumption DEF SwapCommits, Days
<1>2. dbv \in Nat /\ agg \in 0..dbv /\ excused \in BOOLEAN /\ rf[r].seen \in agg..dbv BY <1>1 DEF AggInv
<1>3. a \in RfType /\ a.run = "snap" /\ a.up = rf[r].up /\ a.dirty = rf[r].dirty /\ a.timer = rf[r].timer
      /\ a.again = rf[r].again /\ a.seen = rf[r].seen /\ a.memo = rf[r].memo /\ a.day = rf[r].day /\ a.asked = rf[r].asked
  BY <1>1, RfRun, Zenon
<1>4. rf' = [rf EXCEPT ![r] = w] BY DEF SwapCommits, AggInv, RfType
<1> HIDE DEF a
<1>5. w \in RfType /\ w.day = srday /\ w.asked = a.asked /\ w.dirty = a.dirty /\ w.timer = a.timer
      /\ w.run = a.run /\ w.up = a.up /\ w.memo = a.memo /\ w.seen = a.seen /\ w.again = a.again
  BY <1>1, <1>3, RfSeen, ZenonT(40)
<1> HIDE DEF w
<1>6. w.up # "down" BY <1>1, <1>3, <1>5 DEF Timed
<1>7. Timed(w) BY <1>1, <1>3, <1>5, <1>6 DEF Timed
<1>8. dbv' \in Nat /\ dbv' >= dbv /\ agg' \in 0..dbv' /\ excused' \in BOOLEAN /\ w.day <= srday /\ dbv' = dbv
  BY <1>1, <1>2, <1>5
<1>9. agg' < dbv' => \/ excused' \/ Owes(w, dbv')
                     \/ dbv' = dbv /\ agg < dbv /\ ~excused /\ ~Owes(rf[r], dbv)
  <2>1. SUFFICES ASSUME rf[r].seen < dbv, ~excused, ~Owes(w, dbv) PROVE agg < dbv /\ ~Owes(rf[r], dbv)
    BY <1>1
  <2>2. agg < dbv BY <1>2, <2>1
  <2>3. rf[r].seen # dbv BY <1>2, <2>1
  <2>4. ~Owes(rf[r], dbv) BY <1>1, <1>3, <1>5, <2>1, <2>3 DEF Owes
  <2> QED BY <2>2, <2>4
<1>10. w.run # "build" BY <1>3, <1>5
<1> QED BY <1>1, <1>4, <1>5, <1>7, <1>8, <1>9, <1>10, ReplicaMoves

\* A rebuild that fails is logged; a boot that fails is tried again.
LEMMA FailKeeps ==
  ASSUME AggInv, NEW r \in AggReplicas, RebuildFails(r) PROVE AggInv'
<1>1. /\ rf[r] \in RfType /\ Timed(rf[r]) /\ rf[r].day \in Nat /\ rf[r].day <= srday /\ srday \in Nat
      /\ srwrites' \in [Days -> 0..1] /\ \A d \in Days : srwrites'[d] = 0 \/ d \in srhist' \/ d + SrKeep <= srday
      /\ UNCHANGED <<srday, dbv, agg>> /\ excused' = (excused \/ rf[r].up # "boot")
  BY RefresherIs, AggAssumption DEF RebuildFails, Days
<1>2. dbv \in Nat /\ agg \in 0..dbv /\ excused \in BOOLEAN BY DEF AggInv
<1>3. dbv' \in Nat /\ dbv' >= dbv /\ agg' \in 0..dbv' /\ excused' \in BOOLEAN BY <1>1, <1>2
<1>4. CASE rf[r].up = "boot"
  <2> DEFINE w == FreshProcess
  <2>1. rf' = [rf EXCEPT ![r] = w] BY <1>4 DEF RebuildFails, AggInv
  <2>2. w \in RfType /\ w.up = "down" /\ w.run = "idle" /\ w.timer = -1 /\ w.dirty = -1 /\ ~w.again /\ ~w.asked /\ w.day = 0
    BY DEF FreshProcess, RfType
  <2> HIDE DEF w
  <2>3. Timed(w) /\ Owes(w, dbv') BY <2>2 DEF Timed, Owes
  <2>4. w.day <= srday /\ w.run # "build" BY <1>1, <2>2
  <2> QED BY <1>1, <1>3, <2>1, <2>2, <2>3, <2>4, ReplicaMoves
<1>5. CASE rf[r].up # "boot"
  <2> DEFINE w == RefreshDone(rf[r])
  <2>1. rf' = [rf EXCEPT ![r] = w] BY <1>5 DEF RebuildFails, AggInv
  <2>2. w \in RfType /\ w.day = rf[r].day BY <1>1, DoneIs
  <2>3. Timed(w) /\ w.run # "build" BY <1>1, DoneTimed
  <2> HIDE DEF w
  <2>4. w.day <= srday BY <1>1, <2>2
  <2> QED BY <1>1, <1>3, <1>5, <2>1, <2>2, <2>3, <2>4, ReplicaMoves
<1> QED BY <1>4, <1>5

\* A tick: every armed timer comes nearer as its wait goes on.
LEMMA TickKeeps ==
  ASSUME AggInv, AggTick \/ SrMidnight PROVE AggInv'
<1>1. CASE SrMidnight
  <2>1. UNCHANGED <<dbv, agg, srhist, srwrites, excused, rf>> /\ srday' = srday + 1 /\ srday < MaxSrDay
    BY <1>1 DEF SrMidnight
  <2>2. srday \in Nat /\ srday' \in Days /\ SrKeep \in Nat BY <2>1, AggAssumption DEF AggInv, Days
  <2>3. \A r \in AggReplicas : Timed(rf[r])' /\ rf'[r].day <= srday'
    BY <2>1, <2>2, RefresherIs DEF Timed
  <2>4. \A d \in Days : srwrites'[d] = 0 \/ d \in srhist' \/ d + SrKeep <= srday'
    <3>1. \A d \in Days : d \in Nat BY DEF Days
    <3> QED BY <2>1, <2>2, <3>1 DEF AggInv
  <2> HIDE DEF Timed
  <2> QED BY <2>1, <2>2, <2>3, <2>4 DEF AggInv, Owes
<1>2. CASE AggTick
  <2> DEFINE Next(s) == IF s.timer < 0 THEN s ELSE [s EXCEPT !.timer = @ - 1, !.dirty = @ + 1]
  <2>1. /\ \A r \in AggReplicas : rf[r].timer # 0
        /\ rf' = [r \in AggReplicas |-> Next(rf[r])] /\ UNCHANGED <<dbv, agg, srday, srhist, srwrites, excused>>
    BY <1>2 DEF AggTick
  <2>2. ASSUME NEW r \in AggReplicas
        PROVE  /\ rf'[r] \in RfType /\ Timed(rf'[r]) /\ rf'[r].day = rf[r].day /\ rf'[r].run = rf[r].run
               /\ rf'[r].seen = rf[r].seen /\ (Owes(rf[r], dbv) => Owes(rf'[r], dbv))
    <3>1. rf[r] \in RfType /\ Timed(rf[r]) /\ rf[r].timer \in Int /\ rf[r].dirty \in Int /\ rf'[r] = Next(rf[r])
      BY <2>1, RefresherIs
    <3>2. CASE rf[r].timer < 0
      <4>1. rf'[r] = rf[r] BY <3>1, <3>2
      <4> QED BY <3>1, <4>1
    <3>3. CASE rf[r].timer > 0
      <4> DEFINE i == rf[r].timer - 1
                 j == rf[r].dirty + 1
                 a == [rf[r] EXCEPT !.timer = i]
                 w == [a EXCEPT !.dirty = j]
      <4>1. i \in Int /\ j \in Int /\ i >= 0 BY <3>1, <3>3
      <4>2. rf'[r] = w BY <3>1, <3>3 DEF RfType
      <4> HIDE DEF i, j
      <4>3. a \in RfType /\ a.timer = i /\ a.up = rf[r].up /\ a.dirty = rf[r].dirty /\ a.run = rf[r].run
            /\ a.again = rf[r].again /\ a.seen = rf[r].seen /\ a.memo = rf[r].memo /\ a.day = rf[r].day /\ a.asked = rf[r].asked
        BY <3>1, <4>1, RfWith, ZenonT(40)
      <4> HIDE DEF a
      <4>4. w \in RfType /\ w.dirty = j /\ w.up = a.up /\ w.timer = a.timer /\ w.run = a.run
            /\ w.again = a.again /\ w.seen = a.seen /\ w.memo = a.memo /\ w.day = a.day /\ w.asked = a.asked
        BY <4>1, <4>3, RfWith, ZenonT(40)
      <4> HIDE DEF w
      <4>5. j >= 0 /\ j + i <= RefreshMaxWait /\ rf[r].up \in {"up", "drain"}
        BY <3>1, <3>3, AggAssumption DEF Timed, RfType, i, j
      <4>6. Timed(w) /\ Owes(w, dbv) BY <4>1, <4>3, <4>4, <4>5 DEF Timed, Owes
      <4> QED BY <4>2, <4>3, <4>4, <4>6
    <3>4. rf[r].timer < 0 \/ rf[r].timer > 0
      <4>1. rf[r].timer # 0 BY <2>1
      <4> QED BY <3>1, <4>1
    <3> QED BY <3>2, <3>3, <3>4
  <2> HIDE DEF Next
  <2>3. rf' \in [AggReplicas -> RfType] BY <2>1, <2>2
  <2>4. \A r \in AggReplicas : Timed(rf[r])' BY <2>2 DEF Timed
  <2>5. \A r \in AggReplicas : Owes(rf[r], dbv) => Owes(rf[r], dbv)' BY <2>1, <2>2 DEF Owes
  <2>6. \A r \in AggReplicas : rf'[r].day = rf[r].day /\ rf'[r].run = rf[r].run /\ rf'[r].seen = rf[r].seen BY <2>2
  <2> HIDE DEF Timed, Owes
  <2> QED BY <2>1, <2>3, <2>4, <2>5, <2>6 DEF AggInv
<1> QED BY <1>1, <1>2

\* The rebuild's invariant, while no snapshot takes SR_HISTORY_DAYS days.
LEMMA AggAlways == AggSpec /\ []Prompt => []AggInv
<1>1. AggInit => AggInv
  <2>1. ASSUME AggInit PROVE AggInv
    <3> DEFINE a == [FreshProcess EXCEPT !.up = "up"]
    <3>1. a \in RfType /\ a.up = "up" /\ a.run = "idle" /\ a.timer = -1 /\ a.dirty = -1 /\ a.day = 0
      <4> DEFINE f == FreshProcess
      <4>1. f \in RfType /\ f.run = "idle" /\ f.timer = -1 /\ f.dirty = -1 /\ f.day = 0
        BY DEF FreshProcess, RfType
      <4>2. a = [f EXCEPT !.up = "up"] OBVIOUS
      <4> HIDE DEF f, a
      <4> QED BY <4>1, <4>2, RfUp
    <3>2. rf = [r \in AggReplicas |-> a] BY <2>1 DEF AggInit
    <3> HIDE DEF a
    <3>3. rf \in [AggReplicas -> RfType]
          /\ \A r \in AggReplicas : Timed(rf[r]) /\ rf[r].day = 0 /\ rf[r].run = "idle"
      BY <3>1, <3>2 DEF Timed
    <3>4. srwrites \in [Days -> 0..1] /\ (\A d \in Days : srwrites[d] = 0) /\ srday = 0 /\ srday \in Days
      BY <2>1, AggAssumption DEF AggInit, Days
    <3>5. dbv = 0 /\ agg = 0 /\ excused = FALSE BY <2>1 DEF AggInit
    <3>6. srday \in Nat /\ \A r \in AggReplicas : rf[r].day <= srday BY <3>3, <3>4
    <3>7. \A r \in AggReplicas : rf[r].run # "build" BY <3>3
    <3>8. dbv \in Nat /\ agg \in 0..dbv /\ ~(agg < dbv)
      <4>1. dbv = 0 /\ agg = 0 BY <3>5
      <4> QED BY <4>1
    <3>9. excused \in BOOLEAN BY <3>5
    <3> QED BY <3>3, <3>4, <3>6, <3>7, <3>8, <3>9 DEF AggInv
  <2> QED BY <2>1
<1>2. ASSUME AggInv, Prompt, [AggNext]_aggVars PROVE AggInv'
  <2>1. CASE AggNext
    <3>1. ASSUME NEW r \in AggReplicas, RefreshSteps(r) PROVE AggInv'
      BY <1>2, <3>1, TimerFires, ScheduleKeeps, LockKeeps, SwapKeeps, GateKeeps, SnapshotKeeps, ProcessKeeps
         DEF RefreshSteps
    <3>2. ASSUME NEW r \in AggReplicas,
                 \/ IngestCommits(r) \/ TouchServerFails(r) \/ SetMapgenRated(r)
                 \/ RebuildFails(r) \/ SnapshotFails(r) \/ Shutdown(r)
          PROVE  AggInv'
      BY <1>2, <3>2, WriteAsks, FailKeeps, GateKeeps, ProcessKeeps
    <3> QED BY <1>2, <2>1, <3>1, <3>2, TickKeeps DEF AggNext
  <2>2. CASE UNCHANGED aggVars BY <1>2, <2>2 DEF aggVars, AggInv, Timed, Owes
  <2> QED BY <1>2, <2>1, <2>2
<1> QED BY <1>1, <1>2, PTL DEF AggSpec

\* A rebuild starts within REFRESH_MAX_WAIT_MS of the first write it is for, a write the
\* tables lack is owed by a replica or excused by the log, and a day's snapshot is taken
\* once, whatever replicas crash, drain and boot, as long as no snapshot takes
\* SR_HISTORY_DAYS days (web/server.js doRefresh, web/db.js refreshAggregates).
THEOREM TablesAreSound == AggSpec /\ []Prompt => []AggSound
<1>1. ASSUME AggInv PROVE AggSound
  <2>1. ASSUME NEW r \in AggReplicas, rf[r].up = "up" PROVE rf[r].dirty <= RefreshMaxWait
    <3>1. rf[r].timer \in Int /\ rf[r].dirty \in Int /\ RefreshMaxWait \in Nat /\ Timed(rf[r])
      BY <1>1, RefresherIs, AggAssumption
    <3> QED BY <2>1, <3>1 DEF Timed
  <2>2. RefreshOwed BY <1>1 DEF AggInv, Owes, RefreshOwed
  <2>3. SnapshotOnce BY <1>1 DEF AggInv, SnapshotOnce
  <2> QED BY <2>1, <2>2, <2>3 DEF AggSound, BoundedWait
<1> QED BY <1>1, AggAlways, PTL

\* The published tables never go back to an older read of the race table.
THEOREM TablesGoForward == AggSpec /\ []Prompt => AggForward
<1>1. ASSUME AggInv, [AggNext]_aggVars PROVE [agg' >= agg]_aggVars
  <2>1. agg \in Nat /\ dbv \in Nat BY <1>1 DEF AggInv
  <2>2. ASSUME NEW r \in AggReplicas, SwapCommits(r) PROVE agg' >= agg
    <3>1. rf[r].run = "build" /\ agg' = rf[r].seen BY <2>2 DEF SwapCommits
    <3>2. rf[r].seen \in agg..dbv BY <1>1, <3>1 DEF AggInv
    <3> QED BY <2>1, <3>1, <3>2
  <2>3. CASE AggNext
    <3>1. agg' = agg \/ \E r \in AggReplicas : SwapCommits(r)
      BY <2>3 DEF AggNext, RefreshSteps, IngestCommits, TouchServerFails, SetMapgenRated, RefreshTimer, IngestSchedules,
                  LockAndRead, SnapshotGate, SnapshotCommits, Exit, Boot, RebuildFails, SnapshotFails, Shutdown,
                  AggTick, SrMidnight
    <3> QED BY <2>1, <2>2, <3>1
  <2>4. CASE UNCHANGED aggVars BY <2>4 DEF aggVars
  <2> QED BY <1>1, <2>3, <2>4
<1> QED BY <1>1, AggAlways, PTL DEF AggSpec, AggForward

-----------------------------------------------------------------------------
(* Mapgen: the jobs.                                                       *)

\* A job with one of its fields changed.
LEMMA JobStatusWith ==
  ASSUME NEW x \in JobType, NEW v \in JobStatus
  PROVE  LET y == [x EXCEPT !.status = v]
         IN /\ y \in JobType /\ y.status = v /\ y.source = x.source /\ y.day = x.day /\ y.id = x.id
            /\ y.name = x.name /\ y.reviewed = x.reviewed /\ y.back = x.back
BY DEF JobType

\* ... its name.
LEMMA JobNameWith ==
  ASSUME NEW x \in JobType, NEW v \in 0..2
  PROVE  LET y == [x EXCEPT !.name = v]
         IN /\ y \in JobType /\ y.status = x.status /\ y.source = x.source /\ y.day = x.day /\ y.id = x.id
            /\ y.name = v /\ y.reviewed = x.reviewed /\ y.back = x.back
BY DEF JobType

\* ... its requester.
LEMMA JobIdWith ==
  ASSUME NEW x \in JobType, NEW v \in Identities \cup {None}
  PROVE  LET y == [x EXCEPT !.id = v]
         IN /\ y \in JobType /\ y.status = x.status /\ y.source = x.source /\ y.day = x.day /\ y.id = v
            /\ y.name = x.name /\ y.reviewed = x.reviewed /\ y.back = x.back
BY DEF JobType

\* A row that is not there.
LEMMA NoJobIs ==
  /\ NoJob \in JobType /\ NoJob.status = None /\ NoJob.name = 0 /\ NoJob.day = -1
  /\ ~NoJob.reviewed /\ ~NoJob.back
<1>1. /\ None \in JobStatus /\ None \in {None, "describe", "editor"} /\ -1 \in MgDays \cup {-1}
      /\ None \in Identities \cup {None} /\ 0 \in 0..2 /\ FALSE \in BOOLEAN
  BY DEF JobStatus
<1>2. \A e \in JobStatus, o \in {None, "describe", "editor"}, d \in MgDays \cup {-1}, i \in Identities \cup {None},
         n \in 0..2, r \in BOOLEAN, g \in BOOLEAN :
        LET y == [status |-> e, source |-> o, day |-> d, id |-> i, name |-> n, reviewed |-> r, back |-> g]
        IN y \in JobType
  BY DEF JobType
<1> QED BY <1>1, <1>2 DEF NoJob

\* The jobs of a day that a person was charged for, and those the site was.
Charged(d, i) == {j \in JobIds : jobs[j].day = d /\ jobs[j].id = i /\ ~jobs[j].back}
Spent(d) == {j \in JobIds : jobs[j].day = d /\ jobs[j].status # "rejected"}

\* There are finitely many jobs, each with a positive id.
LEMMA JobsFinite ==
  /\ JobIds \subseteq Nat /\ 0 \notin JobIds
  /\ \A S \in SUBSET JobIds : IsFiniteSet(S) /\ Cardinality(S) \in Nat
<1>1. IsFiniteSet(JobIds) BY FS_Interval, MapgenAssumption DEF JobIds
<1>2. \A S \in SUBSET JobIds : IsFiniteSet(S) BY <1>1, FS_Subset
<1>3. \A S \in SUBSET JobIds : Cardinality(S) \in Nat BY <1>2, FS_CardinalityType
<1> QED BY <1>2, <1>3 DEF JobIds

\* The counts, with the sets named.
LEMMA QuotaIs ==
  QuotaExact <=> \A d \in MgDays :
    /\ \A i \in Identities : quota[d][i] <= PerIdentity /\ quota[d][i] = Cardinality(Charged(d, i))
    /\ budget[d] <= MgBudget /\ budget[d] = Cardinality(Spent(d))
BY DEF QuotaExact, Charged, Spent

\* Steps that charge nobody and give nothing back leave the counts exact.
LEMMA SameCount ==
  ASSUME QuotaExact, UNCHANGED <<quota, budget>>,
         \A j \in JobIds, d \in MgDays : (jobs'[j].day = d) = (jobs[j].day = d),
         \A j \in JobIds : jobs[j].day \in MgDays =>
            /\ jobs'[j].id = jobs[j].id /\ jobs'[j].back = jobs[j].back
            /\ (jobs'[j].status = "rejected") = (jobs[j].status = "rejected")
  PROVE  QuotaExact'
<1>1. \A d \in MgDays : Spent(d)' = Spent(d) /\ \A i \in Identities : Charged(d, i)' = Charged(d, i)
  <2>1. ASSUME NEW d \in MgDays PROVE Spent(d)' = Spent(d)
    <3>1. \A j \in JobIds : /\ jobs'[j].day = d /\ jobs'[j].status # "rejected"
                           <=> jobs[j].day = d /\ jobs[j].status # "rejected"
      OBVIOUS
    <3> QED BY <3>1 DEF Spent
  <2>2. ASSUME NEW d \in MgDays, NEW i \in Identities PROVE Charged(d, i)' = Charged(d, i)
    <3>1. \A j \in JobIds : /\ jobs'[j].day = d /\ jobs'[j].id = i /\ ~jobs'[j].back
                           <=> jobs[j].day = d /\ jobs[j].id = i /\ ~jobs[j].back
      OBVIOUS
    <3> QED BY <3>1 DEF Charged
  <2> QED BY <2>1, <2>2
<1>2. \A d \in MgDays :
        /\ \A i \in Identities : quota'[d][i] <= PerIdentity /\ quota'[d][i] = Cardinality(Charged(d, i)')
        /\ budget'[d] <= MgBudget /\ budget'[d] = Cardinality(Spent(d)')
  BY <1>1, QuotaIs
<1> QED BY <1>2 DEF QuotaExact, Spent, Charged

\* A job that is given back is uncharged once: the count of its day and requester drops
\* by one, and no other.
LEMMA GiveBack ==
  ASSUME MgInv, NEW j \in JobIds, ~jobs[j].back, NEW x \in JobType,
         x.day = jobs[j].day, x.id = jobs[j].id, jobs' = [jobs EXCEPT ![j] = x],
         x.back \/ jobs[j].day = -1 => quota' = Refund(jobs[j].day, jobs[j].id),
         ~x.back /\ jobs[j].day # -1 => quota' = quota
  PROVE  /\ quota' \in [MgDays -> [Identities -> Nat]]
         /\ \A d \in MgDays, i \in Identities : quota'[d][i] <= PerIdentity /\ quota'[d][i] = Cardinality(Charged(d, i)')
<1>1. /\ jobs \in [JobIds -> JobType] /\ quota \in [MgDays -> [Identities -> Nat]]
      /\ \A d \in MgDays, i \in Identities : quota[d][i] <= PerIdentity /\ quota[d][i] = Cardinality(Charged(d, i))
  BY QuotaIs DEF MgInv
<1>2. jobs'[j] = x /\ \A k \in JobIds \ {j} : jobs'[k] = jobs[k] BY <1>1
<1>3. \A d \in MgDays, i \in Identities : ~(d = jobs[j].day /\ i = jobs[j].id /\ x.back) => Charged(d, i)' = Charged(d, i)
  BY <1>2 DEF Charged
<1>4. -1 \notin MgDays BY DEF MgDays
<1>5. CASE ~(jobs[j].day \in MgDays /\ jobs[j].id \in Identities /\ x.back)
  <2>1. quota' = quota
    <3>1. CASE x.back \/ jobs[j].day = -1 BY <1>4, <1>5, <3>1 DEF Refund
    <3>2. CASE ~x.back /\ jobs[j].day # -1 BY <3>2
    <3> QED BY <3>1, <3>2
  <2>2. \A d \in MgDays, i \in Identities : Charged(d, i)' = Charged(d, i) BY <1>3, <1>5
  <2> QED BY <1>1, <2>1, <2>2
<1>6. CASE jobs[j].day \in MgDays /\ jobs[j].id \in Identities /\ x.back
  <2>0. PICK d0 \in MgDays, i0 \in Identities : d0 = jobs[j].day /\ i0 = jobs[j].id BY <1>6
  <2> DEFINE S == Charged(d0, i0)
  <2>1. j \in S BY <2>0 DEF Charged
  <2>2. Charged(d0, i0)' = S \ {j} BY <1>2, <1>6, <2>0 DEF Charged
  <2>3. IsFiniteSet(S) /\ Cardinality(S) \in Nat /\ Cardinality(S \ {j}) \in Nat
    <3>1. S \in SUBSET JobIds /\ S \ {j} \in SUBSET JobIds BY DEF Charged
    <3> QED BY <3>1, JobsFinite
  <2>4. Cardinality(S \ {j}) = Cardinality(S) - 1 BY <2>1, <2>3, FS_RemoveElement
  <2>5. quota[d0][i0] = Cardinality(S) BY <1>1, <1>6
  <2> HIDE DEF S
  <2>6. quota[d0][i0] > 0 /\ quota[d0][i0] - 1 = Cardinality(Charged(d0, i0)') BY <2>2, <2>3, <2>4, <2>5
  <2>7. quota' = [quota EXCEPT ![d0][i0] = @ - 1] BY <1>6, <2>0, <2>6 DEF Refund
  <2>8. quota[d0] \in [Identities -> Nat] /\ quota[d0][i0] \in Nat /\ quota[d0][i0] - 1 \in Nat /\ PerIdentity \in Nat
    BY <1>1, <1>6, <2>6, MapgenAssumption
  <2>9. /\ quota' \in [MgDays -> [Identities -> Nat]] /\ quota'[d0][i0] = quota[d0][i0] - 1
        /\ \A d \in MgDays, i \in Identities : d # d0 \/ i # i0 => quota'[d][i] = quota[d][i]
    BY <1>1, <1>6, <2>7, <2>8
  <2>10. quota[d0][i0] <= PerIdentity BY <1>1, <1>6
  <2>11. ASSUME NEW d \in MgDays, NEW i \in Identities
         PROVE  quota'[d][i] <= PerIdentity /\ quota'[d][i] = Cardinality(Charged(d, i)')
    <3>1. CASE d = d0 /\ i = i0
      <4>1. Charged(d, i)' = Charged(d0, i0)' BY <3>1 DEF Charged
      <4> QED BY <2>6, <2>8, <2>9, <2>10, <3>1, <4>1
    <3>2. CASE ~(d = d0 /\ i = i0) BY <1>1, <1>3, <2>0, <2>9, <3>2
    <3> QED BY <3>1, <3>2
  <2> QED BY <2>9, <2>11
<1> QED BY <1>5, <1>6

\* A step that leaves the workers, the store and the jobs they hold alone.
LEMMA JobsMove ==
  ASSUME MgInv, UNCHANGED <<mgw, store>>, mgday' \in MgDays,
         jobs' \in [JobIds -> JobType], \A j \in JobIds : JobOk(jobs'[j]),
         quota' \in [MgDays -> [Identities -> Nat]], budget' \in [MgDays -> Nat], QuotaExact',
         \A j \in JobIds : jobs[j].status \in {"planning", "building"} =>
                             jobs'[j].status = jobs[j].status /\ jobs'[j].name = jobs[j].name,
         \A j \in JobIds : jobs[j].status \notin {None, "review"} => jobs'[j].status \notin {None, "review"},
         \A j \in JobIds : jobs'[j].status \in {"publishing", "published"} =>
                             jobs[j].status \in {"publishing", "published"} /\ jobs'[j].name = jobs[j].name
  PROVE  MgInv'
<1>1. mgw \in [MgWorkers -> WorkerType] /\ store \subseteq JobIds \X (0..2) /\ PackStored /\ OneWorker
      /\ (\A w \in MgWorkers : Holds(mgw[w])) /\ \A p \in store : p[1] \in JobIds /\ jobs[p[1]].status \notin {None, "review"}
  BY DEF MgInv
<1>2. ASSUME NEW w \in MgWorkers PROVE Holds(mgw[w])'
  <2>1. Holds(mgw[w]) BY <1>1
  <2> QED BY <2>1 DEF Holds
<1>3. \A p \in store : jobs'[p[1]].status \notin {None, "review"} BY <1>1
<1>4. PackStored' BY <1>1 DEF PackStored, Pack
<1>5. OneWorker' BY <1>1 DEF OneWorker
<1>6. \A j \in JobIds : JobOk(jobs[j])' BY DEF JobOk
<1> HIDE DEF Holds, JobOk
<1> QED BY <1>1, <1>2, <1>3, <1>4, <1>5, <1>6 DEF MgInv

\* A step of the worker that holds a job.
LEMMA WorkerMoves ==
  ASSUME MgInv, NEW w \in MgWorkers, NEW j \in JobIds, mgw[w].job = j, mgw[w].pc # "idle",
         NEW x \in JobType, JobOk(x), jobs' = [jobs EXCEPT ![j] = x], x.status \notin {None, "review"},
         NEW v \in WorkerType, mgw' = [mgw EXCEPT ![w] = v], mgday' = mgday,
         quota' \in [MgDays -> [Identities -> Nat]], budget' \in [MgDays -> Nat], QuotaExact',
         store \subseteq store', store' \subseteq JobIds \X (0..2), \A p \in store' : p \in store \/ p[1] = j,
         x.status \in {"publishing", "published"} => <<j, x.name>> \in store',
         v.pc = "idle" => v.job = 0,
         v.pc # "idle" => v.job = j,
         v.pc # "idle" => x.status = IF v.pc = "plan" THEN "planning" ELSE "building",
         v.pc \notin {"idle", "plan"} => v.name = x.name,
         v.pc = "done" => <<j, v.name>> \in store'
  PROVE  MgInv'
<1>1. /\ mgday \in MgDays /\ jobs \in [JobIds -> JobType] /\ mgw \in [MgWorkers -> WorkerType]
      /\ \A k \in JobIds : JobOk(jobs[k])
      /\ store \subseteq JobIds \X (0..2) /\ PackStored /\ OneWorker /\ \A o \in MgWorkers : Holds(mgw[o])
      /\ \A p \in store : p[1] \in JobIds /\ jobs[p[1]].status \notin {None, "review"}
  BY DEF MgInv
<1>2. jobs' \in [JobIds -> JobType] /\ jobs'[j] = x /\ \A k \in JobIds \ {j} : jobs'[k] = jobs[k] BY <1>1
<1>3. mgw' \in [MgWorkers -> WorkerType] /\ mgw'[w] = v /\ \A o \in MgWorkers \ {w} : mgw'[o] = mgw[o] BY <1>1
<1>4. j # 0 BY JobsFinite
<1>5. \A o \in MgWorkers \ {w} : mgw[o].job # j BY <1>1, <1>4 DEF OneWorker
<1>6. ASSUME NEW o \in MgWorkers PROVE Holds(mgw[o])'
  <2>1. CASE o = w BY <1>2, <1>3, <2>1 DEF Holds, WorkerType
  <2>2. CASE o # w
    <3>1. mgw'[o] = mgw[o] /\ Holds(mgw[o]) /\ mgw[o].job # j BY <1>1, <1>3, <1>5, <2>2
    <3> QED BY <1>2, <3>1, ZenonT(60) DEF Holds
  <2> QED BY <2>1, <2>2
<1>7. ASSUME NEW p \in store' PROVE jobs'[p[1]].status \notin {None, "review"}
  <2>1. CASE p[1] = j BY <1>2, <2>1
  <2>2. CASE p[1] # j BY <1>1, <1>2, <2>2
  <2> QED BY <2>1, <2>2
<1>8. ASSUME NEW k \in JobIds, jobs'[k].status \in {"publishing", "published"} PROVE <<k, jobs'[k].name>> \in store'
  <2>1. CASE k = j BY <1>2, <1>8, <2>1
  <2>2. CASE k # j BY <1>1, <1>2, <1>8, <2>2 DEF PackStored, Pack
  <2> QED BY <2>1, <2>2
<1>9. OneWorker'
  <2>1. ASSUME NEW a \in MgWorkers, NEW b \in MgWorkers, a # b, mgw'[a].job = mgw'[b].job PROVE mgw'[a].job = 0
    <3>1. v.job \in {0, j} BY DEF WorkerType
    <3> QED BY <1>1, <1>3, <1>5, <2>1, <3>1 DEF OneWorker
  <2> QED BY <2>1 DEF OneWorker
<1>10. \A k \in JobIds : JobOk(jobs[k])' BY <1>1, <1>2 DEF JobOk
<1>11. PackStored' BY <1>8 DEF PackStored, Pack
<1> HIDE DEF Holds, JobOk
<1> QED BY <1>1, <1>2, <1>3, <1>6, <1>7, <1>9, <1>10, <1>11 DEF MgInv

\* The worker's job and what the invariant says of it.
LEMMA HeldIs ==
  ASSUME MgInv, NEW w \in MgWorkers, mgw[w].pc # "idle"
  PROVE  /\ mgw[w] \in WorkerType /\ mgw[w].job \in JobIds /\ jobs[mgw[w].job] \in JobType /\ JobOk(jobs[mgw[w].job])
         /\ jobs[mgw[w].job].status = IF mgw[w].pc = "plan" THEN "planning" ELSE "building"
         /\ mgw[w].pc # "plan" => mgw[w].name = jobs[mgw[w].job].name
         /\ mgw[w].pc = "done" => <<mgw[w].job, mgw[w].name>> \in store
         /\ ~jobs[mgw[w].job].back
         /\ mgw[w].name \in 0..2 /\ jobs \in [JobIds -> JobType] /\ store \subseteq JobIds \X (0..2)
         /\ quota \in [MgDays -> [Identities -> Nat]] /\ budget \in [MgDays -> Nat] /\ QuotaExact
<1>1. /\ mgw[w] \in WorkerType /\ mgw[w].job \in JobIds /\ jobs[mgw[w].job] \in JobType /\ JobOk(jobs[mgw[w].job])
      /\ jobs[mgw[w].job].status = IF mgw[w].pc = "plan" THEN "planning" ELSE "building"
      /\ mgw[w].pc # "plan" => mgw[w].name = jobs[mgw[w].job].name
      /\ mgw[w].pc = "done" => <<mgw[w].job, mgw[w].name>> \in store
  BY DEF MgInv, Holds
<1>2. ~jobs[mgw[w].job].back BY <1>1 DEF JobOk
<1>3. mgw[w].name \in 0..2 BY <1>1 DEF WorkerType
<1> QED BY <1>1, <1>2, <1>3 DEF MgInv

\* A worker under another name.
LEMMA WorkerWith ==
  ASSUME NEW v \in WorkerType
  PROVE  /\ \A n \in 0..2 : LET y == [v EXCEPT !.name = n]
              IN y \in WorkerType /\ y.pc = v.pc /\ y.job = v.job /\ y.name = n
         /\ \A c \in {"idle", "plan", "build", "publish", "done"} :
              LET y == [v EXCEPT !.pc = c]
              IN y \in WorkerType /\ y.pc = c /\ y.job = v.job /\ y.name = v.name
BY DEF WorkerType

\* A plan names the job and its pack.
LEMMA PlannedKeeps ==
  ASSUME MgInv, NEW w \in MgWorkers, Planned(w) PROVE MgInv'
<1> DEFINE j == mgw[w].job
<1>0. PICK n \in {1, 2} : jobs' = [jobs EXCEPT ![j].status = "building", ![j].name = n]
                          /\ mgw' = [mgw EXCEPT ![w].pc = "build", ![w].name = n]
  BY DEF Planned
<1>1. n \in 0..2 OBVIOUS
<1>2. mgw[w].pc = "plan" /\ UNCHANGED <<mgday, quota, budget, store>> BY DEF Planned
<1> DEFINE a == [jobs[j] EXCEPT !.status = "building"]
           x == [a EXCEPT !.name = n]
           b == [mgw[w] EXCEPT !.pc = "build"]
           v == [b EXCEPT !.name = n]
<1>3. /\ mgw[w] \in WorkerType /\ j \in JobIds /\ jobs[j] \in JobType /\ JobOk(jobs[j]) /\ jobs[j].status = "planning"
      /\ jobs \in [JobIds -> JobType] /\ store \subseteq JobIds \X (0..2) /\ QuotaExact
      /\ quota \in [MgDays -> [Identities -> Nat]] /\ budget \in [MgDays -> Nat]
  BY <1>2, HeldIs
<1>4. "building" \in JobStatus BY DEF JobStatus
<1>5. a \in JobType /\ a.status = "building" /\ a.source = jobs[j].source /\ a.day = jobs[j].day /\ a.id = jobs[j].id
      /\ a.name = jobs[j].name /\ a.reviewed = jobs[j].reviewed /\ a.back = jobs[j].back
  BY <1>3, <1>4, JobStatusWith, ZenonT(40)
<1>6. jobs' = [jobs EXCEPT ![j] = x] BY <1>0, <1>3 DEF JobType
<1>7. mgw' = [mgw EXCEPT ![w] = v] BY <1>0, <1>3 DEF MgInv, WorkerType
<1>8. v \in WorkerType /\ v.pc = "build" /\ v.job = j /\ v.name = n
  <2>1. b \in WorkerType /\ b.pc = "build" /\ b.job = j /\ b.name = mgw[w].name BY <1>3 DEF WorkerType
  <2> HIDE DEF b, j
  <2> QED BY <1>1, <2>1, WorkerWith, ZenonT(40)
<1> HIDE DEF a, b, v
<1>9. x \in JobType /\ x.status = a.status /\ x.source = a.source /\ x.day = a.day /\ x.id = a.id
      /\ x.name = n /\ x.reviewed = a.reviewed /\ x.back = a.back
  BY <1>1, <1>5, JobNameWith, Zenon
<1> HIDE DEF x
<1>10. JobOk(x) BY <1>3, <1>5, <1>9, MapgenAssumption DEF JobOk, None
<1>11. QuotaExact'
  <2>1. jobs'[j] = x /\ \A k \in JobIds \ {j} : jobs'[k] = jobs[k] BY <1>3, <1>6
  <2>2. \A k \in JobIds : jobs'[k].day = jobs[k].day /\ jobs'[k].id = jobs[k].id /\ jobs'[k].back = jobs[k].back
          /\ (jobs'[k].status = "rejected") = (jobs[k].status = "rejected")
    BY <1>3, <1>5, <1>9, <2>1
  <2> QED BY <1>2, <1>3, <2>2, SameCount
<1> HIDE DEF j
<1>12. x.status = "building" /\ x.name = n BY <1>5, <1>9
<1>13. x.status \notin {None, "review"} /\ x.status \notin {"publishing", "published"} BY <1>12 DEF None
<1>14. mgw[w].job = j /\ mgw[w].pc # "idle" BY <1>2 DEF j
<1>15. quota' \in [MgDays -> [Identities -> Nat]] /\ budget' \in [MgDays -> Nat] /\ store' \subseteq JobIds \X (0..2)
       /\ store' = store /\ mgday' = mgday
  BY <1>2, <1>3
<1> QED BY <1>3, <1>6, <1>7, <1>8, <1>9, <1>10, <1>11, <1>12, <1>13, <1>14, <1>15, WorkerMoves

\* A step of a worker that leaves its row alone: a build, a rename into the store.
LEMMA RowKept ==
  ASSUME MgInv, NEW w \in MgWorkers, mgw[w].pc # "idle", mgw[w].pc # "plan",
         UNCHANGED <<mgday, jobs, quota, budget>>,
         NEW v \in WorkerType, mgw' = [mgw EXCEPT ![w] = v], v.job = mgw[w].job, v.name = mgw[w].name,
         v.pc \notin {"idle", "plan"}, store \subseteq store', store' \subseteq JobIds \X (0..2),
         \A p \in store' : p \in store \/ p[1] = v.job, v.pc = "done" => <<v.job, v.name>> \in store'
  PROVE  MgInv'
<1>1. /\ mgw[w] \in WorkerType /\ mgw[w].job \in JobIds /\ jobs[mgw[w].job] \in JobType /\ JobOk(jobs[mgw[w].job])
      /\ jobs[mgw[w].job].status = "building" /\ mgw[w].name = jobs[mgw[w].job].name /\ mgw[w].name \in 0..2
      /\ jobs \in [JobIds -> JobType] /\ store \subseteq JobIds \X (0..2) /\ QuotaExact
      /\ quota \in [MgDays -> [Identities -> Nat]] /\ budget \in [MgDays -> Nat]
  BY HeldIs
<1>2. PICK j \in JobIds : j = mgw[w].job BY <1>1
<1>3. PICK x \in JobType : x = jobs[j] BY <1>1, <1>2
<1>4. /\ JobOk(x) /\ jobs' = [jobs EXCEPT ![j] = x] /\ x.status \notin {None, "review"}
      /\ x.status = "building" /\ x.status \notin {"publishing", "published"} /\ v.name = x.name
  BY <1>1, <1>2, <1>3 DEF None
<1>5. QuotaExact' BY <1>1, SameCount
<1>6. v.pc # "idle" /\ v.pc # "plan" /\ v.job = j /\ v.name = x.name BY <1>2, <1>4
<1>7. x.status = IF v.pc = "plan" THEN "planning" ELSE "building" BY <1>4, <1>6
<1>8. (\A p \in store' : p \in store \/ p[1] = j) /\ (v.pc = "done" => <<j, v.name>> \in store') BY <1>6
<1>9. /\ quota' \in [MgDays -> [Identities -> Nat]] /\ budget' \in [MgDays -> Nat] /\ mgday' = mgday
      /\ mgw[w].job = j
  BY <1>1, <1>2
<1> QED BY <1>4, <1>5, <1>6, <1>7, <1>8, <1>9, WorkerMoves

\* The pack is built.
LEMMA BuiltKeeps == ASSUME MgInv, NEW w \in MgWorkers, Built(w) PROVE MgInv'
<1> DEFINE v == [mgw[w] EXCEPT !.pc = "publish"]
<1>1. mgw[w].pc = "build" /\ store' = store /\ UNCHANGED <<mgday, jobs, quota, budget>> BY DEF Built
<1>2. mgw[w] \in WorkerType /\ store \subseteq JobIds \X (0..2) BY <1>1, HeldIs
<1>3. mgw' = [mgw EXCEPT ![w] = v] BY <1>2 DEF Built, MgInv, WorkerType
<1>4. v \in WorkerType /\ v.pc = "publish" /\ v.job = mgw[w].job /\ v.name = mgw[w].name BY <1>2, WorkerWith, Zenon
<1> HIDE DEF v
<1>5. v.pc \notin {"idle", "plan"} /\ v.pc # "done" BY <1>4
<1>6. store \subseteq store' /\ store' \subseteq JobIds \X (0..2) /\ \A p \in store' : p \in store \/ p[1] = v.job
  BY <1>1, <1>2
<1> QED BY <1>1, <1>3, <1>4, <1>5, <1>6, RowKept

\* The pack is in the store.
LEMMA PublishedKeeps == ASSUME MgInv, NEW w \in MgWorkers, Published(w) PROVE MgInv'
<1> DEFINE v == [mgw[w] EXCEPT !.pc = "done"]
<1>1. /\ mgw[w].pc = "publish" /\ store' = store \cup {<<mgw[w].job, mgw[w].name>>}
      /\ UNCHANGED <<mgday, jobs, quota, budget>>
  BY DEF Published
<1>2. mgw[w] \in WorkerType /\ store \subseteq JobIds \X (0..2) /\ mgw[w].job \in JobIds /\ mgw[w].name \in 0..2
  BY <1>1, HeldIs
<1>3. mgw' = [mgw EXCEPT ![w] = v] BY <1>2 DEF Published, MgInv, WorkerType
<1>4. v \in WorkerType /\ v.pc = "done" /\ v.job = mgw[w].job /\ v.name = mgw[w].name BY <1>2, WorkerWith, Zenon
<1> HIDE DEF v
<1>5. v.pc \notin {"idle", "plan"} BY <1>4
<1>6. /\ store \subseteq store' /\ store' \subseteq JobIds \X (0..2) /\ <<v.job, v.name>> \in store'
      /\ \A p \in store' : p \in store \/ p[1] = v.job
  BY <1>1, <1>2, <1>4
<1> QED BY <1>1, <1>3, <1>4, <1>5, <1>6, RowKept

\* The row says publishing, and the worker is free.
LEMMA CommittedKeeps == ASSUME MgInv, NEW w \in MgWorkers, Committed(w) PROVE MgInv'
<1>0. mgw[w].pc = "done" /\ UNCHANGED <<mgday, quota, budget, store>> /\ mgw' = [mgw EXCEPT ![w] = MgIdle]
      /\ jobs' = [jobs EXCEPT ![mgw[w].job].status = "publishing"]
  BY DEF Committed
<1>1. /\ mgw[w].job \in JobIds /\ jobs[mgw[w].job] \in JobType /\ JobOk(jobs[mgw[w].job])
      /\ jobs[mgw[w].job].status = "building" /\ mgw[w].name = jobs[mgw[w].job].name
      /\ <<mgw[w].job, mgw[w].name>> \in store
      /\ jobs \in [JobIds -> JobType] /\ store \subseteq JobIds \X (0..2) /\ QuotaExact
      /\ quota \in [MgDays -> [Identities -> Nat]] /\ budget \in [MgDays -> Nat]
  BY <1>0, HeldIs
<1>2. PICK j \in JobIds : j = mgw[w].job BY <1>1
<1> DEFINE x == [jobs[j] EXCEPT !.status = "publishing"]
<1>3. jobs' = [jobs EXCEPT ![j] = x] BY <1>0, <1>1, <1>2
<1>4. "publishing" \in JobStatus BY DEF JobStatus
<1>5. x \in JobType /\ x.status = "publishing" /\ x.source = jobs[j].source /\ x.day = jobs[j].day /\ x.id = jobs[j].id
      /\ x.name = jobs[j].name /\ x.reviewed = jobs[j].reviewed /\ x.back = jobs[j].back
  <2>1. jobs[j] \in JobType BY <1>1, <1>2
  <2> QED BY <1>4, <2>1, JobStatusWith, Zenon
<1> HIDE DEF x
<1>6. JobOk(x) BY <1>1, <1>2, <1>5 DEF JobOk, None
<1>7. QuotaExact'
  <2>1. jobs'[j] = x /\ \A k \in JobIds \ {j} : jobs'[k] = jobs[k] BY <1>1, <1>3
  <2>2. \A k \in JobIds : jobs'[k].day = jobs[k].day /\ jobs'[k].id = jobs[k].id /\ jobs'[k].back = jobs[k].back
          /\ (jobs'[k].status = "rejected") = (jobs[k].status = "rejected")
    BY <1>1, <1>2, <1>5, <2>1
  <2> QED BY <1>0, <1>1, <2>2, SameCount
<1>8. x.status \notin {None, "review"} BY <1>5 DEF None
<1>9. MgIdle \in WorkerType /\ MgIdle.pc = "idle" /\ MgIdle.job = 0 BY DEF MgIdle, WorkerType
<1>10. <<j, x.name>> \in store' BY <1>0, <1>1, <1>2, <1>5
<1>11. /\ quota' \in [MgDays -> [Identities -> Nat]] /\ budget' \in [MgDays -> Nat] /\ store' \subseteq JobIds \X (0..2)
       /\ store' = store /\ mgday' = mgday /\ mgw[w].job = j /\ mgw[w].pc # "idle"
  BY <1>0, <1>1, <1>2
<1> HIDE DEF MgIdle
<1> QED BY <1>0, <1>3, <1>5, <1>6, <1>7, <1>8, <1>9, <1>10, <1>11, WorkerMoves

\* A worker that dies keeps its row as it is.
LEMMA DiesKeeps == ASSUME MgInv, NEW w \in MgWorkers, WorkerDies(w) PROVE MgInv'
<1>0. mgw[w].pc # "idle" /\ UNCHANGED <<mgday, jobs, quota, budget, store>> /\ mgw' = [mgw EXCEPT ![w] = MgIdle]
  BY DEF WorkerDies
<1>1. /\ mgw[w].job \in JobIds /\ jobs[mgw[w].job] \in JobType /\ JobOk(jobs[mgw[w].job])
      /\ jobs[mgw[w].job].status \in {"planning", "building"}
      /\ jobs \in [JobIds -> JobType] /\ store \subseteq JobIds \X (0..2) /\ QuotaExact
      /\ quota \in [MgDays -> [Identities -> Nat]] /\ budget \in [MgDays -> Nat]
  BY <1>0, HeldIs
<1>2. PICK j \in JobIds : j = mgw[w].job BY <1>1
<1>3. jobs' = [jobs EXCEPT ![j] = jobs[j]] BY <1>0, <1>1
<1>4. QuotaExact' BY <1>0, <1>1, SameCount
<1>5. jobs[j].status \notin {None, "review"} /\ jobs[j].status \notin {"publishing", "published"} BY <1>1, <1>2 DEF None
<1>6. MgIdle \in WorkerType /\ MgIdle.pc = "idle" /\ MgIdle.job = 0 BY DEF MgIdle, WorkerType
<1>7. /\ quota' \in [MgDays -> [Identities -> Nat]] /\ budget' \in [MgDays -> Nat] /\ store' \subseteq JobIds \X (0..2)
      /\ store' = store /\ mgday' = mgday /\ mgw[w].job = j /\ jobs[j] \in JobType /\ JobOk(jobs[j])
  BY <1>0, <1>1, <1>2
<1> HIDE DEF MgIdle
<1> QED BY <1>0, <1>3, <1>4, <1>5, <1>6, <1>7, WorkerMoves

\* A failed job: its requester gets the map back unless the description was refused, the
\* site's budget does not.
LEMMA FailsKeeps ==
  ASSUME MgInv, NEW w \in MgWorkers, mgw[w].pc # "idle", NEW g \in BOOLEAN, Fails(w, g) PROVE MgInv'
<1>1. /\ mgw[w].job \in JobIds /\ jobs[mgw[w].job] \in JobType /\ JobOk(jobs[mgw[w].job])
      /\ jobs[mgw[w].job].status \in {"planning", "building"} /\ ~jobs[mgw[w].job].back
      /\ jobs \in [JobIds -> JobType] /\ store \subseteq JobIds \X (0..2) /\ QuotaExact
      /\ quota \in [MgDays -> [Identities -> Nat]] /\ budget \in [MgDays -> Nat]
  BY HeldIs
<1>2. PICK j \in JobIds : j = mgw[w].job BY <1>1
<1>3. PICK q \in BOOLEAN : q = (g /\ jobs[j].day >= 0) OBVIOUS
<1> DEFINE x == [jobs[j] EXCEPT !.status = "failed", !.reviewed = jobs[j].reviewed, !.back = q]
<1>4. /\ jobs' = [jobs EXCEPT ![j] = x] /\ mgw' = [mgw EXCEPT ![w] = MgIdle] /\ UNCHANGED <<mgday, budget, store>>
      /\ quota' = IF g THEN Refund(jobs[j].day, jobs[j].id) ELSE quota
  BY <1>1, <1>2, <1>3 DEF Fails, JobType
<1>7. x \in JobType /\ x.status = "failed" /\ x.source = jobs[j].source /\ x.day = jobs[j].day /\ x.id = jobs[j].id
      /\ x.name = jobs[j].name /\ x.reviewed = jobs[j].reviewed /\ x.back = q
  <2>1. jobs[j] \in JobType BY <1>1, <1>2
  <2>2. jobs[j].reviewed \in BOOLEAN BY <2>1 DEF JobType
  <2> QED BY <1>3, <2>1, <2>2 DEF JobType, JobStatus
<1> HIDE DEF x
<1>8. x.status = "failed" /\ x.source = jobs[j].source /\ x.day = jobs[j].day /\ x.id = jobs[j].id
      /\ x.reviewed = jobs[j].reviewed
  BY <1>7
<1>9. JobOk(x) BY <1>1, <1>2, <1>8 DEF JobOk, None
<1>10. jobs[j].day \in MgDays \cup {-1} BY <1>1, <1>2 DEF JobType
<1>11. /\ x.back \/ jobs[j].day = -1 => quota' = Refund(jobs[j].day, jobs[j].id)
       /\ ~x.back /\ jobs[j].day # -1 => quota' = quota
  <2>1. jobs[j].day >= 0 \/ jobs[j].day = -1 BY <1>10 DEF MgDays
  <2>2. jobs[j].day = -1 => Refund(jobs[j].day, jobs[j].id) = quota BY DEF Refund, MgDays
  <2> QED BY <1>3, <1>4, <1>7, <2>1, <2>2
<1>12. /\ quota' \in [MgDays -> [Identities -> Nat]]
       /\ \A d \in MgDays, i \in Identities : quota'[d][i] <= PerIdentity /\ quota'[d][i] = Cardinality(Charged(d, i)')
  BY <1>1, <1>2, <1>4, <1>7, <1>8, <1>11, GiveBack
<1>13. jobs'[j] = x /\ \A k \in JobIds \ {j} : jobs'[k] = jobs[k] BY <1>1, <1>4
<1>14. \A d \in MgDays : Spent(d)' = Spent(d)
  <2>1. \A k \in JobIds : jobs'[k].day = jobs[k].day /\ (jobs'[k].status = "rejected") = (jobs[k].status = "rejected")
    BY <1>1, <1>2, <1>8, <1>13
  <2> QED BY <2>1 DEF Spent
<1>15. \A d \in MgDays : budget'[d] <= MgBudget /\ budget'[d] = Cardinality(Spent(d)') BY <1>1, <1>4, <1>14, QuotaIs
<1>16. QuotaExact' BY <1>12, <1>15 DEF QuotaExact, Charged, Spent
<1>17. x.status \notin {None, "review"} /\ x.status \notin {"publishing", "published"} BY <1>8 DEF None
<1>18. MgIdle \in WorkerType /\ MgIdle.pc = "idle" /\ MgIdle.job = 0 BY DEF MgIdle, WorkerType
<1>19. /\ budget' \in [MgDays -> Nat] /\ store' \subseteq JobIds \X (0..2)
       /\ store' = store /\ mgday' = mgday /\ mgw[w].job = j
  BY <1>1, <1>2, <1>4
<1> HIDE DEF MgIdle
<1> QED BY <1>4, <1>7, <1>9, <1>12, <1>16, <1>17, <1>18, <1>19, WorkerMoves

\* run_once claims a row nobody holds, and re-queues rows nobody holds.
LEMMA ClaimKeeps == ASSUME MgInv, ~SlowWorkers, NEW w \in MgWorkers, RunOnce(w) PROVE MgInv'
<1>0. PICK re \in SUBSET {j \in JobIds : StaleJob(j)} : \E oldest \in {j \in JobIds : jobs[j].status = "queued"} \cup re :
        /\ mgw[w].pc = "idle"
        /\ jobs' = [j \in JobIds |-> IF j = oldest THEN [jobs[j] EXCEPT !.status = "planning"]
                                     ELSE IF j \in re THEN [jobs[j] EXCEPT !.status = "queued"] ELSE jobs[j]]
        /\ mgw' = [mgw EXCEPT ![w] = [pc |-> "plan", job |-> oldest, name |-> 0]]
        /\ UNCHANGED <<mgday, quota, budget, store, mgseen, mgfaults>>
  BY DEF RunOnce
<1>1. PICK oldest \in {j \in JobIds : jobs[j].status = "queued"} \cup re :
        /\ mgw[w].pc = "idle"
        /\ jobs' = [j \in JobIds |-> IF j = oldest THEN [jobs[j] EXCEPT !.status = "planning"]
                                     ELSE IF j \in re THEN [jobs[j] EXCEPT !.status = "queued"] ELSE jobs[j]]
        /\ mgw' = [mgw EXCEPT ![w] = [pc |-> "plan", job |-> oldest, name |-> 0]]
        /\ UNCHANGED <<mgday, quota, budget, store, mgseen, mgfaults>>
  BY <1>0
<1>2. /\ mgday \in MgDays /\ jobs \in [JobIds -> JobType] /\ mgw \in [MgWorkers -> WorkerType]
      /\ \A k \in JobIds : JobOk(jobs[k])
      /\ quota \in [MgDays -> [Identities -> Nat]] /\ budget \in [MgDays -> Nat]
      /\ store \subseteq JobIds \X (0..2) /\ PackStored /\ OneWorker /\ QuotaExact
  BY DEF MgInv
<1>3. \A o \in MgWorkers : Holds(mgw[o]) BY DEF MgInv
<1>4. \A p \in store : p[1] \in JobIds /\ jobs[p[1]].status \notin {None, "review"} BY <1>2 DEF MgInv
<1>5. \A k \in re : k \in JobIds /\ jobs[k].status \in {"planning", "building"} /\ \A o \in MgWorkers : mgw[o].job # k
  BY DEF StaleJob, Held
<1>6. oldest \in JobIds /\ jobs[oldest].status \in {"queued", "planning", "building"} BY <1>1, <1>5
<1>7. \A o \in MgWorkers : mgw[o].job # oldest
  <2>1. CASE oldest \in re BY <1>5, <2>1
  <2>2. CASE jobs[oldest].status = "queued"
    <3>1. ASSUME NEW o \in MgWorkers, mgw[o].job = oldest PROVE FALSE
      <4>1. Holds(mgw[o]) /\ oldest # 0 BY <1>3, <1>6, JobsFinite
      <4> QED BY <2>2, <3>1, <4>1 DEF Holds
    <3> QED BY <3>1
  <2> QED BY <1>1, <2>1, <2>2
<1>8. "planning" \in JobStatus /\ "queued" \in JobStatus BY DEF JobStatus
<1>9. ASSUME NEW k \in JobIds
      PROVE  /\ jobs'[k] \in JobType /\ jobs'[k].source = jobs[k].source /\ jobs'[k].day = jobs[k].day
             /\ jobs'[k].id = jobs[k].id /\ jobs'[k].name = jobs[k].name /\ jobs'[k].reviewed = jobs[k].reviewed
             /\ jobs'[k].back = jobs[k].back
             /\ jobs'[k].status = IF k = oldest THEN "planning" ELSE IF k \in re THEN "queued" ELSE jobs[k].status
  <2>0. jobs[k] \in JobType BY <1>2
  <2>1. CASE k = oldest
    <3>1. jobs'[k] = [jobs[k] EXCEPT !.status = "planning"] BY <1>1, <2>1
    <3>2. jobs'[k].status = "planning" BY <1>8, <2>0, <3>1, JobStatusWith
    <3> QED BY <1>8, <2>0, <2>1, <3>1, <3>2, JobStatusWith
  <2>2. CASE k # oldest /\ k \in re
    <3>1. jobs'[k] = [jobs[k] EXCEPT !.status = "queued"] BY <1>1, <2>2
    <3> QED BY <1>8, <2>0, <2>2, <3>1, JobStatusWith
  <2>3. CASE k # oldest /\ k \notin re
    <3>1. jobs'[k] = jobs[k] BY <1>1, <2>3
    <3> QED BY <2>0, <2>3, <3>1
  <2> QED BY <2>1, <2>2, <2>3
<1>10. jobs' \in [JobIds -> JobType] BY <1>1, <1>9
<1>11. ASSUME NEW k \in JobIds, jobs[k].status \notin {"queued", "planning", "building"} PROVE jobs'[k].status = jobs[k].status
  BY <1>5, <1>6, <1>9, <1>11
<1>12. \A k \in JobIds : jobs[k].status \in {"queued", "planning", "building"} =>
          jobs'[k].status \in {"queued", "planning", "building"}
  BY <1>9
<1>13. \A k \in JobIds : JobOk(jobs[k])'
  <2>1. ASSUME NEW k \in JobIds PROVE JobOk(jobs[k])'
    <3>1. CASE jobs[k].status \in {"queued", "planning", "building"}
      <4>1. JobOk(jobs[k]) /\ jobs'[k].status \in {"queued", "planning", "building"} BY <1>2, <1>12, <3>1
      <4> QED BY <1>9, <3>1, <4>1 DEF JobOk, None
    <3>2. CASE jobs[k].status \notin {"queued", "planning", "building"} BY <1>2, <1>9, <1>11, <3>2 DEF JobOk
    <3> QED BY <3>1, <3>2
  <2> QED BY <2>1
<1>14. QuotaExact'
  <2>1. \A k \in JobIds : (jobs'[k].status = "rejected") = (jobs[k].status = "rejected") BY <1>11, <1>12
  <2>2. UNCHANGED <<quota, budget>> BY <1>1
  <2> QED BY <1>2, <1>9, <2>1, <2>2, SameCount
<1> DEFINE v == [pc |-> "plan", job |-> oldest, name |-> 0]
<1>15. v \in WorkerType /\ v.pc = "plan" /\ v.job = oldest BY <1>6 DEF WorkerType
<1>16. mgw' = [mgw EXCEPT ![w] = v] BY <1>1
<1> HIDE DEF v
<1>17. mgw' \in [MgWorkers -> WorkerType] /\ mgw'[w] = v /\ \A o \in MgWorkers \ {w} : mgw'[o] = mgw[o] BY <1>2, <1>15, <1>16
<1>18. ASSUME NEW o \in MgWorkers PROVE Holds(mgw[o])'
  <2>1. CASE o = w
    <3>1. jobs'[oldest].status = "planning" BY <1>6, <1>9
    <3> QED BY <1>6, <1>15, <1>17, <2>1, <3>1 DEF Holds
  <2>2. CASE o # w
    <3>1. mgw'[o] = mgw[o] /\ Holds(mgw[o]) /\ mgw[o].job # oldest /\ mgw[o].job \notin re BY <1>3, <1>5, <1>7, <1>17, <2>2
    <3>2. mgw[o].job \in JobIds => jobs'[mgw[o].job] = jobs[mgw[o].job] BY <1>1, <3>1
    <3>3. store' = store BY <1>1
    <3> QED BY <3>1, <3>2, <3>3 DEF Holds
  <2> QED BY <2>1, <2>2
<1>19. \A p \in store : jobs'[p[1]].status \notin {None, "review"}
  <2>1. ASSUME NEW p \in store PROVE jobs'[p[1]].status \notin {None, "review"}
    <3>1. p[1] \in JobIds /\ jobs[p[1]].status \notin {None, "review"} BY <1>4
    <3>2. CASE jobs[p[1]].status \in {"queued", "planning", "building"}
      <4>1. jobs'[p[1]].status \in {"queued", "planning", "building"} BY <1>12, <3>1, <3>2
      <4> QED BY <4>1 DEF None
    <3>3. CASE jobs[p[1]].status \notin {"queued", "planning", "building"} BY <1>11, <3>1, <3>3
    <3> QED BY <3>2, <3>3
  <2> QED BY <2>1
<1>20. PackStored'
  <2>1. ASSUME NEW k \in JobIds, jobs'[k].status \in {"publishing", "published"} PROVE <<k, jobs'[k].name>> \in store
    <3>1. jobs'[k].status = jobs[k].status /\ jobs'[k].name = jobs[k].name BY <1>9, <1>11, <1>12, <2>1
    <3> QED BY <1>2, <2>1, <3>1 DEF PackStored, Pack
  <2> QED BY <1>1, <2>1 DEF PackStored, Pack
<1>21. OneWorker'
  <2>1. ASSUME NEW a \in MgWorkers, NEW b \in MgWorkers, a # b, mgw'[a].job = mgw'[b].job PROVE mgw'[a].job = 0
    BY <1>2, <1>7, <1>15, <1>17, <2>1 DEF OneWorker
  <2> QED BY <2>1 DEF OneWorker
<1>22. UNCHANGED <<mgday, quota, budget, store>> BY <1>1
<1> HIDE DEF Holds, JobOk
<1> QED BY <1>2, <1>10, <1>13, <1>14, <1>17, <1>18, <1>19, <1>20, <1>21, <1>22 DEF MgInv

\* A row approved by an admin waits for a worker.
LEMMA ApproveKeeps == ASSUME MgInv, NEW j \in JobIds, MapgenApprove(j) PROVE MgInv'
<1>1. jobs \in [JobIds -> JobType] /\ QuotaExact /\ mgday \in MgDays /\ (\A k \in JobIds : JobOk(jobs[k]))
      /\ quota \in [MgDays -> [Identities -> Nat]] /\ budget \in [MgDays -> Nat]
  BY DEF MgInv
<1> DEFINE x == [jobs[j] EXCEPT !.status = "queued", !.reviewed = TRUE, !.back = jobs[j].back]
<1>2. jobs[j].status = "review" /\ UNCHANGED <<mgday, quota, budget, store, mgw>> BY DEF MapgenApprove
<1>3. jobs[j] \in JobType /\ jobs[j].back \in BOOLEAN BY <1>1 DEF JobType
<1>4. jobs' = [jobs EXCEPT ![j] = x] BY <1>3 DEF MapgenApprove, JobType
<1>5. "queued" \in JobStatus BY DEF JobStatus
<1>6. x \in JobType /\ x.status = "queued" /\ x.source = jobs[j].source /\ x.day = jobs[j].day /\ x.id = jobs[j].id
      /\ x.name = jobs[j].name /\ x.reviewed = TRUE /\ x.back = jobs[j].back
  BY <1>3, <1>5 DEF JobType
<1> HIDE DEF x
<1>7. jobs'[j] = x /\ (\A k \in JobIds \ {j} : jobs'[k] = jobs[k]) /\ jobs' \in [JobIds -> JobType] BY <1>1, <1>4, <1>6
<1>8. JobOk(x) BY <1>1, <1>2, <1>6 DEF JobOk, None
<1>9. \A k \in JobIds : JobOk(jobs'[k]) BY <1>1, <1>7, <1>8
<1>10. QuotaExact'
  <2>1. \A k \in JobIds : jobs'[k].day = jobs[k].day /\ jobs'[k].id = jobs[k].id /\ jobs'[k].back = jobs[k].back
          /\ (jobs'[k].status = "rejected") = (jobs[k].status = "rejected")
    BY <1>2, <1>6, <1>7
  <2> QED BY <1>1, <1>2, <2>1, SameCount
<1>11. \A k \in JobIds :
         /\ jobs[k].status \in {"planning", "building"} => jobs'[k].status = jobs[k].status /\ jobs'[k].name = jobs[k].name
         /\ jobs[k].status \notin {None, "review"} => jobs'[k].status \notin {None, "review"}
         /\ jobs'[k].status \in {"publishing", "published"} =>
               jobs[k].status \in {"publishing", "published"} /\ jobs'[k].name = jobs[k].name
  BY <1>2, <1>6, <1>7 DEF None
<1> QED BY <1>1, <1>2, <1>7, <1>9, <1>10, <1>11, JobsMove

\* A row turned down gives the day back to its requester and to the site.
LEMMA RejectKeeps == ASSUME MgInv, NEW j \in JobIds, MapgenReject(j) PROVE MgInv'
<1>1. jobs \in [JobIds -> JobType] /\ QuotaExact /\ mgday \in MgDays /\ (\A k \in JobIds : JobOk(jobs[k]))
      /\ quota \in [MgDays -> [Identities -> Nat]] /\ budget \in [MgDays -> Nat]
  BY DEF MgInv
<1> DEFINE x == [jobs[j] EXCEPT !.status = "rejected", !.reviewed = TRUE, !.back = TRUE]
<1>2. jobs[j].status = "review" /\ UNCHANGED <<mgday, store, mgw>> /\ quota' = Refund(jobs[j].day, jobs[j].id)
      /\ budget' = [budget EXCEPT ![jobs[j].day] = IF @ > 0 THEN @ - 1 ELSE 0]
  BY DEF MapgenReject
<1>3. jobs[j] \in JobType /\ JobOk(jobs[j]) BY <1>1
<1>4. jobs' = [jobs EXCEPT ![j] = x] BY <1>3 DEF MapgenReject, JobType
<1>5. "rejected" \in JobStatus /\ TRUE \in BOOLEAN BY DEF JobStatus
<1>6. x \in JobType /\ x.status = "rejected" /\ x.source = jobs[j].source /\ x.day = jobs[j].day /\ x.id = jobs[j].id
      /\ x.name = jobs[j].name /\ x.reviewed = TRUE /\ x.back = TRUE
  BY <1>3, <1>5 DEF JobType
<1> HIDE DEF x
<1>7. jobs'[j] = x /\ (\A k \in JobIds \ {j} : jobs'[k] = jobs[k]) /\ jobs' \in [JobIds -> JobType] BY <1>1, <1>4, <1>6
<1>8. JobOk(x) BY <1>6 DEF JobOk, None
<1>9. \A k \in JobIds : JobOk(jobs'[k]) BY <1>1, <1>7, <1>8
<1>10. ~jobs[j].back BY <1>2, <1>3 DEF JobOk
<1>11. /\ quota' \in [MgDays -> [Identities -> Nat]]
       /\ \A d \in MgDays, i \in Identities : quota'[d][i] <= PerIdentity /\ quota'[d][i] = Cardinality(Charged(d, i)')
  BY <1>2, <1>4, <1>6, <1>10, GiveBack
<1>12. /\ budget' \in [MgDays -> Nat]
       /\ \A d \in MgDays : budget'[d] <= MgBudget /\ budget'[d] = Cardinality(Spent(d)')
  <2>1. \A d \in MgDays : budget[d] <= MgBudget /\ budget[d] = Cardinality(Spent(d)) /\ budget[d] \in Nat BY <1>1, QuotaIs
  <2>2. \A d \in MgDays \ {jobs[j].day} : Spent(d)' = Spent(d) BY <1>6, <1>7 DEF Spent
  <2>3. CASE jobs[j].day \notin MgDays
    <3>1. budget' = budget BY <1>1, <1>2, <2>3
    <3> QED BY <1>1, <2>1, <2>2, <2>3, <3>1
  <2>4. CASE jobs[j].day \in MgDays
    <3>0. PICK e \in MgDays : e = jobs[j].day BY <2>4
    <3> DEFINE S == Spent(e)
    <3>1. j \in S BY <1>2, <3>0 DEF Spent
    <3>2. Spent(e)' = S \ {j} BY <1>6, <1>7 DEF Spent
    <3>3. IsFiniteSet(S) /\ Cardinality(S) \in Nat /\ Cardinality(S \ {j}) \in Nat
      <4>1. S \in SUBSET JobIds /\ S \ {j} \in SUBSET JobIds BY DEF Spent
      <4> QED BY <4>1, JobsFinite
    <3>4. Cardinality(S \ {j}) = Cardinality(S) - 1 BY <3>1, <3>3, FS_RemoveElement
    <3>5. budget[e] = Cardinality(S) /\ budget[e] \in Nat /\ budget[e] <= MgBudget BY <2>1
    <3> HIDE DEF S
    <3>6. budget[e] > 0 /\ budget[e] - 1 = Cardinality(Spent(e)') /\ budget[e] - 1 \in Nat BY <3>2, <3>3, <3>4, <3>5
    <3>7. budget' = [budget EXCEPT ![e] = budget[e] - 1] BY <1>1, <1>2, <3>0, <3>6
    <3>8. budget' \in [MgDays -> Nat] /\ budget'[e] = budget[e] - 1 /\ \A d \in MgDays \ {e} : budget'[d] = budget[d]
      BY <1>1, <3>6, <3>7
    <3>9. ASSUME NEW d \in MgDays PROVE budget'[d] <= MgBudget /\ budget'[d] = Cardinality(Spent(d)')
      <4>1. CASE d = e
        <5>1. Spent(d)' = Spent(e)' BY <4>1 DEF Spent
        <5>2. MgBudget \in Nat BY MapgenAssumption
        <5> QED BY <3>5, <3>6, <3>8, <4>1, <5>1, <5>2
      <4>2. CASE d # e BY <2>1, <2>2, <3>0, <3>8, <4>2
      <4> QED BY <4>1, <4>2
    <3> QED BY <3>8, <3>9
  <2> QED BY <2>3, <2>4
<1>13. QuotaExact' BY <1>11, <1>12 DEF QuotaExact, Charged, Spent
<1>14. \A k \in JobIds :
         /\ jobs[k].status \in {"planning", "building"} => jobs'[k].status = jobs[k].status /\ jobs'[k].name = jobs[k].name
         /\ jobs[k].status \notin {None, "review"} => jobs'[k].status \notin {None, "review"}
         /\ jobs'[k].status \in {"publishing", "published"} =>
               jobs[k].status \in {"publishing", "published"} /\ jobs'[k].name = jobs[k].name
  BY <1>2, <1>6, <1>7 DEF None
<1> QED BY <1>1, <1>2, <1>7, <1>9, <1>11, <1>12, <1>13, <1>14, JobsMove

\* A server that confirms packs makes their rows published.
LEMMA SyncKeeps == ASSUME MgInv, NEW s \in MgServers, MapgenSync(s) PROVE MgInv'
<1>1. jobs \in [JobIds -> JobType] /\ QuotaExact /\ mgday \in MgDays /\ (\A k \in JobIds : JobOk(jobs[k]))
      /\ quota \in [MgDays -> [Identities -> Nat]] /\ budget \in [MgDays -> Nat]
  BY DEF MgInv
<1>2. PICK named \in SUBSET JobIds :
        /\ \A k \in named : jobs[k].status \in {"publishing", "published"}
        /\ jobs' = [k \in JobIds |-> IF k \in named THEN [jobs[k] EXCEPT !.status = "published"] ELSE jobs[k]]
        /\ UNCHANGED <<mgday, quota, budget, store, mgw>>
  BY DEF MapgenSync
<1>3. "published" \in JobStatus BY DEF JobStatus
<1>4. ASSUME NEW k \in JobIds
      PROVE  /\ jobs'[k] \in JobType /\ jobs'[k].source = jobs[k].source /\ jobs'[k].day = jobs[k].day
             /\ jobs'[k].id = jobs[k].id /\ jobs'[k].name = jobs[k].name /\ jobs'[k].reviewed = jobs[k].reviewed
             /\ jobs'[k].back = jobs[k].back
             /\ jobs'[k].status = IF k \in named THEN "published" ELSE jobs[k].status
  <2>0. jobs[k] \in JobType BY <1>1
  <2>1. CASE k \in named
    <3>1. jobs'[k] = [jobs[k] EXCEPT !.status = "published"] BY <1>2, <2>1
    <3> QED BY <1>3, <2>0, <2>1, <3>1, JobStatusWith
  <2>2. CASE k \notin named
    <3>1. jobs'[k] = jobs[k] BY <1>2, <2>2
    <3> QED BY <2>0, <2>2, <3>1
  <2> QED BY <2>1, <2>2
<1>5. jobs' \in [JobIds -> JobType] BY <1>2, <1>4
<1>6. \A k \in named : jobs[k].status \in {"publishing", "published"} /\ jobs'[k].status = "published" BY <1>2, <1>4
<1>7. \A k \in JobIds \ named : jobs'[k].status = jobs[k].status BY <1>4
<1>8. ASSUME NEW k \in JobIds PROVE JobOk(jobs'[k])
  <2>1. JobOk(jobs[k]) BY <1>1
  <2>2. CASE k \in named
    <3>1. jobs[k].status \in {"publishing", "published"} /\ jobs'[k].status = "published" BY <1>6, <2>2
    <3> QED BY <1>4, <2>1, <3>1 DEF JobOk, None
  <2>3. CASE k \notin named BY <1>4, <1>7, <2>1, <2>3 DEF JobOk
  <2> QED BY <2>2, <2>3
<1>9. QuotaExact'
  <2>1. \A k \in JobIds : (jobs'[k].status = "rejected") = (jobs[k].status = "rejected") BY <1>6, <1>7
  <2> QED BY <1>1, <1>2, <1>4, <2>1, SameCount
<1>10. \A k \in JobIds :
         /\ jobs[k].status \in {"planning", "building"} => jobs'[k].status = jobs[k].status /\ jobs'[k].name = jobs[k].name
         /\ jobs[k].status \notin {None, "review"} => jobs'[k].status \notin {None, "review"}
         /\ jobs'[k].status \in {"publishing", "published"} =>
               jobs[k].status \in {"publishing", "published"} /\ jobs'[k].name = jobs[k].name
  BY <1>4, <1>6, <1>7 DEF None
<1> QED BY <1>1, <1>2, <1>5, <1>8, <1>9, <1>10, JobsMove

\* The day turns.
LEMMA MidnightKeeps == ASSUME MgInv, MgMidnight PROVE MgInv'
<1>1. jobs \in [JobIds -> JobType] /\ QuotaExact /\ mgday \in MgDays /\ (\A k \in JobIds : JobOk(jobs[k]))
      /\ quota \in [MgDays -> [Identities -> Nat]] /\ budget \in [MgDays -> Nat]
  BY DEF MgInv
<1>2. UNCHANGED <<jobs, quota, budget, store, mgw>> BY DEF MgMidnight
<1>3. mgday' \in MgDays BY <1>1, MapgenAssumption DEF MgMidnight, MgDays
<1>4. QuotaExact' BY <1>1, <1>2, SameCount
<1> QED BY <1>1, <1>2, <1>3, <1>4, JobsMove

\* A new row that nobody is charged for.
LEMMA AdminKeeps == ASSUME MgInv, MapgenSubmitAdmin PROVE MgInv'
<1>1. jobs \in [JobIds -> JobType] /\ QuotaExact /\ mgday \in MgDays /\ (\A k \in JobIds : JobOk(jobs[k]))
      /\ quota \in [MgDays -> [Identities -> Nat]] /\ budget \in [MgDays -> Nat]
  BY DEF MgInv
<1>2. PICK n \in JobIds : NewJob(n) /\ jobs' = [jobs EXCEPT ![n] = [NoJob EXCEPT !.status = "queued", !.source = "describe"]]
  BY DEF MapgenSubmitAdmin
<1>3. UNCHANGED <<mgday, quota, budget, store, mgw>> BY DEF MapgenSubmitAdmin
<1>4. jobs[n].status = None /\ jobs[n].day = -1 BY <1>1, <1>2 DEF NewJob, Live, JobOk
<1> DEFINE x == [NoJob EXCEPT !.status = "queued", !.source = "describe"]
<1>5. x \in JobType /\ x.status = "queued" /\ x.source = "describe" /\ x.day = -1 /\ ~x.back
  <2>1. "queued" \in JobStatus BY DEF JobStatus
  <2>2. PICK y \in JobType : y = NoJob BY NoJobIs
  <2>3. y.day = -1 /\ ~y.back BY <2>2, NoJobIs
  <2>4. LET z == [y EXCEPT !.status = "queued", !.source = "describe"]
        IN z \in JobType /\ z.status = "queued" /\ z.source = "describe" /\ z.day = y.day /\ z.back = y.back
    BY <2>1 DEF JobType
  <2> QED BY <2>2, <2>3, <2>4, Zenon
<1>6. jobs' = [jobs EXCEPT ![n] = x] BY <1>2
<1> HIDE DEF x
<1>7. jobs'[n] = x /\ (\A k \in JobIds \ {n} : jobs'[k] = jobs[k]) /\ jobs' \in [JobIds -> JobType] BY <1>1, <1>5, <1>6
<1>8. JobOk(x) BY <1>5 DEF JobOk, None
<1>9. \A k \in JobIds : JobOk(jobs'[k]) BY <1>1, <1>7, <1>8
<1>10. QuotaExact'
  <2>0. -1 \notin MgDays BY DEF MgDays
  <2>1. \A k \in JobIds, d \in MgDays : (jobs'[k].day = d) = (jobs[k].day = d) BY <1>4, <1>5, <1>7, <2>0
  <2>2. \A k \in JobIds : jobs[k].day \in MgDays => jobs'[k] = jobs[k] BY <1>4, <1>7, <2>0
  <2> QED BY <1>1, <1>3, <2>1, <2>2, SameCount
<1>11. \A k \in JobIds :
         /\ jobs[k].status \in {"planning", "building"} => jobs'[k].status = jobs[k].status /\ jobs'[k].name = jobs[k].name
         /\ jobs[k].status \notin {None, "review"} => jobs'[k].status \notin {None, "review"}
         /\ jobs'[k].status \in {"publishing", "published"} =>
               jobs[k].status \in {"publishing", "published"} /\ jobs'[k].name = jobs[k].name
  BY <1>4, <1>5, <1>7 DEF None
<1> QED BY <1>1, <1>3, <1>7, <1>9, <1>10, <1>11, JobsMove

\* The rows a request leaves: its own, and the others without the requesters of the days
\* before yesterday.
LEMMA SubmitIs ==
  ASSUME MgInv, NEW i \in Identities, NEW o \in {"describe", "editor"}, NEW d \in MgDays, MapgenSubmit(i, o, d)
  PROVE  \E n \in JobIds :
           /\ jobs[n].status = None /\ jobs[n].day = -1
           /\ DOMAIN jobs' = JobIds /\ jobs'[n] \in JobType
           /\ jobs'[n].status = (IF o = "editor" THEN "review" ELSE "queued") /\ jobs'[n].source = o
           /\ jobs'[n].day = d /\ jobs'[n].id = i /\ ~jobs'[n].back
           /\ \A k \in JobIds \ {n} :
                /\ jobs'[k] \in JobType /\ jobs'[k].status = jobs[k].status /\ jobs'[k].source = jobs[k].source
                /\ jobs'[k].day = jobs[k].day /\ jobs'[k].name = jobs[k].name
                /\ jobs'[k].reviewed = jobs[k].reviewed /\ jobs'[k].back = jobs[k].back
                /\ jobs'[k].id = IF jobs[k].day < d - 1 THEN None ELSE jobs[k].id
<1>1. jobs \in [JobIds -> JobType] /\ \A k \in JobIds : JobOk(jobs[k]) BY DEF MgInv
<1>2. PICK n \in JobIds :
        /\ NewJob(n)
        /\ jobs' = [j \in JobIds |->
                     IF j = n
                     THEN [NoJob EXCEPT !.status = IF o = "editor" THEN "review" ELSE "queued",
                                        !.source = o, !.day = d, !.id = i]
                     ELSE [jobs[j] EXCEPT !.id = IF jobs[j].day < d - 1 THEN None ELSE @]]
  BY DEF MapgenSubmit
<1>3. jobs[n].status = None /\ jobs[n].day = -1 BY <1>1, <1>2 DEF NewJob, Live, JobOk
<1>4. PICK e \in JobStatus : e = IF o = "editor" THEN "review" ELSE "queued" BY DEF JobStatus
<1>5. jobs'[n] = [NoJob EXCEPT !.status = e, !.source = o, !.day = d, !.id = i] BY <1>2, <1>4
<1>6. /\ jobs'[n] \in JobType /\ jobs'[n].status = e /\ jobs'[n].source = o /\ jobs'[n].day = d /\ jobs'[n].id = i
      /\ ~jobs'[n].back
  <2>1. PICK x \in JobType : x = NoJob BY NoJobIs
  <2>2. ~x.back BY <2>1, NoJobIs
  <2>3. LET y == [x EXCEPT !.status = e, !.source = o, !.day = d, !.id = i]
        IN y \in JobType /\ y.status = e /\ y.source = o /\ y.day = d /\ y.id = i /\ y.back = x.back
    BY DEF JobType
  <2>4. jobs'[n] = [x EXCEPT !.status = e, !.source = o, !.day = d, !.id = i] BY <1>5, <2>1
  <2> QED BY <2>2, <2>3, <2>4
<1>7. ASSUME NEW k \in JobIds \ {n}
      PROVE  /\ jobs'[k] \in JobType /\ jobs'[k].status = jobs[k].status /\ jobs'[k].source = jobs[k].source
             /\ jobs'[k].day = jobs[k].day /\ jobs'[k].name = jobs[k].name
             /\ jobs'[k].reviewed = jobs[k].reviewed /\ jobs'[k].back = jobs[k].back
             /\ jobs'[k].id = IF jobs[k].day < d - 1 THEN None ELSE jobs[k].id
  <2>1. jobs[k] \in JobType BY <1>1
  <2>2. jobs[k].id \in Identities \cup {None} BY <2>1 DEF JobType
  <2>3. PICK q \in Identities \cup {None} : q = IF jobs[k].day < d - 1 THEN None ELSE jobs[k].id BY <2>2
  <2>4. jobs'[k] = [jobs[k] EXCEPT !.id = q] BY <1>2, <2>3
  <2> QED BY <2>1, <2>3, <2>4, JobIdWith
<1> QED BY <1>2, <1>3, <1>4, <1>6, <1>7, ZenonT(60)

\* A request is charged to its requester and to the site, on its day.
LEMMA SubmitKeeps ==
  ASSUME MgInv, NEW i \in Identities, NEW o \in {"describe", "editor"}, NEW d \in MgDays, MapgenSubmit(i, o, d)
  PROVE  MgInv'
<1>1. jobs \in [JobIds -> JobType] /\ QuotaExact /\ mgday \in MgDays /\ (\A k \in JobIds : JobOk(jobs[k]))
      /\ quota \in [MgDays -> [Identities -> Nat]] /\ budget \in [MgDays -> Nat]
  BY DEF MgInv
<1>2. /\ QuotaClaim(d, i) /\ budget' = [budget EXCEPT ![d] = @ + 1]
      /\ quota' = [e \in MgDays |-> IF e < d - 1 THEN [k \in Identities |-> 0]
                                    ELSE IF e = d THEN [quota[e] EXCEPT ![i] = @ + 1] ELSE quota[e]]
      /\ UNCHANGED <<mgday, store, mgw>>
  BY DEF MapgenSubmit
<1>3. PICK n \in JobIds :
           /\ jobs[n].status = None /\ jobs[n].day = -1
           /\ DOMAIN jobs' = JobIds /\ jobs'[n] \in JobType
           /\ jobs'[n].status = (IF o = "editor" THEN "review" ELSE "queued") /\ jobs'[n].source = o
           /\ jobs'[n].day = d /\ jobs'[n].id = i /\ ~jobs'[n].back
           /\ \A k \in JobIds \ {n} :
                /\ jobs'[k] \in JobType /\ jobs'[k].status = jobs[k].status /\ jobs'[k].source = jobs[k].source
                /\ jobs'[k].day = jobs[k].day /\ jobs'[k].name = jobs[k].name
                /\ jobs'[k].reviewed = jobs[k].reviewed /\ jobs'[k].back = jobs[k].back
                /\ jobs'[k].id = IF jobs[k].day < d - 1 THEN None ELSE jobs[k].id
  BY SubmitIs
<1>4. jobs' \in [JobIds -> JobType]
  <2>1. jobs' = [k \in JobIds |-> jobs'[k]] BY <1>3 DEF MapgenSubmit
  <2>2. \A k \in JobIds : jobs'[k] \in JobType BY <1>3
  <2> QED BY <2>1, <2>2
<1>5. /\ jobs'[n].status \in {"review", "queued"} /\ (jobs'[n].source = "editor" => jobs'[n].status = "review")
      /\ jobs'[n].status \notin {None, "rejected", "planning", "building", "publishing", "published", "failed"}
  BY <1>3 DEF None
<1>6. ASSUME NEW k \in JobIds PROVE JobOk(jobs'[k])
  <2>1. CASE k = n BY <1>3, <1>5, <2>1 DEF JobOk
  <2>2. CASE k # n
    <3>1. JobOk(jobs[k]) BY <1>1
    <3> QED BY <1>3, <2>2, <3>1 DEF JobOk
  <2> QED BY <2>1, <2>2
<1>7. MgDays \subseteq Int /\ -1 \notin MgDays /\ d \in Int BY DEF MgDays
<1>8. \A e \in MgDays, p \in Identities : quota[e][p] <= PerIdentity /\ quota[e][p] = Cardinality(Charged(e, p)) BY <1>1, QuotaIs
<1>9. \A e \in MgDays : budget[e] <= MgBudget /\ budget[e] = Cardinality(Spent(e)) BY <1>1, QuotaIs
<1>10. PerIdentity \in Nat /\ MgBudget \in Nat BY MapgenAssumption
<1>11. ASSUME NEW e \in MgDays PROVE /\ budget'[e] \in Nat /\ budget'[e] <= MgBudget /\ budget'[e] = Cardinality(Spent(e)')
  <2>1. CASE e = d
    <3> DEFINE S == Spent(e)
    <3>1. n \notin S BY <1>3, <1>7 DEF Spent
    <3>2. Spent(e)' = S \cup {n} BY <1>3, <1>5, <2>1 DEF Spent
    <3>3. IsFiniteSet(S) /\ Cardinality(S) \in Nat
      <4>1. S \in SUBSET JobIds BY DEF Spent
      <4> QED BY <4>1, JobsFinite
    <3>4. Cardinality(S \cup {n}) = Cardinality(S) + 1 BY <3>1, <3>3, FS_AddElement
    <3>5. budget[e] = Cardinality(S) /\ budget[e] < MgBudget /\ budget'[e] = budget[e] + 1
      BY <1>1, <1>2, <1>9, <2>1 DEF QuotaClaim
    <3> HIDE DEF S
    <3> QED BY <1>10, <3>2, <3>3, <3>4, <3>5
  <2>2. CASE e # d
    <3>1. Spent(e)' = Spent(e) BY <1>3, <1>7, <2>2 DEF Spent
    <3>2. budget'[e] = budget[e] BY <1>1, <1>2, <2>2
    <3> QED BY <1>1, <1>9, <3>1, <3>2
  <2> QED BY <2>1, <2>2
<1>12. ASSUME NEW e \in MgDays, NEW p \in Identities
       PROVE  quota'[e][p] \in Nat /\ quota'[e][p] <= PerIdentity /\ quota'[e][p] = Cardinality(Charged(e, p)')
  <2>0. e \in Int /\ quota[e] \in [Identities -> Nat] BY <1>1, <1>7
  <2>1. CASE e < d - 1
    <3>1. quota'[e][p] = 0 BY <1>2, <2>1
    <3>2. Charged(e, p)' = {}
      <4>1. ASSUME NEW k \in JobIds, jobs'[k].day = e, jobs'[k].id = p PROVE FALSE
        <5>1. k # n BY <1>3, <1>7, <2>0, <2>1, <4>1
        <5>2. jobs'[k].id = None BY <1>3, <2>1, <4>1, <5>1
        <5> QED BY <4>1, <5>2, MapgenAssumption DEF None
      <4> QED BY <4>1 DEF Charged
    <3> QED BY <1>10, <3>1, <3>2, FS_EmptySet
  <2>2. CASE e = d /\ p = i
    <3> DEFINE S == Charged(e, p)
    <3>0. ~(e < d - 1) BY <1>7, <2>2
    <3>1. n \notin S BY <1>3, <1>7 DEF Charged
    <3>2. Charged(e, p)' = S \cup {n}
      <4>1. \A k \in JobIds \ {n} : jobs[k].day = e => jobs'[k].id = jobs[k].id BY <1>3, <3>0
      <4>2. \A k \in JobIds \ {n} : /\ jobs'[k].day = e /\ jobs'[k].id = p /\ ~jobs'[k].back
                                  <=> jobs[k].day = e /\ jobs[k].id = p /\ ~jobs[k].back
        BY <1>3, <4>1
      <4> QED BY <1>3, <2>2, <4>2 DEF Charged
    <3>3. IsFiniteSet(S) /\ Cardinality(S) \in Nat
      <4>1. S \in SUBSET JobIds BY DEF Charged
      <4> QED BY <4>1, JobsFinite
    <3>4. Cardinality(S \cup {n}) = Cardinality(S) + 1 BY <3>1, <3>3, FS_AddElement
    <3>5. quota[e][p] = Cardinality(S) /\ quota[e][p] < PerIdentity BY <1>2, <1>8, <2>2 DEF QuotaClaim
    <3>6. quota'[e][p] = quota[e][p] + 1 BY <1>2, <2>0, <2>2, <3>0
    <3> HIDE DEF S
    <3> QED BY <1>10, <3>2, <3>3, <3>4, <3>5, <3>6
  <2>3. CASE ~(e < d - 1) /\ ~(e = d /\ p = i)
    <3>1. quota'[e][p] = quota[e][p] BY <1>2, <2>0, <2>3
    <3>2. Charged(e, p)' = Charged(e, p)
      <4>1. \A k \in JobIds \ {n} : jobs[k].day = e => jobs'[k].id = jobs[k].id BY <1>3, <2>3
      <4>2. \A k \in JobIds \ {n} : /\ jobs'[k].day = e /\ jobs'[k].id = p /\ ~jobs'[k].back
                                  <=> jobs[k].day = e /\ jobs[k].id = p /\ ~jobs[k].back
        BY <1>3, <4>1
      <4>3. ~(jobs'[n].day = e /\ jobs'[n].id = p) /\ jobs[n].day # e BY <1>3, <1>7, <2>3
      <4> QED BY <4>2, <4>3 DEF Charged
    <3> QED BY <1>8, <2>0, <3>1, <3>2
  <2> QED BY <2>1, <2>2, <2>3
<1>13. QuotaExact' BY <1>11, <1>12 DEF QuotaExact, Charged, Spent
<1>14. budget' \in [MgDays -> Nat]
  <2>1. budget' = [e \in MgDays |-> budget'[e]] BY <1>1, <1>2
  <2> QED BY <1>11, <2>1
<1>15. quota' \in [MgDays -> [Identities -> Nat]]
  <2>1. ASSUME NEW e \in MgDays PROVE quota'[e] \in [Identities -> Nat]
    <3>1. quota[e] \in [Identities -> Nat] BY <1>1
    <3>2. quota'[e] = [p \in Identities |-> quota'[e][p]] BY <1>2, <3>1
    <3> QED BY <1>12, <3>2
  <2> QED BY <1>2, <2>1
<1>16. \A k \in JobIds :
         /\ jobs[k].status \in {"planning", "building"} => jobs'[k].status = jobs[k].status /\ jobs'[k].name = jobs[k].name
         /\ jobs[k].status \notin {None, "review"} => jobs'[k].status \notin {None, "review"}
         /\ jobs'[k].status \in {"publishing", "published"} =>
               jobs[k].status \in {"publishing", "published"} /\ jobs'[k].name = jobs[k].name
  BY <1>3, <1>5 DEF None
<1>17. UNCHANGED <<mgw, store>> /\ mgday' \in MgDays BY <1>1, <1>2
<1> QED BY <1>4, <1>6, <1>13, <1>14, <1>15, <1>16, <1>17, JobsMove

\* The invariant of the jobs, as long as no worker outlives its claim.
LEMMA MgAlways == ~SlowWorkers /\ MgSpec => []MgInv
<1>1. MgInit => MgInv
  <2> SUFFICES ASSUME MgInit PROVE MgInv
    OBVIOUS
  <2>1. /\ mgday = 0 /\ jobs = [j \in JobIds |-> NoJob] /\ quota = [d \in MgDays |-> [i \in Identities |-> 0]]
        /\ budget = [d \in MgDays |-> 0] /\ store = {} /\ mgw = [w \in MgWorkers |-> MgIdle]
    BY DEF MgInit
  <2>2. NoJob \in JobType /\ NoJob.status = None /\ NoJob.day = -1 /\ JobOk(NoJob)
    BY NoJobIs DEF JobOk, None
  <2>3. MgIdle \in WorkerType /\ MgIdle.pc = "idle" /\ MgIdle.job = 0 BY DEF MgIdle, WorkerType
  <2>4. 0 \in MgDays /\ -1 \notin MgDays /\ PerIdentity \in Nat /\ MgBudget \in Nat BY MapgenAssumption DEF MgDays
  <2> HIDE DEF NoJob, MgIdle
  <2>5. QuotaExact
    <3>1. \A d \in MgDays : Spent(d) = {} /\ \A i \in Identities : Charged(d, i) = {}
      BY <2>1, <2>2, <2>4 DEF Spent, Charged
    <3>2. \A d \in MgDays : budget[d] = 0 /\ \A i \in Identities : quota[d][i] = 0 BY <2>1
    <3>3. \A d \in MgDays :
            /\ \A i \in Identities : quota[d][i] <= PerIdentity /\ quota[d][i] = Cardinality(Charged(d, i))
            /\ budget[d] <= MgBudget /\ budget[d] = Cardinality(Spent(d))
      <4>1. Cardinality({}) = 0 BY FS_EmptySet
      <4>2. ASSUME NEW d \in MgDays PROVE budget[d] <= MgBudget /\ budget[d] = Cardinality(Spent(d))
        <5>1. Spent(d) = {} /\ budget[d] = 0 BY <3>1, <3>2
        <5> QED BY <2>4, <4>1, <5>1
      <4>3. ASSUME NEW d \in MgDays, NEW i \in Identities
            PROVE  quota[d][i] <= PerIdentity /\ quota[d][i] = Cardinality(Charged(d, i))
        <5>1. Charged(d, i) = {} /\ quota[d][i] = 0 BY <3>1, <3>2
        <5> QED BY <2>4, <4>1, <5>1
      <4> QED BY <4>2, <4>3
    <3> QED BY <3>3, QuotaIs
  <2>6. PackStored BY <2>1, <2>2 DEF PackStored, None
  <2>7. OneWorker BY <2>1, <2>3 DEF OneWorker
  <2>8. \A w \in MgWorkers : Holds(mgw[w]) BY <2>1, <2>3 DEF Holds
  <2>9. quota \in [MgDays -> [Identities -> Nat]] /\ budget \in [MgDays -> Nat] BY <2>1
  <2>10. jobs \in [JobIds -> JobType] /\ mgw \in [MgWorkers -> WorkerType] /\ \A j \in JobIds : JobOk(jobs[j])
    BY <2>1, <2>2, <2>3
  <2> HIDE DEF Holds, JobOk
  <2> QED BY <2>1, <2>4, <2>5, <2>6, <2>7, <2>8, <2>9, <2>10 DEF MgInv
<1>2. ASSUME ~SlowWorkers, MgInv, [MgNext]_mgVars PROVE MgInv'
  <2>1. ASSUME NEW i \in Identities, NEW d \in {mgday - 1, mgday} \cap MgDays, PostMapgen(i, d) \/ PostMapgenSpec(i, d)
        PROVE  MgInv'
    BY <1>2, <2>1, SubmitKeeps DEF PostMapgen, PostMapgenSpec
  <2>2. CASE MapgenSubmitAdmin BY <1>2, <2>2, AdminKeeps
  <2>3. ASSUME NEW j \in JobIds, MapgenApprove(j) \/ MapgenReject(j) PROVE MgInv'
    BY <1>2, <2>3, ApproveKeeps, RejectKeeps
  <2>4. ASSUME NEW w \in MgWorkers, WorkerSteps(w) \/ PlanFails(w) \/ BuildFails(w) \/ WorkerDies(w) PROVE MgInv'
    <3>1. CASE RunOnce(w) BY <1>2, <3>1, ClaimKeeps
    <3>2. CASE Planned(w) BY <1>2, <3>2, PlannedKeeps
    <3>3. CASE Built(w) BY <1>2, <3>3, BuiltKeeps
    <3>4. CASE Published(w) BY <1>2, <3>4, PublishedKeeps
    <3>5. CASE Committed(w) BY <1>2, <3>5, CommittedKeeps
    <3>6. CASE WorkerDies(w) BY <1>2, <3>6, DiesKeeps
    <3>7. CASE PlanFails(w)
      <4>1. PICK g \in BOOLEAN : g = (jobs[mgw[w].job].source = "editor") OBVIOUS
      <4>2. mgw[w].pc # "idle" /\ Fails(w, g) BY <3>7, <4>1 DEF PlanFails, Fails
      <4> QED BY <1>2, <4>2, FailsKeeps
    <3>8. CASE BuildFails(w) \/ PublishRefused(w)
      <4>1. mgw[w].pc # "idle" /\ Fails(w, TRUE) BY <3>8 DEF BuildFails, PublishRefused
      <4> QED BY <1>2, <4>1, FailsKeeps
    <3> QED BY <2>4, <3>1, <3>2, <3>3, <3>4, <3>5, <3>6, <3>7, <3>8 DEF WorkerSteps
  <2>5. ASSUME NEW s \in MgServers, MapgenSync(s) PROVE MgInv' BY <1>2, <2>5, SyncKeeps
  <2>6. CASE MgMidnight BY <1>2, <2>6, MidnightKeeps
  <2>7. CASE UNCHANGED mgVars
    <3>1. UNCHANGED <<mgday, jobs, quota, budget, store, mgw>> BY <2>7 DEF mgVars
    <3>2. /\ jobs \in [JobIds -> JobType] /\ QuotaExact /\ mgday \in MgDays /\ (\A k \in JobIds : JobOk(jobs[k]))
          /\ quota \in [MgDays -> [Identities -> Nat]] /\ budget \in [MgDays -> Nat]
      BY <1>2 DEF MgInv
    <3>3. QuotaExact' BY <3>1, <3>2, SameCount
    <3> QED BY <1>2, <3>1, <3>2, <3>3, JobsMove
  <2> QED BY <1>2, <2>1, <2>2, <2>3, <2>4, <2>5, <2>6, <2>7 DEF MgNext
<1>3. ASSUME ~SlowWorkers PROVE MgSpec => []MgInv
  <2>1. MgInv /\ [MgNext]_mgVars => MgInv' BY <1>2, <1>3
  <2> QED BY <1>1, <2>1, PTL DEF MgSpec
<1> QED BY <1>3

\* The day's counts are the maps they stand for, what a page calls published is in the
\* store, a course reaches the store only after a review, and no two workers hold one
\* job, for any number of workers, jobs, days and failures, as long as a stale claim means
\* a dead worker (web/db.js mapgenSubmit, tools/mapgen/worker.py run_once).
THEOREM MapsAreSound == ~SlowWorkers /\ MgSpec => []MapgenSound
<1>1. ASSUME MgInv PROVE MapgenSound
  <2>1. ASSUME NEW j \in JobIds, jobs[j].source = "editor", NEW p \in store, p[1] = j PROVE jobs[j].reviewed
    <3>1. JobOk(jobs[j]) /\ jobs[j].status \notin {None, "review"} BY <1>1, <2>1 DEF MgInv
    <3> QED BY <2>1, <3>1 DEF JobOk
  <2>2. ReviewedFirst BY <2>1 DEF ReviewedFirst
  <2>3. QuotaExact /\ PackStored /\ OneWorker BY <1>1 DEF MgInv
  <2> QED BY <2>2, <2>3 DEF MapgenSound
<1>2. MgInv => MapgenSound BY <1>1
<1> QED BY <1>2, MgAlways, PTL

\* A map that is out stays out: no worker's late failure or claim reaches its row.
THEOREM PublishedStay == ~SlowWorkers /\ MgSpec => PublishedStays
<1>1. ASSUME MgInv, ~SlowWorkers, [MgNext]_mgVars
      PROVE  [\A j \in JobIds : jobs[j].status \in {"publishing", "published"} =>
                                jobs'[j].status \in {"publishing", "published"}]_mgVars
  <2> SUFFICES ASSUME NEW j \in JobIds, jobs[j].status \in {"publishing", "published"}
               PROVE  jobs'[j].status \in {"publishing", "published"}
    OBVIOUS
  <2>0. jobs \in [JobIds -> JobType] BY <1>1 DEF MgInv
  <2>1. ASSUME NEW w \in MgWorkers, NEW k \in JobIds, k = mgw[w].job, mgw[w].pc # "idle" PROVE k # j
    <3>1. jobs[k].status \in {"planning", "building"} BY <1>1, <2>1, HeldIs
    <3> QED BY <3>1
  <2>2. ASSUME NEW i \in Identities, NEW d \in {mgday - 1, mgday} \cap MgDays, PostMapgen(i, d) \/ PostMapgenSpec(i, d)
        PROVE  jobs'[j].status \in {"publishing", "published"}
    <3>1. PICK o \in {"describe", "editor"} : MapgenSubmit(i, o, d) BY <2>2 DEF PostMapgen, PostMapgenSpec
    <3>2. d \in MgDays OBVIOUS
    <3>3. jobs'[j].status = jobs[j].status BY <1>1, <3>1, <3>2, SubmitIs DEF None
    <3> QED BY <3>3
  <2>3. CASE MapgenSubmitAdmin
    <3>1. PICK n \in JobIds : NewJob(n) /\ jobs' = [jobs EXCEPT ![n] = [NoJob EXCEPT !.status = "queued", !.source = "describe"]]
      BY <2>3 DEF MapgenSubmitAdmin
    <3>2. n # j BY <3>1 DEF NewJob, Live, None
    <3> QED BY <2>0, <3>1, <3>2
  <2>4. ASSUME NEW k \in JobIds, MapgenApprove(k) \/ MapgenReject(k) PROVE jobs'[j].status \in {"publishing", "published"}
    <3>1. k # j BY <2>4 DEF MapgenApprove, MapgenReject
    <3>2. jobs'[j] = jobs[j] BY <2>0, <2>4, <3>1 DEF MapgenApprove, MapgenReject
    <3> QED BY <3>2
  <2>5. ASSUME NEW w \in MgWorkers, WorkerSteps(w) \/ PlanFails(w) \/ BuildFails(w) \/ WorkerDies(w)
        PROVE  jobs'[j].status \in {"publishing", "published"}
    <3>1. CASE RunOnce(w)
      <4>1. PICK re \in SUBSET {k \in JobIds : StaleJob(k)} :
              \E oldest \in {k \in JobIds : jobs[k].status = "queued"} \cup re :
                jobs' = [k \in JobIds |-> IF k = oldest THEN [jobs[k] EXCEPT !.status = "planning"]
                                          ELSE IF k \in re THEN [jobs[k] EXCEPT !.status = "queued"] ELSE jobs[k]]
        BY <3>1 DEF RunOnce
      <4>2. j \notin re BY DEF StaleJob
      <4>3. jobs'[j] = jobs[j] BY <4>1, <4>2
      <4> QED BY <4>3
    <3>2. CASE Built(w) \/ Published(w) \/ WorkerDies(w) BY <3>2 DEF Built, Published, WorkerDies
    <3>3. CASE Planned(w) \/ Committed(w) \/ PlanFails(w) \/ BuildFails(w) \/ PublishRefused(w)
      <4>1. mgw[w].pc # "idle" BY <3>3 DEF Planned, Committed, PlanFails, BuildFails, PublishRefused
      <4>2. PICK k \in JobIds : k = mgw[w].job BY <1>1, <4>1, HeldIs
      <4>3. k # j BY <2>1, <4>1, <4>2
      <4>4. jobs'[j] = jobs[j]
        <5>1. CASE Planned(w)
          <6>1. PICK n \in {1, 2} : jobs' = [jobs EXCEPT ![k].status = "building", ![k].name = n]
            BY <4>2, <5>1 DEF Planned
          <6> QED BY <2>0, <4>3, <6>1
        <5>2. CASE Committed(w) BY <2>0, <4>2, <4>3, <5>2 DEF Committed
        <5>3. CASE PlanFails(w) \/ BuildFails(w) \/ PublishRefused(w)
          <6>1. PICK g \in BOOLEAN : jobs' = [jobs EXCEPT ![k].status = "failed", ![k].back = g]
            BY <4>2, <5>3 DEF PlanFails, BuildFails, PublishRefused, Fails
          <6> QED BY <2>0, <4>3, <6>1
        <5> QED BY <3>3, <5>1, <5>2, <5>3
      <4> QED BY <4>4
    <3> QED BY <2>5, <3>1, <3>2, <3>3 DEF WorkerSteps
  <2>6. ASSUME NEW s \in MgServers, MapgenSync(s) PROVE jobs'[j].status \in {"publishing", "published"}
    <3>1. PICK named \in SUBSET JobIds :
            jobs' = [k \in JobIds |-> IF k \in named THEN [jobs[k] EXCEPT !.status = "published"] ELSE jobs[k]]
      BY <2>6 DEF MapgenSync
    <3>2. jobs[j] \in JobType BY <2>0
    <3>3. CASE j \in named
      <4>1. jobs'[j] = [jobs[j] EXCEPT !.status = "published"] BY <3>1, <3>3
      <4>2. "published" \in JobStatus BY DEF JobStatus
      <4> QED BY <3>2, <4>1, <4>2, JobStatusWith
    <3>4. CASE j \notin named BY <3>1, <3>4
    <3> QED BY <3>3, <3>4
  <2>7. CASE MgMidnight BY <2>7 DEF MgMidnight
  <2>8. CASE UNCHANGED mgVars BY <2>8 DEF mgVars
  <2> QED BY <1>1, <2>2, <2>3, <2>4, <2>5, <2>6, <2>7, <2>8 DEF MgNext
<1>2. ASSUME ~SlowWorkers PROVE MgSpec => PublishedStays
  <2>1. MgInv /\ [MgNext]_mgVars =>
          [\A j \in JobIds : jobs[j].status \in {"publishing", "published"} =>
                             jobs'[j].status \in {"publishing", "published"}]_mgVars
    BY <1>1, <1>2
  <2>2. MgSpec => []MgInv BY <1>2, MgAlways
  <2> QED BY <2>1, <2>2, PTL DEF MgSpec, PublishedStays
<1> QED BY <1>2

-----------------------------------------------------------------------------
(* Achievements: what a step makes of one replica's record.                *)

EvalType ==
  [pend : SUBSET AchPlayers, timer : BOOLEAN, run : {"idle", "ids", "award", "gate", "claim", "field", "sweep"},
   again : BOOLEAN, todo : SUBSET AchPlayers, now : AchDays, defs : BOOLEAN, memo : Int, told : SUBSET AchPlayers]

\* The parts of the invariant that are about one replica: its type, its day,
\* and the pass that its queue has to come.
EvalInv(s, d) == s \in EvalType /\ s.now <= d /\ (s.pend # {} => s.timer \/ s.again)

\* Whom a replica still owes an evaluation.
InHand(s) == s.told \cup s.pend \cup (IF s.run \in {"ids", "award"} THEN s.todo ELSE {})

\* A new process has only the evaluation of its boot to come.
LEMMA FreshIsSound ==
  ASSUME AchAssumption, NEW d \in Nat PROVE EvalInv(FreshEval, d) /\ FreshEval \in EvalType
<1>1. 0 \in AchDays /\ -1 \in Int BY AchAssumption DEF AchDays
<1>2. IdleEval \in EvalType BY <1>1 DEF IdleEval, EvalType
<1>3. IdleEval.pend = {} /\ IdleEval.now = 0 BY DEF IdleEval
<1>4. FreshEval \in EvalType /\ FreshEval.pend = {} /\ FreshEval.now = 0
  BY <1>2, <1>3 DEF FreshEval, EvalType
<1> QED BY <1>4 DEF EvalInv

\* The finally of a pass keeps the queue and gives it a timer.
LEMMA DoneKeeps ==
  ASSUME AchAssumption, achday \in AchDays, NEW s \in EvalType, EvalInv(s, achday)
  PROVE  EvalInv(EvalDone(s), achday) /\ InHand(EvalDone(s)) = s.told \cup s.pend
<1> DEFINE t == [s EXCEPT !.run = "idle", !.again = FALSE, !.todo = {}, !.now = 0, !.defs = FALSE]
<1>1. /\ t \in EvalType /\ t.run = "idle" /\ t.told = s.told /\ t.pend = s.pend /\ t.now = 0
      /\ t.timer = s.timer
  <2>1. 0 \in AchDays BY AchAssumption DEF AchDays
  <2> QED BY <2>1 DEF EvalType
<1>2. EvalDone(s) = IF s.again THEN [t EXCEPT !.timer = TRUE] ELSE t
  BY DEF EvalDone, ScheduleAchievementEval
<1> HIDE DEF t
<1>3. [t EXCEPT !.timer = TRUE] \in EvalType /\ [t EXCEPT !.timer = TRUE].timer = TRUE
      /\ [t EXCEPT !.timer = TRUE].told = t.told /\ [t EXCEPT !.timer = TRUE].pend = t.pend
      /\ [t EXCEPT !.timer = TRUE].run = t.run /\ [t EXCEPT !.timer = TRUE].now = t.now
  BY <1>1 DEF EvalType
<1> QED BY <1>1, <1>2, <1>3, AchAssumption DEF EvalInv, InHand, AchDays

\* A day remembered, and a pass over the whole field.
LEMMA RememberKeeps ==
  ASSUME NEW s \in EvalType, EvalInv(s, achday), AchAssumption
  PROVE  /\ Remember(s) \in EvalType /\ EvalInv(Remember(s), achday)
         /\ Remember(s).told = s.told /\ Remember(s).pend = s.pend /\ Remember(s).run = s.run
BY DEF EvalInv, EvalType, Remember, AchDays

\* A claim turns the pass to the whole field, and takes nobody out of its hands.
LEMMA FieldKeeps ==
  ASSUME NEW s \in EvalType, EvalInv(s, achday)
  PROVE  EvalInv(WholeField(s), achday) /\ InHand(WholeField(s)) = s.told \cup s.pend
<1>1. /\ WholeField(s) \in EvalType /\ WholeField(s).told = s.told /\ WholeField(s).pend = s.pend
      /\ WholeField(s).run = "field" /\ WholeField(s).now = s.now
      /\ WholeField(s).timer = s.timer /\ WholeField(s).again = s.again
  BY DEF WholeField, EvalType
<1> QED BY <1>1 DEF EvalInv, InHand

\* The gate of the daily pass ends it or goes on to the claim.
LEMMA SweepGateKeeps ==
  ASSUME AchAssumption, achday \in AchDays, NEW s \in EvalType, EvalInv(s, achday)
  PROVE  EvalInv(Gate(s), achday) /\ InHand(Gate(s)) = s.told \cup s.pend
<1> DEFINE t == [s EXCEPT !.run = "claim"]
<1>1. EvalInv(t, achday) /\ InHand(t) = s.told \cup s.pend
  <2>1. /\ t \in EvalType /\ t.told = s.told /\ t.pend = s.pend /\ t.run = "claim" /\ t.now = s.now
        /\ t.timer = s.timer /\ t.again = s.again
    BY DEF EvalType
  <2> QED BY <2>1 DEF EvalInv, InHand
<1>2. EvalInv(EvalDone(s), achday) /\ InHand(EvalDone(s)) = s.told \cup s.pend BY DoneKeeps
<1>3. EvalInv(EvalDone(Remember(s)), achday) /\ InHand(EvalDone(Remember(s))) = s.told \cup s.pend
  BY RememberKeeps, DoneKeeps
<1> QED BY <1>1, <1>2, <1>3 DEF Gate

\* A pass of ids that is over, awarded or failed, has let its players go.
LEMMA ToGateKeeps ==
  ASSUME achday \in AchDays, AchAssumption, NEW s \in EvalType, EvalInv(s, achday)
  PROVE  EvalInv(ToGate(s), achday) /\ InHand(ToGate(s)) = s.told \cup s.pend
<1>1. /\ ToGate(s) \in EvalType /\ ToGate(s).told = s.told /\ ToGate(s).pend = s.pend
      /\ ToGate(s).run = "gate" /\ ToGate(s).now = achday
      /\ ToGate(s).timer = s.timer /\ ToGate(s).again = s.again
  BY DEF ToGate, EvalType
<1> QED BY <1>1, AchAssumption DEF EvalInv, InHand, AchDays

\* A player told of is queued, with a timer.
LEMMA QueuedKeeps ==
  ASSUME NEW s \in EvalType, EvalInv(s, achday), NEW p \in s.told
  PROVE  LET t == ScheduleAchievementEval(Queued(s, p)) IN EvalInv(t, achday) /\ InHand(t) = InHand(s)
<1> DEFINE u == Queued(s, p)
           t == ScheduleAchievementEval(u)
<1>1. /\ u \in EvalType /\ u.told = s.told \ {p} /\ u.pend = s.pend \cup {p}
      /\ u.run = s.run /\ u.now = s.now /\ u.todo = s.todo
  BY DEF Queued, EvalType
<1> HIDE DEF u
<1>2. /\ t \in EvalType /\ t.told = u.told /\ t.pend = u.pend /\ t.timer = TRUE
      /\ t.run = u.run /\ t.now = u.now /\ t.todo = u.todo
  BY <1>1 DEF ScheduleAchievementEval, EvalType
<1> HIDE DEF t
<1>3. EvalInv(t, achday) BY <1>1, <1>2 DEF EvalInv
<1>4. InHand(t) = InHand(s) BY <1>1, <1>2 DEF InHand
<1> QED BY <1>3, <1>4 DEF t, u

\* The timer moves the queue into the pass, or asks for another one.
LEMMA FiredKeeps ==
  ASSUME achday \in AchDays, AchAssumption, NEW s \in EvalType, EvalInv(s, achday)
  PROVE  EvalInv(Fired(s), achday) /\ InHand(Fired(s)) = InHand(s)
<1>1. CASE s.run # "idle"
  <2> DEFINE t == [s EXCEPT !.timer = FALSE, !.again = TRUE]
  <2>1. /\ t \in EvalType /\ t.told = s.told /\ t.pend = s.pend /\ t.run = s.run /\ t.now = s.now
        /\ t.todo = s.todo /\ t.again = TRUE
    BY DEF EvalType
  <2>2. Fired(s) = t BY <1>1 DEF Fired
  <2> HIDE DEF t
  <2> QED BY <2>1, <2>2 DEF EvalInv, InHand
<1>2. CASE s.run = "idle"
  <2> DEFINE t == [s EXCEPT !.timer = FALSE, !.run = "ids", !.todo = s.pend, !.pend = {}, !.now = achday]
  <2>1. /\ t \in EvalType /\ t.told = s.told /\ t.pend = {} /\ t.run = "ids" /\ t.now = achday
        /\ t.todo = s.pend
    BY DEF EvalType
  <2>2. Fired(s) = t BY <1>2 DEF Fired
  <2> HIDE DEF t
  <2>3. achday <= achday BY AchAssumption DEF AchDays
  <2>4. EvalInv(t, achday) BY <2>1, <2>3 DEF EvalInv
  <2>5. InHand(t) = s.told \cup s.pend BY <2>1 DEF InHand
  <2>6. InHand(s) = s.told \cup s.pend BY <1>2 DEF InHand
  <2> QED BY <2>2, <2>4, <2>5, <2>6
<1> QED BY <1>1, <1>2

\* The clock and the claims of the days, and the invariant by replicas.
Claims ==
  /\ achday \in AchDays /\ sweepday \in -1..achday /\ sweeps \in [AchDays -> Nat] /\ lateclaim \in BOOLEAN
  /\ SweepOnce
  /\ lateclaim \/ \A d \in AchDays : sweeps[d] > 0 => d <= sweepday
\* A player a replica or a refused sender still owes for.
InSomeHand(p) == p \in resend \/ \E r \in AchReplicas : p \in InHand(ach[r])
AchParts ==
  /\ Claims /\ AwardEarned /\ resend \subseteq AchPlayers
  /\ ach \in [AchReplicas -> EvalType] /\ \A r \in AchReplicas : EvalInv(ach[r], achday)
  /\ \A f \in fin \ (awards \cup missed) : InSomeHand(f[1])

\* The two say the same.
LEMMA AchByReplica == AchInv <=> AchParts
<1>1. AwardOwed <=> \A f \in fin \ (awards \cup missed) : InSomeHand(f[1])
  BY DEF AwardOwed, InHand, InSomeHand
<1>2. ach \in [AchReplicas -> EvalType] =>
        (PendingScheduled /\ (\A r \in AchReplicas : ach[r].now <= achday)
           <=> \A r \in AchReplicas : EvalInv(ach[r], achday))
  BY DEF PendingScheduled, EvalInv
<1>3. AchTypeOK <=> /\ achday \in AchDays /\ sweepday \in -1..achday /\ sweeps \in [AchDays -> Nat]
                    /\ lateclaim \in BOOLEAN /\ resend \subseteq AchPlayers /\ ach \in [AchReplicas -> EvalType]
  BY DEF AchTypeOK, EvalType
<1> QED BY <1>1, <1>2, <1>3 DEF AchInv, AchSound, AchParts, Claims

\* A step of one replica that does not claim a day.
LEMMA OneEvaluates ==
  ASSUME AchParts, NEW r \in AchReplicas, NEW t, EvalInv(t, achday), ach' = [ach EXCEPT ![r] = t],
         UNCHANGED <<achday, sweepday, sweeps, lateclaim>>, AwardEarned', resend' \subseteq AchPlayers,
         \A p \in resend : p \in resend' \/ p \in InHand(t),
         \A f \in fin' \ (awards' \cup missed') :
           f[1] \in InHand(t) \/ f[1] \in resend' \/ (f \in fin \ (awards \cup missed) /\ f[1] \notin InHand(ach[r]))
  PROVE  AchParts'
<1>1. t \in EvalType BY DEF EvalInv
<1>2. ach \in [AchReplicas -> EvalType] /\ \A q \in AchReplicas : EvalInv(ach[q], achday)
  BY DEF AchParts
<1>3. \A f \in fin \ (awards \cup missed) : InSomeHand(f[1])
  BY DEF AchParts
<1>4. ach' \in [AchReplicas -> EvalType] BY <1>1, <1>2
<1>5. ach'[r] = t /\ \A q \in AchReplicas : q # r => ach'[q] = ach[q] BY <1>2
<1>6. \A q \in AchReplicas : EvalInv(ach'[q], achday) BY <1>2, <1>5
<1>7. ASSUME NEW f \in fin' \ (awards' \cup missed') PROVE InSomeHand(f[1])'
  <2>1. CASE f[1] \in InHand(t) BY <2>1, <1>5 DEF InSomeHand
  <2>3. CASE f[1] \in resend' BY <2>3 DEF InSomeHand
  <2>2. CASE f \in fin \ (awards \cup missed) /\ f[1] \notin InHand(ach[r])
    <3>1. CASE f[1] \in resend BY <3>1, <2>1, <2>3
    <3>2. CASE f[1] \notin resend
      <4>1. PICK q \in AchReplicas : f[1] \in InHand(ach[q]) BY <2>2, <3>2, <1>3 DEF InSomeHand
      <4>2. ach'[q] = ach[q] BY <2>2, <4>1, <1>5
      <4> QED BY <4>1, <4>2 DEF InSomeHand
    <3> QED BY <3>1, <3>2
  <2> QED BY <2>1, <2>2, <2>3
<1>8. Claims' BY DEF AchParts, Claims, SweepOnce
<1>9. \A f \in fin' \ (awards' \cup missed') : InSomeHand(f[1])'
  BY <1>7
<1>10. \A q \in AchReplicas : EvalInv(ach'[q], achday') BY <1>6
<1> QED BY <1>4, <1>8, <1>9, <1>10 DEF AchParts

\* ... that leaves the tables alone, and the players in its hands.
LEMMA OneMoves ==
  ASSUME AchParts, NEW r \in AchReplicas, NEW t, EvalInv(t, achday), ach' = [ach EXCEPT ![r] = t],
         UNCHANGED <<achday, sweepday, sweeps, lateclaim, resend, fin, awards, missed>>,
         InHand(ach[r]) \subseteq InHand(t)
  PROVE  AchParts'
<1>1. AwardEarned' BY DEF AchParts, AwardEarned
<1>2. \A f \in fin' \ (awards' \cup missed') :
        f[1] \in InHand(t) \/ f[1] \in resend' \/ (f \in fin \ (awards \cup missed) /\ f[1] \notin InHand(ach[r]))
  OBVIOUS
<1>3. resend' \subseteq AchPlayers BY DEF AchParts
<1> QED BY <1>1, <1>2, <1>3, OneEvaluates

\* Every step keeps it.
LEMMA AchKeeps ==
  ASSUME AchAssumption, AchParts, [AchNext]_achVars PROVE AchParts'
<1>a. /\ achday \in AchDays /\ achday \in Nat /\ AwardEarned /\ resend \subseteq AchPlayers
      /\ ach \in [AchReplicas -> EvalType] /\ \A r \in AchReplicas : EvalInv(ach[r], achday)
  BY AchAssumption DEF AchParts, Claims, AchDays
<1>b. \A f \in fin \ (awards \cup missed) : InSomeHand(f[1])
  BY DEF AchParts
<1>1. ASSUME NEW r \in AchReplicas, NEW p \in AchPlayers, FinishCommits(r, p) \/ FinishResent(r, p) PROVE AchParts'
  <2> DEFINE t == [ach[r] EXCEPT !.told = ach[r].told \cup {p}]
  <2>1. /\ t \in EvalType /\ t.told = ach[r].told \cup {p} /\ t.pend = ach[r].pend /\ t.run = ach[r].run
        /\ t.todo = ach[r].todo /\ t.now = ach[r].now /\ t.timer = ach[r].timer /\ t.again = ach[r].again
    BY <1>a DEF EvalType
  <2>0. Commits(r, p) /\ resend \ {p} \subseteq resend' /\ resend' \subseteq AchPlayers
    BY <1>1, <1>a DEF FinishCommits, FinishResent
  <2>2. ach' = [ach EXCEPT ![r] = t] BY <2>0, <1>a DEF Commits
  <2> HIDE DEF t
  <2>3. EvalInv(t, achday) BY <2>1, <1>a DEF EvalInv
  <2>4. InHand(t) = InHand(ach[r]) \cup {p} BY <2>1 DEF InHand
  <2>5. fin' = fin \cup {<<p, achday>>} /\ UNCHANGED <<achday, awards, sweepday, sweeps, lateclaim, missed>>
    BY <2>0 DEF Commits
  <2>6. AwardEarned' BY <1>a, <2>5 DEF AwardEarned
  <2>7. \A f \in fin' \ (awards' \cup missed') :
          f[1] \in InHand(t) \/ (f \in fin \ (awards \cup missed) /\ f[1] \notin InHand(ach[r]))
    BY <2>4, <2>5
  <2>8. \A x \in resend : x \in resend' \/ x \in InHand(t) BY <2>0, <2>4
  <2> QED BY <2>0, <2>2, <2>3, <2>5, <2>6, <2>7, <2>8, OneEvaluates
\* A refused report is its sender's again, or its finish is lost and said so.
<1>18. ASSUME NEW r \in AchReplicas, NEW p \in AchPlayers, FinishRefused(r, p) PROVE AchParts'
  <2> DEFINE t == [ach[r] EXCEPT !.told = ach[r].told \ {p}]
  <2>1. /\ t \in EvalType /\ t.told = ach[r].told \ {p} /\ t.pend = ach[r].pend /\ t.run = ach[r].run
        /\ t.todo = ach[r].todo /\ t.now = ach[r].now /\ t.timer = ach[r].timer /\ t.again = ach[r].again
    BY <1>a DEF EvalType
  <2>2. ach' = [ach EXCEPT ![r] = t] BY <1>18, <1>a DEF FinishRefused
  <2> HIDE DEF t
  <2>3. EvalInv(t, achday) BY <2>1, <1>a DEF EvalInv
  <2>4. InHand(ach[r]) \subseteq InHand(t) \cup {p} BY <2>1 DEF InHand
  <2>5. UNCHANGED <<achday, fin, awards, sweepday, sweeps, lateclaim>>
        /\ \/ resend' = resend \cup {p} /\ UNCHANGED missed
           \/ missed' = missed \cup Owed({p}) /\ UNCHANGED resend
    BY <1>18 DEF FinishRefused
  <2>6. AwardEarned' BY <1>a, <2>5 DEF AwardEarned
  <2>7. \A f \in fin' \ (awards' \cup missed') :
          f[1] \in InHand(t) \/ f[1] \in resend' \/ (f \in fin \ (awards \cup missed) /\ f[1] \notin InHand(ach[r]))
    BY <2>4, <2>5 DEF Owed
  <2>8. resend' \subseteq AchPlayers /\ resend \subseteq resend' BY <1>a, <2>5
  <2> QED BY <2>2, <2>3, <2>5, <2>6, <2>7, <2>8, OneEvaluates
<1>2. ASSUME NEW r \in AchReplicas, NEW p \in AchPlayers, FinishQueued(r, p) PROVE AchParts'
  <2> DEFINE t == ScheduleAchievementEval(Queued(ach[r], p))
  <2>1. EvalInv(t, achday) /\ InHand(t) = InHand(ach[r]) BY <1>2, <1>a, QueuedKeeps DEF FinishQueued
  <2>2. ach' = [ach EXCEPT ![r] = t]
        /\ UNCHANGED <<achday, fin, awards, sweepday, sweeps, lateclaim, resend, missed>>
    BY <1>2 DEF FinishQueued
  <2> HIDE DEF t
  <2> QED BY <2>1, <2>2, OneMoves
<1>3. ASSUME NEW r \in AchReplicas, DoAchievementEval(r) PROVE AchParts'
  <2>1. EvalInv(Fired(ach[r]), achday) /\ InHand(Fired(ach[r])) = InHand(ach[r]) BY <1>a, FiredKeeps
  <2>2. ach' = [ach EXCEPT ![r] = Fired(ach[r])]
        /\ UNCHANGED <<achday, fin, awards, sweepday, sweeps, lateclaim, resend, missed>>
    BY <1>3 DEF DoAchievementEval
  <2> QED BY <2>1, <2>2, OneMoves
<1>4. ASSUME NEW r \in AchReplicas, NEW from, NEW to, <<from, to>> \in {<<"ids", "award">>, <<"field", "sweep">>},
             ReadDefinitions(r, from, to)
      PROVE AchParts'
  <2> DEFINE t == [ach[r] EXCEPT !.run = to, !.defs = (adef = "on")]
  <2>1. /\ t \in EvalType /\ t.told = ach[r].told /\ t.pend = ach[r].pend /\ t.run = to
        /\ t.todo = ach[r].todo /\ t.now = ach[r].now /\ t.timer = ach[r].timer /\ t.again = ach[r].again
    BY <1>4, <1>a DEF EvalType
  <2>2. ach' = [ach EXCEPT ![r] = t] /\ ach[r].run = from
        /\ UNCHANGED <<achday, fin, awards, sweepday, sweeps, lateclaim, resend, missed>>
    BY <1>4, <1>a DEF ReadDefinitions, EvalType
  <2> HIDE DEF t
  <2>3. EvalInv(t, achday) BY <2>1, <1>a DEF EvalInv
  <2>4. InHand(t) = InHand(ach[r]) BY <2>1, <2>2, <1>4 DEF InHand
  <2> QED BY <2>2, <2>3, <2>4, OneMoves
\* The pass of ids settles what it took, and so does its failure.
<1>5. ASSUME NEW r \in AchReplicas, Evaluate(r, "award", ToGate(ach[r])) PROVE AchParts'
  <2>1. EvalInv(ToGate(ach[r]), achday) /\ InHand(ToGate(ach[r])) = ach[r].told \cup ach[r].pend
    BY <1>a, ToGateKeeps
  <2>2. /\ ach' = [ach EXCEPT ![r] = ToGate(ach[r])] /\ ach[r].run = "award"
        /\ awards' = awards \cup Earned(ach[r])
        /\ missed' = missed \cup (Owed(ach[r].todo) \ Earned(ach[r]))
        /\ UNCHANGED <<achday, fin, sweepday, sweeps, lateclaim, resend>>
    BY <1>5 DEF Evaluate
  <2>3. Earned(ach[r]) \subseteq fin BY DEF Earned
  <2>4. AwardEarned' BY <1>a, <2>2, <2>3 DEF AwardEarned
  <2>5. InHand(ach[r]) = ach[r].told \cup ach[r].pend \cup ach[r].todo BY <2>2 DEF InHand
  <2>6. \A f \in fin' \ (awards' \cup missed') : f \in fin \ (awards \cup missed) /\ f[1] \notin ach[r].todo
    BY <2>2 DEF Owed
  <2> QED BY <1>a, <2>1, <2>2, <2>4, <2>5, <2>6, OneEvaluates
<1>6. ASSUME NEW r \in AchReplicas, EvaluateIdsFails(r) PROVE AchParts'
  <2>1. EvalInv(ToGate(ach[r]), achday) /\ InHand(ToGate(ach[r])) = ach[r].told \cup ach[r].pend
    BY <1>a, ToGateKeeps
  <2>2. /\ ach' = [ach EXCEPT ![r] = ToGate(ach[r])] /\ ach[r].run \in {"ids", "award"}
        /\ missed' = missed \cup Owed(ach[r].todo)
        /\ UNCHANGED <<achday, fin, awards, sweepday, sweeps, lateclaim, resend>>
    BY <1>6 DEF EvaluateIdsFails
  <2>4. AwardEarned' BY <1>a, <2>2 DEF AwardEarned
  <2>5. InHand(ach[r]) = ach[r].told \cup ach[r].pend \cup ach[r].todo BY <2>2 DEF InHand
  <2>6. \A f \in fin' \ (awards' \cup missed') : f \in fin \ (awards \cup missed) /\ f[1] \notin ach[r].todo
    BY <2>2 DEF Owed
  <2> QED BY <1>a, <2>1, <2>2, <2>4, <2>5, <2>6, OneEvaluates
<1>7. ASSUME NEW r \in AchReplicas, SweepGate(r) PROVE AchParts'
  <2>1. EvalInv(Gate(ach[r]), achday) /\ InHand(Gate(ach[r])) = ach[r].told \cup ach[r].pend
    BY <1>a, SweepGateKeeps
  <2>2. /\ ach' = [ach EXCEPT ![r] = Gate(ach[r])] /\ ach[r].run = "gate"
        /\ UNCHANGED <<achday, fin, awards, sweepday, sweeps, lateclaim, resend, missed>>
    BY <1>7 DEF SweepGate
  <2>3. InHand(ach[r]) = ach[r].told \cup ach[r].pend BY <2>2 DEF InHand
  <2> QED BY <2>1, <2>2, <2>3, OneMoves
<1>9. ASSUME NEW r \in AchReplicas, Evaluate(r, "sweep", EvalDone(ach[r])) PROVE AchParts'
  <2>1. EvalInv(EvalDone(ach[r]), achday) /\ InHand(EvalDone(ach[r])) = ach[r].told \cup ach[r].pend
    BY <1>a, DoneKeeps
  <2>2. /\ ach' = [ach EXCEPT ![r] = EvalDone(ach[r])] /\ ach[r].run = "sweep"
        /\ awards' = awards \cup Earned(ach[r]) /\ missed' = missed
        /\ UNCHANGED <<achday, fin, sweepday, sweeps, lateclaim, resend>>
    BY <1>9 DEF Evaluate
  <2>3. Earned(ach[r]) \subseteq fin BY DEF Earned
  <2>4. AwardEarned' BY <1>a, <2>2, <2>3 DEF AwardEarned
  <2>5. InHand(ach[r]) = ach[r].told \cup ach[r].pend BY <2>2 DEF InHand
  <2>6. \A f \in fin' \ (awards' \cup missed') : f \in fin \ (awards \cup missed)
    BY <2>2
  <2> QED BY <1>a, <2>1, <2>2, <2>4, <2>5, <2>6, OneEvaluates
<1>10. ASSUME NEW r \in AchReplicas, SweepFails(r) PROVE AchParts'
  <2>1. EvalInv(EvalDone(ach[r]), achday) /\ InHand(EvalDone(ach[r])) = ach[r].told \cup ach[r].pend
    BY <1>a, DoneKeeps
  <2>2. /\ ach' = [ach EXCEPT ![r] = EvalDone(ach[r])] /\ ach[r].run \in {"gate", "claim", "field", "sweep"}
        /\ UNCHANGED <<achday, fin, awards, sweepday, sweeps, lateclaim, resend, missed>>
    BY <1>10 DEF SweepFails
  <2>3. InHand(ach[r]) = ach[r].told \cup ach[r].pend BY <2>2 DEF InHand
  <2> QED BY <2>1, <2>2, <2>3, OneMoves
\* What dies with a process is lost, and said so, or sent again.
<1>11. ASSUME NEW r \in AchReplicas, EvalCrash(r) PROVE AchParts'
  <2>1. EvalInv(FreshEval, achday) BY <1>a, AchAssumption, FreshIsSound
  <2>0. PICK gone \in SUBSET ach[r].told :
          /\ missed' = missed \cup Owed(gone \cup ach[r].pend \cup
                                        (IF ach[r].run \in {"ids", "award"} THEN ach[r].todo ELSE {}))
          /\ resend' = resend \cup (ach[r].told \ gone)
    BY <1>11 DEF EvalCrash
  <2>2. /\ ach' = [ach EXCEPT ![r] = FreshEval]
        /\ UNCHANGED <<achday, fin, awards, sweepday, sweeps, lateclaim>>
    BY <1>11 DEF EvalCrash
  <2>3. AwardEarned' BY <1>a, <2>2 DEF AwardEarned
  <2>4. \A f \in fin' \ (awards' \cup missed') :
          f[1] \in resend' \/ (f \in fin \ (awards \cup missed) /\ f[1] \notin InHand(ach[r]))
    BY <2>0, <2>2 DEF Owed, InHand
  <2>5. resend' \subseteq AchPlayers /\ resend \subseteq resend'
    <3>1. ach[r].told \subseteq AchPlayers BY <1>a DEF EvalType
    <3> QED BY <1>a, <2>0, <3>1
  <2> QED BY <2>1, <2>2, <2>3, <2>4, <2>5, OneEvaluates
\* A claim: the day is not the one on record, so it is a later one, or it is over.
<1>8. ASSUME NEW r \in AchReplicas, SweepClaim(r) PROVE AchParts'
  <2> DEFINE d == ach[r].now
             s == Remember(ach[r])
  <2>1. /\ EvalInv(s, achday) /\ s \in EvalType /\ s.told = ach[r].told /\ s.pend = ach[r].pend
    BY <1>a, RememberKeeps
  <2>2. /\ EvalInv(EvalDone(s), achday) /\ InHand(EvalDone(s)) = s.told \cup s.pend
        /\ EvalInv(WholeField(s), achday) /\ InHand(WholeField(s)) = s.told \cup s.pend
    BY <1>a, <2>1, DoneKeeps, FieldKeeps
  <2>3. ach[r].run = "claim" /\ UNCHANGED <<achday, fin, awards, missed, resend>> BY <1>8 DEF SweepClaim
  <2>4. InHand(ach[r]) = s.told \cup s.pend BY <2>1, <2>3 DEF InHand
  <2>5. CASE sweepday = d
    <3>1. ach' = [ach EXCEPT ![r] = EvalDone(s)] /\ UNCHANGED <<sweepday, sweeps, lateclaim>>
      BY <1>8, <2>5 DEF SweepClaim
    <3> HIDE DEF s
    <3> QED BY <2>2, <2>3, <2>4, <3>1, OneMoves
  <2>6. CASE sweepday # d
    <3>1. /\ ach' = [ach EXCEPT ![r] = WholeField(s)] /\ sweepday' = d
          /\ sweeps' = [sweeps EXCEPT ![d] = sweeps[d] + 1] /\ lateclaim' = (lateclaim \/ d < achday)
      BY <1>8, <2>6 DEF SweepClaim
    <3>2. d \in AchDays /\ d <= achday /\ d \in Nat BY <1>a, AchAssumption DEF EvalInv, EvalType, AchDays
    <3> HIDE DEF s, d
    <3>3. Claims BY DEF AchParts
    <3>4. Claims'
      <4>1. /\ achday' \in AchDays /\ sweepday' \in -1..achday' /\ sweeps' \in [AchDays -> Nat]
            /\ lateclaim' \in BOOLEAN
        BY <2>3, <3>1, <3>2, <3>3, AchAssumption DEF Claims, AchDays
      <4>2. ASSUME ~lateclaim', NEW e \in AchDays
            PROVE  sweeps'[e] <= 1 /\ (sweeps'[e] > 0 => e <= sweepday')
        <5>0. ~lateclaim /\ ~(d < achday)
          <6>1. lateclaim' = (lateclaim \/ d < achday) BY <3>1
          <6> QED BY <6>1, <4>2, Zenon
        <5>1. d = achday /\ ~lateclaim
          <6>1. d = achday BY <5>0, <3>2, <1>a
          <6> QED BY <6>1, <5>0
        <5>2. sweepday < d BY <5>1, <2>6, <3>3, <1>a DEF Claims
        <5>3. /\ sweeps \in [AchDays -> Nat] /\ sweepday \in Int /\ sweeps[e] <= 1
              /\ (sweeps[e] > 0 => e <= sweepday) /\ (sweeps[d] > 0 => d <= sweepday)
          BY <5>1, <3>2, <3>3, <1>a DEF Claims, SweepOnce, AchDays
        <5>4. CASE e = d
          <6>1. sweeps[d] = 0 BY <5>2, <5>3, <3>2
          <6> QED BY <6>1, <5>4, <5>3, <3>1, <3>2
        <5>5. CASE e # d
          <6>1. sweeps'[e] = sweeps[e] BY <5>5, <5>3, <3>1
          <6>2. e \in Int BY AchAssumption DEF AchDays
          <6> QED BY <6>1, <6>2, <5>2, <5>3, <3>1, <3>2
        <5> QED BY <5>4, <5>5
      <4> QED BY <4>1, <4>2 DEF Claims, SweepOnce
    <3>5. WholeField(s) \in EvalType BY <2>2 DEF EvalInv
    <3>6. ach' \in [AchReplicas -> EvalType] BY <1>a, <3>1, <3>5
    <3>7. ach'[r] = WholeField(s) /\ \A q \in AchReplicas : q # r => ach'[q] = ach[q] BY <1>a, <3>1
    <3>8. \A q \in AchReplicas : EvalInv(ach'[q], achday') BY <1>a, <2>2, <2>3, <3>7
    <3>9. ASSUME NEW q \in AchReplicas PROVE InHand(ach'[q]) = InHand(ach[q])
      BY <2>2, <2>4, <3>7
    <3>10. \A f \in fin' \ (awards' \cup missed') : InSomeHand(f[1])'
      BY <1>b, <2>3, <3>9 DEF InSomeHand
    <3>11. AwardEarned' BY <1>a, <2>3 DEF AwardEarned
    <3> QED BY <1>a, <2>3, <3>4, <3>6, <3>8, <3>10, <3>11 DEF AchParts
  <2> QED BY <2>5, <2>6
\* What is not a replica's doing.
<1>12. CASE UNCHANGED <<achday, fin, sweepday, sweeps, lateclaim, resend, ach>> /\ awards' \subseteq awards
            /\ missed' = missed \cup (awards \ awards')
  <2>1. Claims' BY <1>12 DEF AchParts, Claims, SweepOnce
  <2>2. AwardEarned' BY <1>a, <1>12 DEF AwardEarned
  <2>3. fin' \ (awards' \cup missed') \subseteq fin \ (awards \cup missed) BY <1>12
  <2>4. \A f \in fin' \ (awards' \cup missed') : InSomeHand(f[1])'
    BY <1>12, <1>b, <2>3 DEF InSomeHand
  <2> QED BY <1>12, <1>a, <2>1, <2>2, <2>4 DEF AchParts
<1>13. CASE EditDefinition BY <1>12, <1>13 DEF EditDefinition
<1>14. ASSUME NEW f \in awards, RevokeAward(f) PROVE AchParts'
  <2>1. awards \ awards' = {f} /\ awards' \subseteq awards BY <1>14 DEF RevokeAward
  <2>2. missed' = missed \cup {f} /\ UNCHANGED <<achday, fin, sweepday, sweeps, lateclaim, resend, ach>>
    BY <1>14 DEF RevokeAward
  <2> QED BY <1>12, <2>1, <2>2
<1>15. CASE AchMidnight
  <2>1. /\ achday' = achday + 1 /\ achday < MaxAchDay
        /\ UNCHANGED <<fin, awards, sweepday, sweeps, lateclaim, resend, missed, ach>>
    BY <1>15 DEF AchMidnight
  <2>2. Claims' BY <1>a, <2>1, AchAssumption DEF AchParts, Claims, SweepOnce, AchDays
  <2>3. \A q \in AchReplicas : EvalInv(ach'[q], achday')
    <3>1. \A q \in AchReplicas : ach[q].now \in Int BY <1>a, AchAssumption DEF EvalType, AchDays
    <3> QED BY <1>a, <2>1, <3>1 DEF EvalInv
  <2>4. AwardEarned' BY <1>a, <2>1 DEF AwardEarned
  <2> QED BY <1>a, <1>b, <2>1, <2>2, <2>3, <2>4 DEF AchParts, InSomeHand
<1>16. CASE UNCHANGED achVars BY <1>12, <1>16 DEF achVars
<1>17. ASSUME NEW r \in AchReplicas, EvalSteps(r) PROVE AchParts'
  <2>1. ASSUME EvaluateIds(r) PROVE AchParts'
    BY <2>1, <1>4, <1>5 DEF EvaluateIds
  <2>2. ASSUME EvaluateField(r) PROVE AchParts'
    BY <2>2, <1>4, <1>9 DEF EvaluateField
  <2> QED BY <1>1, <1>2, <1>3, <1>7, <1>8, <1>17, <2>1, <2>2 DEF EvalSteps
<1> QED BY <1>1, <1>6, <1>18, <1>10, <1>11, <1>13, <1>14, <1>15, <1>16, <1>17 DEF AchNext

\* Every finish is awarded, in some replica's hands or known to be missed; a
\* queued player has a pass to come; no day's full pass starts twice unless a
\* claim outlived its day; and no award is without a finish of its period.
THEOREM AwardsAreOwed == AchSpec => []AchSound
<1>1. AchInit => AchInv
  <2> SUFFICES ASSUME AchInit PROVE AchInv OBVIOUS
  <2>1. 0 \in AchDays /\ -1 \in -1..0 BY AchAssumption DEF AchDays
  <2>2. Claims
    <3>1. sweeps \in [AchDays -> Nat] /\ \A d \in AchDays : sweeps[d] = 0 BY DEF AchInit
    <3>2. achday = 0 /\ sweepday = -1 /\ lateclaim = FALSE BY DEF AchInit
    <3>3. \A d \in AchDays : sweeps[d] <= 1 /\ ~(sweeps[d] > 0) BY <3>1
    <3> QED BY <2>1, <3>1, <3>2, <3>3 DEF Claims, SweepOnce
  <2>3. EvalInv(FreshEval, 0) BY AchAssumption, FreshIsSound
  <2>4. FreshEval \in EvalType BY AchAssumption, FreshIsSound
  <2>5. achday = 0 /\ ach = [r \in AchReplicas |-> FreshEval] /\ fin = {} /\ awards = {} /\ resend = {} BY DEF AchInit
  <2>6. AchParts BY <2>2, <2>3, <2>4, <2>5 DEF AchParts, AwardEarned
  <2> QED BY <2>6, AchByReplica
<1>2. AchParts /\ [AchNext]_achVars => AchParts' BY AchKeeps, AchAssumption
<1>3. AchInv => AchSound BY DEF AchInv
<1> QED BY <1>1, <1>2, <1>3, AchByReplica, PTL DEF AchSpec

-----------------------------------------------------------------------------
(* AwardRules: numbers.                                                    *)

\* A finite set of numbers that is not empty has a greatest one.
LEMMA GreatestIs ==
  ASSUME NEW S, IsFiniteSet(S), S \subseteq Nat, S # {}
  PROVE  Max(S) \in S /\ \A y \in S : y <= Max(S)
<1> DEFINE Topped(T) == \E x \in T : \A y \in T : y <= x
           C == {T \in SUBSET S : T # {} /\ ~(\E x \in T : \A y \in T : y <= x)}
<1>1. C = {}
  <2> SUFFICES ASSUME C # {} PROVE FALSE OBVIOUS
  <2>1. PICK T \in C : \A R \in C : R \subseteq T => R = T
    <3>1. C \in SUBSET (SUBSET S) /\ C # {} OBVIOUS
    <3>2. IsFiniteSet(S) OBVIOUS
    <3> HIDE DEF C
    <3> QED BY ONLY <3>1, <3>2, LeastSet
  <2>2. T \in SUBSET S /\ T # {} /\ ~Topped(T) OBVIOUS
  <2>3. PICK t \in T : TRUE BY <2>2
  <2> DEFINE R == T \ {t}
  <2>4. CASE R = {}
    <3>1. T = {t} /\ t \in Nat BY <2>2, <2>3, <2>4
    <3> QED BY <2>2, <3>1
  <2>5. CASE R # {}
    <3>1. R \in SUBSET S /\ R \subseteq T /\ R # T BY <2>2, <2>3
    <3>2. R \notin C BY <2>1, <3>1
    <3>3. Topped(R) BY <2>5, <3>1, <3>2
    <3>4. PICK x \in R : \A y \in R : y <= x BY <3>3
    <3>5. x \in Nat /\ t \in Nat /\ \A y \in T : y \in R \/ y = t BY <2>2, <2>3
    <3>6. CASE t <= x BY <2>2, <3>4, <3>5, <3>6
    <3>7. CASE x <= t
      <4>1. \A y \in T : y <= t
        <5>1. ASSUME NEW y \in R PROVE y <= t
          <6>1. y \in Nat /\ y <= x BY <2>2, <3>4
          <6> QED BY <6>1, <3>5, <3>7
        <5> QED BY <3>5, <5>1
      <4> QED BY <2>2, <2>3, <4>1
    <3> QED BY <3>5, <3>6, <3>7
  <2> QED BY <2>4, <2>5
<1>2. Topped(S) BY <1>1
<1> QED BY <1>2 DEF Max

\* Any set of numbers that is not empty has a least one.
LEMMA LeastIs ==
  ASSUME NEW S \in SUBSET Nat, S # {}
  PROVE  Min(S) \in S /\ \A y \in S : Min(S) <= y
<1>1. \E x \in S : \A y \in S : x <= y BY LeastNat
<1> QED BY <1>1 DEF Min

-----------------------------------------------------------------------------
(* AwardRules: gaps and islands.                                           *)

\* Days with the same distance to their row number have no gap between them.
LEMMA NoGap ==
  ASSUME NEW n \in Nat, NEW D \in SUBSET (0..n), NEW d \in D, NEW e \in D, d <= e
  PROVE  LET rowNumber(x) == Cardinality({y \in D : y <= x})
         IN /\ rowNumber(d) \in Nat /\ rowNumber(e) \in Nat
            /\ d - rowNumber(d) = e - rowNumber(e) <=> d..e \subseteq D
<1> DEFINE rowNumber(x) == Cardinality({y \in D : y <= x})
           A == {y \in D : y <= d}
           B == D \cap ((d + 1)..e)
           E == {y \in D : y <= e}
<1>0. d \in Nat /\ e \in Nat /\ \A x \in D : x \in Nat OBVIOUS
<1>1. IsFiniteSet(D)
  <2>1. IsFiniteSet(0..n) BY FS_Interval
  <2> QED BY <2>1, FS_Subset
<1>2. IsFiniteSet(A) /\ IsFiniteSet(B) /\ IsFiniteSet(E) BY <1>1, FS_Subset
<1>3. E = A \cup B /\ A \cap B = {}
  <2>1. ASSUME NEW x \in E PROVE x \in A \cup B
    <3>1. x \in Nat /\ x <= e /\ (x <= d \/ d + 1 <= x) BY <1>0
    <3> QED BY <1>0, <3>1
  <2>2. ASSUME NEW x \in B PROVE x \in E /\ x \notin A BY <1>0
  <2>3. ASSUME NEW x \in A PROVE x \in E
    <3>1. x \in Nat /\ x <= d BY <1>0
    <3> QED BY <1>0, <3>1
  <2> HIDE DEF A, B, E
  <2> QED BY <2>1, <2>2, <2>3
<1>4. Cardinality(A) \in Nat /\ Cardinality(B) \in Nat /\ Cardinality(E) \in Nat
  BY <1>2, FS_CardinalityType
<1>5. Cardinality(E) = Cardinality(A) + Cardinality(B)
  <2>1. Cardinality(A \cap B) = 0 BY <1>3, FS_EmptySet
  <2>2. Cardinality(A \cup B) = Cardinality(A) + Cardinality(B) - Cardinality(A \cap B) BY <1>2, FS_Union
  <2> HIDE DEF A, B, E
  <2> QED BY <1>3, <1>4, <2>1, <2>2
<1>6. IsFiniteSet((d + 1)..e) /\ Cardinality((d + 1)..e) = e - d
  <2>1. d + 1 \in Int /\ e \in Int BY <1>0
  <2>2. IsFiniteSet((d + 1)..e) /\ Cardinality((d + 1)..e) = IF d + 1 > e THEN 0 ELSE e - (d + 1) + 1
    BY <2>1, FS_Interval
  <2> QED BY <1>0, <2>2
<1>7. Cardinality(B) = e - d <=> B = (d + 1)..e
  <2>1. B \in SUBSET ((d + 1)..e) OBVIOUS
  <2> HIDE DEF B
  <2> QED BY <1>6, <2>1, FS_Subset
<1>8. B = (d + 1)..e <=> d..e \subseteq D
  <2>1. ASSUME B = (d + 1)..e PROVE d..e \subseteq D
    <3>1. \A x \in d..e : x = d \/ x \in (d + 1)..e BY <1>0
    <3> QED BY <2>1, <3>1
  <2>2. ASSUME d..e \subseteq D PROVE B = (d + 1)..e
    <3>1. \A x \in (d + 1)..e : x \in d..e BY <1>0
    <3> QED BY <2>2, <3>1
  <2> QED BY <2>1, <2>2
<1>9. rowNumber(d) = Cardinality(A) /\ rowNumber(e) = Cardinality(E) OBVIOUS
<1>10. d - rowNumber(d) = e - rowNumber(e) <=> Cardinality(B) = e - d
  <2> HIDE DEF A, B, E, rowNumber
  <2> QED BY <1>0, <1>4, <1>5, <1>9
<1> HIDE DEF B
<1>11. d - rowNumber(d) = e - rowNumber(e) <=> d..e \subseteq D BY <1>7, <1>8, <1>10
<1> QED BY <1>4, <1>9, <1>11

\* The island of a day.
IslandOf(D, e) ==
  {d \in D : d - Cardinality({y \in D : y <= d}) = e - Cardinality({y \in D : y <= e})}

\* The islands are those of the days.
LEMMA IslandsAre == ASSUME NEW D PROVE Islands(D) = {IslandOf(D, e) : e \in D}
BY DEF Islands, IslandOf

\* An island is a run of consecutive days, and has the runs its day is the first of.
LEMMA IslandIsRun ==
  ASSUME NEW n \in Nat, NEW D \in SUBSET (0..n), NEW e \in D
  PROVE  LET I == IslandOf(D, e)
         IN /\ I # {} /\ I \subseteq D /\ Cardinality(I) \in Nat \ {0}
            /\ \E a \in D : a..(a + Cardinality(I) - 1) \subseteq D
            /\ \A k \in Nat : e..(e + k - 1) \subseteq D => k <= Cardinality(I)
<1> DEFINE I == IslandOf(D, e)
           key(x) == x - Cardinality({y \in D : y <= x})
<1>0. \A x \in D : x \in Nat OBVIOUS
<1>1. \A d \in D : d \in I <=> key(d) = key(e) BY DEF IslandOf
<1>2. \A x, z \in D : x <= z => (key(x) = key(z) <=> x..z \subseteq D) BY NoGap
<1> HIDE DEF key
<1>3. e \in I /\ I \subseteq D BY <1>1 DEF IslandOf
<1>4. IsFiniteSet(I)
  <2>1. IsFiniteSet(0..n) BY FS_Interval
  <2> QED BY <1>3, <2>1, FS_Subset
<1> HIDE DEF I
<1>5. PICK a \in I : \A x \in I : a <= x
  <2>1. I \in SUBSET Nat /\ I # {} BY <1>0, <1>3
  <2> QED BY <2>1, LeastNat
<1>6. PICK b \in I : \A x \in I : x <= b
  <2>1. I \in SUBSET Nat /\ I # {} BY <1>0, <1>3
  <2>2. Max(I) \in I /\ \A x \in I : x <= Max(I) BY <1>4, <2>1, GreatestIs
  <2> QED BY <2>2
<1>7. a \in D /\ b \in D /\ a \in Nat /\ b \in Nat /\ a <= b /\ a..b \subseteq D
  <2>1. a \in D /\ b \in D /\ a <= b BY <1>3, <1>5, <1>6
  <2>2. key(a) = key(b) BY <1>1, <2>1
  <2> QED BY <1>0, <1>2, <2>1, <2>2
<1>8. I = a..b
  <2>1. ASSUME NEW x \in I PROVE x \in a..b
    <3>1. x \in Nat /\ a <= x /\ x <= b BY <1>0, <1>3, <1>5, <1>6
    <3> QED BY <1>7, <3>1
  <2>2. ASSUME NEW x \in a..b PROVE x \in I
    <3>1. x \in D /\ a <= x BY <1>7
    <3>2. \A y \in a..x : y \in a..b BY <1>7, <3>1
    <3>3. a..x \subseteq D BY <1>7, <3>2
    <3>4. key(a) = key(x) BY <1>2, <1>7, <3>1, <3>3
    <3>5. key(a) = key(e) BY <1>1, <1>7
    <3> QED BY <1>1, <3>1, <3>4, <3>5
  <2> QED BY <2>1, <2>2
<1>9. Cardinality(I) = b - a + 1
  <2>1. Cardinality(a..b) = IF a > b THEN 0 ELSE b - a + 1 BY <1>7, FS_Interval
  <2> QED BY <1>7, <1>8, <2>1
<1>10. a..(a + Cardinality(I) - 1) \subseteq D
  <2>1. a + Cardinality(I) - 1 = b BY <1>7, <1>9
  <2> QED BY <1>7, <2>1
<1>11. ASSUME NEW k \in Nat, e..(e + k - 1) \subseteq D PROVE k <= Cardinality(I)
  <2>1. CASE k = 0 BY <1>7, <1>9, <2>1
  <2>2. CASE k # 0
    <3> DEFINE z == e + k - 1
    <3>1. e \in Nat /\ z \in Nat /\ e <= z /\ z \in e..z BY <1>0, <2>2
    <3>2. z \in D BY <1>11, <3>1
    <3>3. key(e) = key(z) BY <1>2, <1>11, <3>1, <3>2
    <3>4. z \in I BY <1>1, <3>2, <3>3
    <3>5. a <= e /\ z <= b BY <1>3, <1>5, <1>6, <3>4
    <3> QED BY <1>7, <1>9, <3>1, <3>5
  <2> QED BY <2>1, <2>2
<1> QED BY <1>3, <1>7, <1>9, <1>10, <1>11 DEF I

\* So the largest island is the longest run.
LEMMA LargestIsland ==
  ASSUME NEW n \in Nat, NEW D \in SUBSET (0..n), D # {}
  PROVE  Most({Cardinality(i) : i \in Islands(D)}) = LongestRun(D) /\ LongestRun(D) \in Nat \ {0}
<1> DEFINE A == {Cardinality(i) : i \in Islands(D)}
           B == {0} \cup {k \in 1..Cardinality(D) : \E d \in D : d..(d + k - 1) \subseteq D}
<1>0. IsFiniteSet(D) /\ Cardinality(D) \in Nat /\ \A x \in D : x \in Nat
  <2>1. IsFiniteSet(0..n) BY FS_Interval
  <2>2. IsFiniteSet(D) BY <2>1, FS_Subset
  <2> QED BY <2>2, FS_CardinalityType
<1>1. A = {Cardinality(IslandOf(D, e)) : e \in D} BY IslandsAre
<1>2. LongestRun(D) = Max(B) BY DEF LongestRun
<1>3. Max(B) \in B /\ \A y \in B : y <= Max(B)
  <2>1. B \in SUBSET Nat /\ B # {} /\ B \in SUBSET (0..Cardinality(D)) BY <1>0
  <2>2. IsFiniteSet(0..Cardinality(D)) BY <1>0, FS_Interval
  <2>3. IsFiniteSet(B)
    <3> HIDE DEF B
    <3> QED BY <2>1, <2>2, FS_Subset
  <2> HIDE DEF B
  <2> QED BY <2>1, <2>3, GreatestIs
<1>4. A \subseteq B /\ A \subseteq Nat \ {0}
  <2> SUFFICES ASSUME NEW e \in D PROVE Cardinality(IslandOf(D, e)) \in B /\ Cardinality(IslandOf(D, e)) \in Nat \ {0}
    <3> HIDE DEF A, B
    <3> QED BY <1>1
  <2> DEFINE k == Cardinality(IslandOf(D, e))
  <2>1. /\ IslandOf(D, e) \subseteq D /\ k \in Nat \ {0}
        /\ \E a \in D : a..(a + k - 1) \subseteq D
    BY IslandIsRun
  <2>2. k <= Cardinality(D) BY <1>0, <2>1, FS_Subset
  <2>3. k \in 1..Cardinality(D) BY <1>0, <2>1, <2>2
  <2> HIDE DEF k
  <2>4. k \in B BY <2>1, <2>3
  <2> QED BY <2>1, <2>4 DEF k
<1>5. ASSUME NEW k \in B, k # 0 PROVE \E j \in A : k <= j
  <2>1. PICK d \in D : d..(d + k - 1) \subseteq D BY <1>5
  <2>2. k \in Nat BY <1>0, <1>5
  <2>3. k <= Cardinality(IslandOf(D, d)) BY <2>1, <2>2, IslandIsRun
  <2> QED BY <1>1, <2>3
<1>6. 1 \in B
  <2>1. PICK d \in D : TRUE OBVIOUS
  <2>2. d..(d + 1 - 1) \subseteq D BY <1>0, <2>1
  <2>3. Cardinality(D) # 0 BY <1>0, FS_EmptySet
  <2>4. 1 \in 1..Cardinality(D) BY <1>0, <2>3
  <2> QED BY <2>1, <2>2, <2>4
<1>7. B \subseteq Nat BY <1>0
<1> HIDE DEF A, B
<1>8. Max(B) \in Nat \ {0}
  <2>1. Max(B) \in Nat /\ 1 <= Max(B) BY <1>3, <1>6, <1>7
  <2> QED BY <2>1
<1>9. PICK j \in A : Max(B) <= j BY <1>3, <1>5, <1>8
<1>10. j = Max(B)
  <2>1. j \in Nat /\ j <= Max(B) BY <1>3, <1>4
  <2> QED BY <1>8, <1>9, <2>1
<1>11. \A y \in A : y <= Max(B) BY <1>3, <1>4
<1>12. Max(A) = Max(B)
  <2>1. Max(B) \in A /\ \A y \in A : Max(B) >= y BY <1>4, <1>7, <1>8, <1>9, <1>10, <1>11
  <2>2. Max(A) \in A /\ \A y \in A : Max(A) >= y BY <2>1 DEF Max
  <2>3. Max(A) \in Nat BY <1>4, <2>2
  <2>4. Max(A) >= Max(B) /\ Max(B) >= Max(A) BY <2>1, <2>2
  <2> QED BY <1>8, <2>3, <2>4
<1>13. A # {} BY <1>9
<1>14. Most(A) = Max(A) BY <1>13 DEF Most
<1> QED BY <1>2, <1>8, <1>12, <1>14 DEF A

-----------------------------------------------------------------------------
(* AwardRules: the bar and the award.                                      *)

\* The query of each kind.
LEMMA SqlIs ==
  ASSUME NEW def, NEW o
  PROVE  /\ def.kind = "distinct_maps_finished" => Sql(def, o) = distinct_maps_finished(def, o)
         /\ def.kind = "finishes" => Sql(def, o) = finishes(def, o)
         /\ def.kind \in {"attempts", "movement_total"} => Sql(def, o) = attempts(def, o)
         /\ def.kind \in {"strafe_quality_run", "max_speed_run", "start_speed_run"} =>
              Sql(def, o) = strafe_quality_run(def, o)
         /\ def.kind = "strafe_quality_avg" => Sql(def, o) = strafe_quality_avg(def, o)
         /\ def.kind = "world_records" => Sql(def, o) = world_records(def, o)
         /\ def.kind = "global_rank" => Sql(def, o) = global_rank(def, o)
         /\ def.kind = "map_rank" => Sql(def, o) = map_rank(def, o)
         /\ def.kind = "map_category_finished" => Sql(def, o) = map_category_finished(def, o)
         /\ def.kind = "map_time" => Sql(def, o) = map_time(def, o)
         /\ def.kind = "pb_attempts" => Sql(def, o) = pb_attempts(def, o)
         /\ def.kind = "play_streak" => Sql(def, o) = play_streak(def, o)
         /\ def.kind = "dedication" => Sql(def, o) = dedication(def, o)
BY DEF Sql, movement_total, max_speed_run, start_speed_run

\* The players of some rows, and whether one of them has reached a target.
LEMMA RowsHave ==
  ASSUME NEW val, NEW X, NEW R, R = {[player |-> g, value |-> val[g]] : g \in X}
  PROVE  /\ \A r \in R : r.player \in X /\ r.value = val[r.player]
         /\ \A g \in X : \E r \in R : r.player = g
<1> DEFINE row(g) == [player |-> g, value |-> val[g]]
<1>1. \A g : row(g).player = g /\ row(g).value = val[g] OBVIOUS
<1>2. R = {row(g) : g \in X} OBVIOUS
<1> HIDE DEF row
<1>3. (\A g \in X : row(g) \in R) /\ \A r \in R : \E g \in X : r = row(g) BY <1>2
<1>4. \A r \in R : r.player \in X /\ r.value = val[r.player] BY <1>1, <1>3
<1>5. \A g \in X : \E r \in R : r.player = g BY <1>1, <1>3
<1> QED BY <1>4, <1>5

\* Whom a query returns, its value and its gate given.
Shown(o, val, gat) == {h \in o.ids : val[h] # Unknown /\ (o.progress \/ h \in gat)}
RowsOf(o, val, gat) == {[player |-> g, value |-> val[g]] : g \in Shown(o, val, gat)}

\* The bar tells the truth if value and gate agree on who has reached the target.
LEMMA BarOf ==
  ASSUME NEW def, NEW val, NEW gat,
         \A o : o.ids \subseteq Groups => Sql(def, o) = RowsOf(o, val, gat),
         \A g \in Groups : val[g] # Unknown =>
           /\ g \in gat => Reached(def, val[g])
           /\ Reached(def, val[g]) /\ def.kind # "strafe_quality_avg" => g \in gat
  PROVE  BarHonest(def)
<1> DEFINE all == {r.player : r \in qualifyQuery(def, Groups)}
           one(g) == {r.player : r \in qualifyQuery(def, {g})}
           full(g) == \E r \in progressQuery(def, g) : Reached(def, r.value)
           X(ids) == {h \in ids : val[h] # Unknown /\ h \in gat}
           Y(g) == {h \in {g} : val[h] # Unknown}
<1>1. \A ids \in SUBSET Groups : {r.player : r \in qualifyQuery(def, ids)} = X(ids)
  <2> TAKE ids \in SUBSET Groups
  <2> DEFINE o == [progress |-> FALSE, ids |-> ids]
  <2>1. qualifyQuery(def, ids) = RowsOf(o, val, gat) BY DEF qualifyQuery
  <2>2. Shown(o, val, gat) = X(ids) BY DEF Shown
  <2>3. qualifyQuery(def, ids) = {[player |-> g, value |-> val[g]] : g \in X(ids)} BY <2>1, <2>2 DEF RowsOf
  <2> HIDE DEF X
  <2>4. /\ \A r \in qualifyQuery(def, ids) : r.player \in X(ids)
        /\ \A g \in X(ids) : \E r \in qualifyQuery(def, ids) : r.player = g
    BY ONLY <2>3, RowsHave
  <2> QED BY <2>4
<1>2. \A g \in Groups : full(g) <=> \E h \in Y(g) : Reached(def, val[h])
  <2> TAKE g \in Groups
  <2> DEFINE o == [progress |-> TRUE, ids |-> {g}]
  <2>1. progressQuery(def, g) = RowsOf(o, val, gat) BY DEF progressQuery
  <2>2. Shown(o, val, gat) = Y(g) BY DEF Shown
  <2>3. progressQuery(def, g) = {[player |-> h, value |-> val[h]] : h \in Y(g)} BY <2>1, <2>2 DEF RowsOf
  <2> HIDE DEF Y
  <2>4. /\ \A r \in progressQuery(def, g) : r.player \in Y(g) /\ r.value = val[r.player]
        /\ \A h \in Y(g) : \E r \in progressQuery(def, g) : r.player = h
    BY <2>3, RowsHave
  <2> QED BY <2>4
<1>3. all = X(Groups) /\ \A g \in Groups : one(g) = X({g})
  <2>1. Groups \in SUBSET Groups /\ \A g \in Groups : {g} \in SUBSET Groups OBVIOUS
  <2> HIDE DEF X
  <2> QED BY <1>1, <2>1
<1> HIDE DEF all, one, full
<1>4. ASSUME NEW g \in Groups
      PROVE  /\ g \in all => full(g)
             /\ full(g) /\ def.kind # "strafe_quality_avg" => g \in all
             /\ one(g) = {g} \cap all
  BY <1>2, <1>3
<1> QED BY <1>4 DEF BarHonest, all, one, full

\* Kinds that gate by the value they show.
LEMMA BarsUp ==
  ASSUME NEW def, def.kind \in {"distinct_maps_finished", "finishes", "attempts", "movement_total",
                                "map_category_finished", "play_streak", "dedication"}
  PROVE  BarHonest(def)
<1> DEFINE up(val) == {g \in Groups : val[g] >= def.min}
<1>a. ASSUME NEW val, \A o : o.ids \subseteq Groups => Sql(def, o) = RowsOf(o, val, up(val))
      PROVE  BarHonest(def)
  <2>1. \A g \in Groups : g \in up(val) <=> Reached(def, val[g]) BY DEF Reached, BetterLow
  <2> HIDE DEF up
  <2> QED BY <1>a, <2>1, BarOf
<1>1. CASE def.kind = "finishes"
  <2> DEFINE val == [g \in Groups |-> Counted(IF def.win = "lifetime" THEN Counter(g)
                                       ELSE Cardinality(Log(g, windowSince(def.win))))]
  <2>1. \A o : o.ids \subseteq Groups => finishes(def, o) = RowsOf(o, val, up(val))
    BY DEF finishes, Rows, RowsOf, Shown
  <2> HIDE DEF val
  <2> QED BY <1>a, <1>1, <2>1, SqlIs
<1>2. CASE def.kind \in {"attempts", "movement_total"}
  <2> DEFINE val == [g \in Groups |-> Counted(Counter(g))]
  <2>1. \A o : o.ids \subseteq Groups => attempts(def, o) = RowsOf(o, val, up(val))
    BY DEF attempts, Rows, RowsOf, Shown
  <2> HIDE DEF val
  <2> QED BY <1>a, <1>2, <2>1, SqlIs
<1>3. CASE def.kind = "distinct_maps_finished"
  <2> DEFINE since == windowSince(def.win)
             maps(g) == IF def.win = "lifetime" THEN best(g)
                        ELSE IF def.newOnly THEN newMaps(g, since)
                        ELSE {f.map : f \in Log(g, since)}
             val == [g \in Groups |-> Counted(Cardinality(maps(g)))]
  <2>1. \A o : o.ids \subseteq Groups => distinct_maps_finished(def, o) = RowsOf(o, val, up(val))
    BY DEF distinct_maps_finished, Rows, RowsOf, Shown
  <2> HIDE DEF val
  <2> QED BY <1>a, <1>3, <2>1, SqlIs
<1>4. CASE def.kind = "map_category_finished"
  <2> DEFINE val == [g \in Groups |-> Counted(Cardinality(best(g) \cap RuleStrafe))]
  <2>1. \A o : o.ids \subseteq Groups => map_category_finished(def, o) = RowsOf(o, val, up(val))
    BY DEF map_category_finished, Rows, RowsOf, Shown
  <2> HIDE DEF val
  <2> QED BY <1>a, <1>4, <2>1, SqlIs
<1>5. CASE def.kind = "play_streak"
  <2> DEFINE val == [g \in Groups |-> Most({Cardinality(i) : i \in Islands(ActiveDays(g, 0))})]
  <2>1. \A o : o.ids \subseteq Groups => play_streak(def, o) = RowsOf(o, val, up(val))
    BY DEF play_streak, Rows, RowsOf, Shown
  <2> HIDE DEF val
  <2> QED BY <1>a, <1>5, <2>1, SqlIs
<1>6. CASE def.kind = "dedication"
  <2> DEFINE val == [g \in Groups |-> Counted(Cardinality(ActiveDays(g, windowSince(def.win))))]
  <2>1. \A o : o.ids \subseteq Groups => dedication(def, o) = RowsOf(o, val, up(val))
    BY DEF dedication, Rows, RowsOf, Shown
  <2> HIDE DEF val
  <2> QED BY <1>a, <1>6, <2>1, SqlIs
<1> QED BY <1>1, <1>2, <1>3, <1>4, <1>5, <1>6

\* Records and ranks, which gate by the value they show to whoever has a best time.
LEMMA BarsOfRanks ==
  ASSUME NEW def, def.kind \in {"world_records", "global_rank"}
  PROVE  BarHonest(def)
<1>1. CASE def.kind = "world_records"
  <2> DEFINE val == [g \in Groups |-> IF best(g) = {} THEN Unknown ELSE records(g)]
             gat == {g \in Groups : records(g) >= def.min}
  <2>1. \A o : o.ids \subseteq Groups => world_records(def, o) = RowsOf(o, val, gat)
    BY DEF world_records, Rows, RowsOf, Shown
  <2>2. \A g \in Groups : val[g] # Unknown => (g \in gat <=> Reached(def, val[g]))
    BY <1>1 DEF Reached, BetterLow
  <2> HIDE DEF val, gat
  <2> QED BY <1>1, <2>1, <2>2, SqlIs, BarOf
<1>2. CASE def.kind = "global_rank"
  <2> DEFINE val == [g \in Groups |-> IF best(g) = {} THEN Unknown ELSE globalRank(g)]
             gat == {g \in Groups : globalRank(g) <= def.min}
  <2>1. \A o : o.ids \subseteq Groups => global_rank(def, o) = RowsOf(o, val, gat)
    BY DEF global_rank, Rows, RowsOf, Shown
  <2>2. \A g \in Groups : val[g] # Unknown => (g \in gat <=> Reached(def, val[g]))
    BY <1>2 DEF Reached, BetterLow
  <2> HIDE DEF val, gat
  <2> QED BY <1>2, <2>1, <2>2, SqlIs, BarOf
<1> QED BY <1>1, <1>2

\* The least of some numbers is within a limit exactly if one of them is.
LEMMA LeastWithin ==
  ASSUME NEW S, S \subseteq Nat, NEW n \in Nat
  PROVE  Least(S) # Unknown => (Least(S) <= n <=> \E k \in S : k <= n)
<1>1. CASE S = {} BY <1>1 DEF Least
<1>2. CASE S # {}
  <2>1. Min(S) \in S /\ \A y \in S : Min(S) <= y BY <1>2, LeastIs
  <2>2. ASSUME NEW k \in S, k <= n PROVE Min(S) <= n
    <3>1. k \in Nat /\ Min(S) \in Nat /\ Min(S) <= k BY <2>1
    <3> QED BY <2>2, <3>1
  <2> QED BY <1>2, <2>1, <2>2 DEF Least
<1> QED BY <1>1, <1>2

\* The greatest of some numbers is over a limit exactly if one of them is.
LEMMA MostOver ==
  ASSUME NEW S, IsFiniteSet(S), S \subseteq Nat, NEW n \in Nat
  PROVE  Most(S) # Unknown => (Most(S) >= n <=> \E k \in S : k >= n)
<1>1. CASE S = {} BY <1>1 DEF Most
<1>2. CASE S # {}
  <2>1. Max(S) \in S /\ \A y \in S : y <= Max(S) BY <1>2, GreatestIs
  <2>2. ASSUME NEW k \in S, k >= n PROVE Max(S) >= n
    <3>1. k \in Nat /\ Max(S) \in Nat /\ k <= Max(S) BY <2>1
    <3> QED BY <2>2, <3>1
  <2> QED BY <1>2, <2>1, <2>2 DEF Most
<1> QED BY <1>1, <1>2

\* What the rules read is finite: players, days, ranks, measures, attempts.
LEMMA RulesRead ==
  ASSUME RulesInv
  PROVE  /\ IsFiniteSet(Groups) /\ Groups \subseteq RulePlayers
         /\ \A g, m : bestRank(g, m) \in Nat
         /\ \A g, since : /\ Log(g, since) \subseteq finish /\ IsFiniteSet(Log(g, since))
                          /\ IsFiniteSet({f.q : f \in Log(g, since)}) /\ {f.q : f \in Log(g, since)} \subseteq Nat
                          /\ ActiveDays(g, since) \subseteq 0..rday
<1>1. IsFiniteSet(RulePlayers) /\ Measures \subseteq Nat BY AwardRulesAssumption
<1>2. group \in [RulePlayers -> RulePlayers] /\ IsFiniteSet(finish)
      /\ finish \subseteq [p : RulePlayers, map : RuleMaps, q : Measures, day : 0..rday]
  BY DEF RulesInv
<1>3. Groups \in SUBSET RulePlayers BY <1>2 DEF Groups
<1>4. IsFiniteSet(Groups) BY <1>1, <1>3, FS_Subset
<1>5. ASSUME NEW g, NEW m PROVE bestRank(g, m) \in Nat
  <2> DEFINE S == {h \in Groups : BestTime(h, m) # 0 /\ BestTime(h, m) < BestTime(g, m)}
  <2>1. S \in SUBSET Groups OBVIOUS
  <2>2. IsFiniteSet(S) BY <1>4, <2>1, FS_Subset
  <2> HIDE DEF S
  <2>3. Cardinality(S) \in Nat BY <2>2, FS_CardinalityType
  <2> QED BY <2>3 DEF bestRank, S
<1>6. ASSUME NEW g, NEW since
      PROVE  /\ Log(g, since) \subseteq finish /\ IsFiniteSet(Log(g, since))
             /\ IsFiniteSet({f.q : f \in Log(g, since)}) /\ {f.q : f \in Log(g, since)} \subseteq Nat
             /\ ActiveDays(g, since) \subseteq 0..rday
  <2> DEFINE L == Log(g, since)
             T == {f.q : f \in L}
             q == [f \in L |-> f.q]
  <2>1. L \in SUBSET finish BY DEF Log
  <2>2. IsFiniteSet(L) BY <1>2, <2>1, FS_Subset
  <2>3. \A f \in L : f.q \in Nat /\ f.day \in 0..rday BY <1>1, <1>2, <2>1
  <2>4. q \in Surjection(L, T)
    <3> HIDE DEF L
    <3> QED BY DEF Surjection
  <2> HIDE DEF L
  <2>5. IsFiniteSet(T)
    <3> HIDE DEF q, T
    <3> QED BY <2>2, <2>4, FS_Surjection
  <2>6. T \subseteq Nat BY <2>3
  <2>7. ActiveDays(g, since) \subseteq 0..rday BY <2>3 DEF ActiveDays, L
  <2> QED BY <2>1, <2>2, <2>5, <2>6, <2>7 DEF L
<1> QED BY <1>3, <1>4, <1>5, <1>6

\* Kinds that count downwards.
LEMMA BarsDown ==
  ASSUME RulesInv, NEW def, def.kind \in {"map_rank", "map_time", "pb_attempts"}, def.min \in Nat,
         def.maps \subseteq RuleMaps
  PROVE  BarHonest(def)
<1>0. Groups \subseteq RulePlayers BY RulesRead
<1>a. \A p \in RulePlayers, m \in RuleMaps : race[p][m].time \in Nat /\ race[p][m].attempts \in Nat \cup {Unknown}
  <2>1. \A p \in RulePlayers, m \in RuleMaps : race[p][m] \in BestRow \cup {NoRace} BY DEF RulesInv
  <2> QED BY <2>1 DEF BestRow, NoRace, Unknown
<1>1. CASE def.kind = "map_rank"
  <2> DEFINE ranks(g) == {bestRank(g, m) : m \in best(g) \cap def.maps}
             val == [g \in Groups |-> Least(ranks(g))]
             gat == {g \in Groups : \E k \in ranks(g) : k <= def.min}
  <2>1. \A o : o.ids \subseteq Groups => map_rank(def, o) = RowsOf(o, val, gat)
    BY DEF map_rank, Rows, RowsOf, Shown
  <2>2. \A g \in Groups : ranks(g) \subseteq Nat BY RulesRead
  <2> HIDE DEF ranks
  <2>3. \A g \in Groups : val[g] # Unknown => (g \in gat <=> Reached(def, val[g]))
    BY <1>1, <2>2, LeastWithin DEF Reached, BetterLow
  <2> HIDE DEF val, gat
  <2> QED BY <1>1, <2>1, <2>3, SqlIs, BarOf
<1>2. CASE def.kind = "map_time"
  <2> DEFINE times(g) == (UNION {{race[p][m].time : p \in Members(g)} : m \in def.maps}) \ {0}
             val == [g \in Groups |-> Least(times(g))]
             gat == {g \in Groups : \E k \in times(g) : k <= def.min}
  <2>1. \A o : o.ids \subseteq Groups => map_time(def, o) = RowsOf(o, val, gat)
    BY DEF map_time, Rows, RowsOf, Shown
  <2>2. \A g \in Groups : times(g) \subseteq Nat
    <3>1. ASSUME NEW g, NEW m \in def.maps, NEW p \in Members(g) PROVE race[p][m].time \in Nat
      BY <1>a DEF Members
    <3> QED BY <3>1
  <2> HIDE DEF times
  <2>3. \A g \in Groups : val[g] # Unknown => (g \in gat <=> Reached(def, val[g]))
    BY <1>2, <2>2, LeastWithin DEF Reached, BetterLow
  <2> HIDE DEF val, gat
  <2> QED BY <1>2, <2>1, <2>3, SqlIs, BarOf
<1>3. CASE def.kind = "pb_attempts"
  <2> DEFINE tries(g) == {r.attempts : r \in Races(g)} \ {Unknown}
             val == [g \in Groups |-> Least(tries(g))]
             gat == {g \in Groups : \E k \in tries(g) : k <= def.min}
  <2>1. \A o : o.ids \subseteq Groups => pb_attempts(def, o) = RowsOf(o, val, gat)
    BY DEF pb_attempts, Rows, RowsOf, Shown
  <2>2. \A g \in Groups : tries(g) \subseteq Nat
    <3>1. ASSUME NEW g, NEW r \in Races(g) PROVE r.attempts \in Nat \cup {Unknown}
      BY <1>a DEF Races, Members
    <3> QED BY <3>1
  <2> HIDE DEF tries
  <2>3. \A g \in Groups : val[g] # Unknown => (g \in gat <=> Reached(def, val[g]))
    BY <1>3, <2>2, LeastWithin DEF Reached, BetterLow
  <2> HIDE DEF val, gat
  <2> QED BY <1>3, <2>1, <2>3, SqlIs, BarOf
<1> QED BY <1>1, <1>2, <1>3

\* The best single run.
LEMMA BarsOfRuns ==
  ASSUME RulesInv, NEW def, def.kind \in {"strafe_quality_run", "max_speed_run", "start_speed_run"}, def.min \in Nat
  PROVE  BarHonest(def)
<1> DEFINE marks(g) == {f.q : f \in Log(g, 0)}
           val == [g \in Groups |-> Most(marks(g))]
           gat == {g \in Groups : \E k \in marks(g) : k >= def.min}
<1>1. \A o : o.ids \subseteq Groups => strafe_quality_run(def, o) = RowsOf(o, val, gat)
  BY DEF strafe_quality_run, Rows, RowsOf, Shown
<1>2. \A g \in Groups : IsFiniteSet(marks(g)) /\ marks(g) \subseteq Nat BY RulesRead
<1> HIDE DEF marks
<1>3. \A g \in Groups : val[g] # Unknown => (g \in gat <=> Reached(def, val[g]))
  BY <1>2, MostOver DEF Reached, BetterLow
<1> HIDE DEF val, gat
<1> QED BY <1>1, <1>3, SqlIs, BarOf

\* The average, for a target of two.
LEMMA BarOfAverage ==
  ASSUME RulesInv, NEW def, def.kind = "strafe_quality_avg", def.min = 2
  PROVE  BarHonest(def)
<1> DEFINE log(g) == Log(g, windowSince(def.win))
           sum(g) == SumFunctionOnSet([f \in finish |-> f.q], log(g))
           n(g) == Cardinality(log(g))
           val == [g \in Groups |-> IF n(g) = 0 THEN Unknown ELSE (2 * sum(g) + n(g)) \div (2 * n(g))]
           gat == {g \in Groups : n(g) >= def.runs /\ sum(g) >= def.min * n(g)}
<1>1. \A o : o.ids \subseteq Groups => strafe_quality_avg(def, o) = RowsOf(o, val, gat)
  BY DEF strafe_quality_avg, Rows, RowsOf, Shown
<1>2. \A g \in Groups : sum(g) \in Nat /\ n(g) \in Nat
  <2> SUFFICES ASSUME NEW g \in Groups PROVE sum(g) \in Nat /\ n(g) \in Nat OBVIOUS
  <2>1. log(g) \subseteq finish /\ IsFiniteSet(log(g)) BY RulesRead
  <2>2. \A f \in finish : f.q \in Nat BY AwardRulesAssumption DEF RulesInv
  <2> HIDE DEF log
  <2>3. \A f \in log(g) : [x \in finish |-> x.q][f] \in Nat BY <2>1, <2>2
  <2> QED BY <2>1, <2>3, SumNat, FS_CardinalityType
<1> HIDE DEF sum, n
<1>3. ASSUME NEW g \in Groups, val[g] # Unknown, g \in gat PROVE Reached(def, val[g])
  <2>1. n(g) # 0 /\ sum(g) >= 2 * n(g) BY <1>3
  <2>2. sum(g) \in Nat /\ n(g) \in Nat \ {0} BY <1>2, <2>1
  <2> DEFINE v == (2 * sum(g) + n(g)) \div (2 * n(g))
  <2>3. \A a \in Nat, b \in Nat \ {0} : a >= 2 * b => a \div b >= 2
    <3> SUFFICES ASSUME NEW a \in Nat, NEW b \in Nat \ {0}, a >= 2 * b, ~(a \div b >= 2) PROVE FALSE OBVIOUS
    <3>1. a = b * (a \div b) + (a % b) /\ a % b \in 0..(b - 1) /\ a \div b \in Int OBVIOUS
    <3>2. a \div b <= 1 BY <3>1
    <3>3. b * (a \div b) <= b BY <3>1, <3>2
    <3> QED BY <3>1, <3>3
  <2>4. 2 * sum(g) + n(g) \in Nat /\ 2 * n(g) \in Nat \ {0} /\ 2 * sum(g) + n(g) >= 2 * (2 * n(g))
    BY <2>1, <2>2
  <2>5. v >= 2 BY <2>3, <2>4
  <2>6. val[g] = v BY <2>1
  <2> QED BY <2>5, <2>6 DEF Reached, BetterLow
<1> HIDE DEF val, gat
<1> QED BY <1>1, <1>3, SqlIs, BarOf

\* Every bar an admin can make tells the truth.
LEMMA BarsHonest == RulesInv => ProgressHonest
<1> SUFFICES ASSUME RulesInv, NEW def \in Definitions PROVE BarHonest(def) BY DEF ProgressHonest
<1>1. /\ def.min \in {1, 2} /\ def.maps \subseteq RuleMaps
      /\ def.kind = "strafe_quality_avg" => def.min = 2
      /\ def.kind \in {"distinct_maps_finished", "finishes", "attempts", "movement_total", "strafe_quality_run",
           "max_speed_run", "start_speed_run", "strafe_quality_avg", "map_category_finished", "play_streak",
           "world_records", "global_rank", "map_rank", "map_time", "pb_attempts", "dedication"}
  BY DEF Definitions
<1> QED BY <1>1, BarsUp, BarsOfRanks, BarsDown, BarsOfRuns, BarOfAverage

\* Consecutive days are counted exactly.
LEMMA StreaksExact == RulesInv => StreakExact
<1> SUFFICES ASSUME RulesInv, NEW g \in Groups, ActiveDays(g, 0) # {}
             PROVE  progressQuery([kind |-> "play_streak", win |-> "lifetime", min |-> 1], g)
                      = {[player |-> g, value |-> LongestRun(ActiveDays(g, 0))]}
  BY DEF StreakExact
<1> DEFINE def == [kind |-> "play_streak", win |-> "lifetime", min |-> 1]
           o == [progress |-> TRUE, ids |-> {g}]
           val == [h \in Groups |-> Most({Cardinality(i) : i \in Islands(ActiveDays(h, 0))})]
<1>1. progressQuery(def, g) = play_streak(def, o)
  <2>1. def.kind = "play_streak" OBVIOUS
  <2> HIDE DEF def
  <2> QED BY <2>1, SqlIs DEF progressQuery
<1>2. play_streak(def, o) = {[player |-> h, value |-> val[h]] : h \in {h \in {g} : val[h] # Unknown}}
  <2>1. o.progress /\ o.ids = {g} OBVIOUS
  <2> HIDE DEF def
  <2> QED BY <2>1 DEF play_streak, Rows
<1>3. val[g] = LongestRun(ActiveDays(g, 0)) /\ val[g] \in Nat \ {0}
  <2>1. rday \in Nat BY DEF RulesInv
  <2>2. ActiveDays(g, 0) \in SUBSET (0..rday) BY RulesRead
  <2>3. val[g] = Most({Cardinality(i) : i \in Islands(ActiveDays(g, 0))}) OBVIOUS
  <2> HIDE DEF val
  <2> QED BY <2>1, <2>2, <2>3, LargestIsland
<1>4. {h \in {g} : val[h] # Unknown} = {g} BY <1>3 DEF Unknown
<1> HIDE DEF val, def, o
<1> QED BY <1>1, <1>2, <1>3, <1>4 DEF def

\* A map counts as new if and only if it was first finished in the window.
LEMMA NewMapsAre ==
  ASSUME RulesInv, NEW g \in Groups, NEW since \in Int
  PROVE  LET logged == {m \in RuleMaps : \E f \in Log(g, 0) : f.map = m}
             firstIn == {m \in logged : \A f \in Log(g, 0) : f.map = m => f.day >= since}
             hadIt(m) == {p \in Members(g) : <<p, m>> \in old}
         IN /\ {m \in firstIn : hadIt(m) = {}} \subseteq newMaps(g, since)
            /\ \A m \in newMaps(g, since) : m \in firstIn /\ \A p \in hadIt(m) : race[p][m].at >= since
<1> DEFINE on(m) == {x \in Log(g, 0) : x.map = m}
           days(m) == {f.day : f \in on(m)}
           hadIt(m) == {p \in Members(g) : <<p, m>> \in old}
<1>0. /\ rday \in Nat /\ finish \subseteq [p : RulePlayers, map : RuleMaps, q : Measures, day : 0..rday]
      /\ Members(g) \subseteq RulePlayers /\ Log(g, 0) = {f \in finish : group[f.p] = g}
  <2>1. \A f \in finish : f.day >= 0 BY DEF RulesInv
  <2> QED BY <2>1 DEF RulesInv, Members, Log
<1>a. \A p \in Members(g), m \in RuleMaps : IF race[p][m].at = Unknown THEN race[p][m] # NoRace <=> <<p, m>> \in old
                            ELSE \E f \in Log(g, 0) : f.map = m /\ f.day = race[p][m].at
  <2> SUFFICES ASSUME NEW p \in Members(g), NEW m \in RuleMaps
               PROVE  IF race[p][m].at = Unknown THEN race[p][m] # NoRace <=> <<p, m>> \in old
                      ELSE \E f \in Log(g, 0) : f.map = m /\ f.day = race[p][m].at
    OBVIOUS
  <2>1. p \in RulePlayers /\ group[p] = g BY DEF Members
  <2>2. IF race[p][m].at = Unknown THEN race[p][m] # NoRace <=> <<p, m>> \in old
        ELSE \E f \in finish : f.p = p /\ f.map = m /\ f.day = race[p][m].at
    BY <2>1 DEF RulesInv
  <2>3. \A f \in finish : f.p = p => f \in Log(g, 0) BY <1>0, <2>1
  <2> QED BY <2>2, <2>3
<1>1. \A m : days(m) \subseteq Nat BY <1>0
<1>2. ASSUME NEW m, on(m) # {}
      PROVE  Min(days(m)) >= since <=> \A f \in on(m) : f.day >= since
  <2>1. days(m) # {} BY <1>2
  <2> HIDE DEF on
  <2>2. \A f \in on(m) : f.day \in days(m) OBVIOUS
  <2>3. \A d \in days(m) : d \in Nat /\ \E f \in on(m) : f.day = d BY <1>1
  <2> HIDE DEF days
  <2>4. Min(days(m)) \in days(m) /\ \A y \in days(m) : Min(days(m)) <= y BY <2>1, <1>1, LeastIs
  <2>5. Min(days(m)) \in Nat BY <2>3, <2>4
  <2>6. ASSUME Min(days(m)) >= since, NEW f \in on(m) PROVE f.day >= since
    <3>1. f.day \in Nat /\ Min(days(m)) <= f.day BY <2>2, <2>3, <2>4
    <3> QED BY <2>5, <2>6, <3>1
  <2>7. ASSUME \A f \in on(m) : f.day >= since PROVE Min(days(m)) >= since BY <2>3, <2>4, <2>7
  <2> QED BY <2>6, <2>7
<1>3. \A m : m \in newMaps(g, since) <=>
        /\ m \in RuleMaps /\ (\E f \in Log(g, 0) : f.map = m)
        /\ Min(days(m)) >= since
        /\ ~\E p \in Members(g) : race[p][m] # NoRace /\ (race[p][m].at = Unknown \/ race[p][m].at < since)
  BY DEF newMaps
<1>4. \A m \in RuleMaps : on(m) # {} <=> \E f \in Log(g, 0) : f.map = m OBVIOUS
<1>5. ASSUME NEW m \in RuleMaps, on(m) # {}, \A f \in on(m) : f.day >= since, hadIt(m) = {}
      PROVE  m \in newMaps(g, since)
  <2>1. ASSUME NEW p \in Members(g), race[p][m] # NoRace, race[p][m].at = Unknown \/ race[p][m].at < since PROVE FALSE
    <3>1. <<p, m>> \notin old BY <1>5
    <3>2. race[p][m].at # Unknown BY <1>a, <2>1, <3>1
    <3>3. PICK f \in Log(g, 0) : f.map = m /\ f.day = race[p][m].at BY <1>a, <3>2
    <3>4. f.day >= since /\ f.day \in Nat BY <1>0, <1>5, <3>3
    <3> QED BY <2>1, <3>2, <3>3, <3>4
  <2>2. Min(days(m)) >= since BY <1>2, <1>5
  <2> HIDE DEF days
  <2> QED BY <1>3, <1>4, <1>5, <2>1, <2>2
<1>6. ASSUME NEW m \in newMaps(g, since)
      PROVE  /\ m \in RuleMaps /\ on(m) # {} /\ (\A f \in on(m) : f.day >= since)
             /\ \A p \in hadIt(m) : race[p][m].at >= since
  <2>1. m \in RuleMaps /\ on(m) # {} /\ Min(days(m)) >= since BY <1>3, <1>4
  <2>2. ASSUME NEW p \in hadIt(m) PROVE race[p][m].at >= since
    <3>1. p \in Members(g) /\ <<p, m>> \in old OBVIOUS
    <3>2. race[p][m] # NoRace BY <1>a, <2>1, <3>1 DEF NoRace
    <3>3. ~(race[p][m].at = Unknown \/ race[p][m].at < since)
      <4> HIDE DEF days
      <4> QED BY <1>3, <3>1, <3>2
    <3>4. PICK f \in Log(g, 0) : f.day = race[p][m].at BY <1>a, <2>1, <3>1, <3>3
    <3>5. f.day \in Nat BY <1>0
    <3> QED BY <3>3, <3>4, <3>5
  <2> HIDE DEF days
  <2> QED BY <1>2, <2>1, <2>2
<1> HIDE DEF days
<1> QED BY <1>4, <1>5, <1>6

\* In every window.
LEMMA NewIsNewAlways == RulesInv => NewIsNew
<1> SUFFICES ASSUME RulesInv, NEW win \in {"month", "rolling30"}, NEW g \in Groups
             PROVE  LET since == windowSince(win)
                        logged == {m \in RuleMaps : \E f \in Log(g, 0) : f.map = m}
                        firstIn == {m \in logged : \A f \in Log(g, 0) : f.map = m => f.day >= since}
                        hadIt(m) == {p \in Members(g) : <<p, m>> \in old}
                    IN /\ {m \in firstIn : hadIt(m) = {}} \subseteq newMaps(g, since)
                       /\ \A m \in newMaps(g, since) : m \in firstIn /\ \A p \in hadIt(m) : race[p][m].at >= since
  BY DEF NewIsNew
<1>1. windowSince(win) \in Int
  <2>1. rday \in Nat /\ MonthDays \in Nat \ {0} /\ RollDays \in Nat BY AwardRulesAssumption DEF RulesInv
  <2> QED BY <2>1 DEF windowSince
<1> QED BY <1>1, NewMapsAre

-----------------------------------------------------------------------------
(* AwardRules: every step.                                                 *)

\* An attempt count is a number.
LEMMA TallyNat == ASSUME RulesInv, NEW g, NEW m PROVE Tally(g, {m}) \in Nat
<1> DEFINE A == {f \in Log(g, 0) : f.map \in {m}}
           B == {l \in old : group[l[1]] = g /\ l[2] \in {m}}
<1>1. IsFiniteSet(A)
  <2>1. A \in SUBSET Log(g, 0) OBVIOUS
  <2> QED BY <2>1, RulesRead, FS_Subset
<1>2. IsFiniteSet(B)
  <2>1. old \subseteq RulePlayers \X RuleMaps BY DEF RulesInv
  <2>2. B \in SUBSET (RulePlayers \X {m})
    <3>1. ASSUME NEW l \in B PROVE l \in RulePlayers \X {m} BY <2>1
    <3> QED BY <3>1
  <2>3. IsFiniteSet(RulePlayers) /\ IsFiniteSet({m}) BY AwardRulesAssumption, FS_Singleton
  <2>4. IsFiniteSet(RulePlayers \X {m}) BY <2>3, FS_Product
  <2> QED BY <2>2, <2>4, FS_Subset
<1> HIDE DEF A, B
<1>3. Cardinality(A) \in Nat /\ Cardinality(B) \in Nat BY <1>1, <1>2, FS_CardinalityType
<1> QED BY <1>3 DEF Tally, A, B

\* A finish is logged and replaces a slower time.
LEMMA IngestKeeps ==
  ASSUME RulesInv, NEW p \in RulePlayers, NEW m \in RuleMaps, NEW q \in Measures, IngestFinish(p, m, q)
  PROVE  RulesInv'
<1> DEFINE f == [p |-> p, map |-> m, q |-> q, day |-> rday]
           n == Tally(group[p], {m}) + 1
           row(t) == [time |-> t, at |-> rday, attempts |-> n]
<1>1. finish' = finish \cup {f} /\ UNCHANGED <<rday, old, group, pass, held>> BY DEF IngestFinish
<1>2. rday \in Nat /\ n \in Nat
  <2>1. Tally(group[p], {m}) \in Nat BY TallyNat
  <2> QED BY <2>1 DEF RulesInv
<1>3. PICK t \in Nat \ {0} : race' = [race EXCEPT ![p][m] = row(t)] \/ race' = race
  <2>1. race[p][m] \in BestRow \cup {NoRace} BY DEF RulesInv
  <2>2. race[p][m].time \in Nat BY <2>1 DEF BestRow, NoRace
  <2>3. CASE race' = [race EXCEPT ![p][m] = row(2)]
    <3>1. 2 \in Nat \ {0} OBVIOUS
    <3> HIDE DEF row
    <3> QED BY <2>3, <3>1
  <2>4. CASE race[p][m].time > 1 /\ race' = [race EXCEPT ![p][m] = row(race[p][m].time - 1)]
    <3>1. race[p][m].time - 1 \in Nat \ {0} BY <2>2, <2>4
    <3> QED BY <2>4, <3>1
  <2>5. CASE race' = race BY <2>5
  <2> QED BY <2>3, <2>4, <2>5 DEF IngestFinish
<1>4. IsFiniteSet(finish') /\ finish' \subseteq [p : RulePlayers, map : RuleMaps, q : Measures, day : 0..rday']
  <2>0. IsFiniteSet(finish) BY DEF RulesInv
  <2>1. IsFiniteSet(finish \cup {f})
    <3> HIDE DEF f
    <3> QED BY <2>0, FS_AddElement
  <2>2. f \in [p : RulePlayers, map : RuleMaps, q : Measures, day : 0..rday] BY <1>2
  <2> HIDE DEF f
  <2> QED BY <1>1, <2>1, <2>2 DEF RulesInv
<1>5. row(t) \in BestRow /\ row(t) # NoRace /\ row(t).at = rday /\ rday # Unknown
  BY <1>2 DEF BestRow, NoRace, Unknown
<1>6. f \in finish' /\ f.p = p /\ f.map = m /\ f.day = rday BY <1>1
<1> HIDE DEF f, row, n
<1>7. \A a \in RulePlayers, b \in RuleMaps : race'[a][b] = race[a][b] \/ (a = p /\ b = m /\ race'[a][b] = row(t))
  BY <1>3 DEF RulesInv
<1>8. race' \in [RulePlayers -> [RuleMaps -> BestRow \cup {NoRace}]] BY <1>3, <1>5 DEF RulesInv
<1>9. ASSUME NEW a \in RulePlayers, NEW b \in RuleMaps
      PROVE  LET r == race'[a][b] IN
             IF r.at = Unknown THEN r # NoRace <=> <<a, b>> \in old'
             ELSE \E x \in finish' : x.p = a /\ x.map = b /\ x.day = r.at
  <2>1. CASE race'[a][b] = race[a][b] BY <1>1, <2>1 DEF RulesInv
  <2>2. CASE a = p /\ b = m /\ race'[a][b] = row(t) BY <1>5, <1>6, <2>2
  <2> QED BY <1>7, <2>1, <2>2
<1> QED BY <1>1, <1>4, <1>8, <1>9 DEF RulesInv, Groups

\* No other step makes a best time or a finish.
LEMMA RulesKeep ==
  ASSUME RulesInv, [TablesNext(RuleMaps, Measures) \/ PassNext]_rulesVars PROVE RulesInv'
<1>1. ASSUME NEW p \in RulePlayers, NEW m \in RuleMaps, NEW q \in Measures, IngestFinish(p, m, q) PROVE RulesInv'
  BY <1>1, IngestKeeps
<1>2. ASSUME NEW g \in RulePlayers, Regroup(g) PROVE RulesInv'
  <2>1. group' = [p \in RulePlayers |-> g] /\ pass' = (IF pass.on THEN [pass EXCEPT !.moved = TRUE] ELSE pass)
        /\ UNCHANGED <<rday, finish, race, old, held>>
    BY <1>2 DEF Regroup
  <2>2. group' \in [RulePlayers -> RulePlayers] /\ \A p \in RulePlayers : group'[group'[p]] = group'[p] BY <2>1
  <2>3. pass'.on => pass'.rows \subseteq RulePlayers /\ pass'.moved
    <3>1. CASE pass.on BY <2>1, <3>1 DEF RulesInv
    <3>2. CASE ~pass.on BY <2>1, <3>2
    <3> QED BY <3>1, <3>2
  <2> QED BY <2>1, <2>2, <2>3 DEF RulesInv
<1>3. CASE NextDay
  <2>1. rday' = rday + 1 /\ UNCHANGED <<finish, race, old, group, pass, held>> BY <1>3 DEF NextDay
  <2>2. 0..rday \subseteq 0..rday' /\ rday' \in Nat BY <2>1 DEF RulesInv
  <2>3. finish \subseteq [p : RulePlayers, map : RuleMaps, q : Measures, day : 0..rday'] BY <2>2 DEF RulesInv
  <2> QED BY <2>1, <2>2, <2>3 DEF RulesInv, Groups
<1>4. ASSUME NEW ids \in {Groups} \cup {{g} : g \in Groups}, SelectRows(Monthly, ids) PROVE RulesInv'
  <2> DEFINE rows == {r.player : r \in qualifyQuery(Monthly, ids)}
  <2>1. pass'.rows = rows /\ UNCHANGED <<rday, finish, race, old, group, held>> BY <1>4 DEF SelectRows
  <2>2. rows \subseteq Groups
    <3> DEFINE o == [progress |-> FALSE, ids |-> ids]
               value(g) == Counted(IF Monthly.win = "lifetime" THEN Counter(g)
                                   ELSE Cardinality(Log(g, windowSince(Monthly.win))))
    <3>1. ids \subseteq Groups OBVIOUS
    <3>2. qualifyQuery(Monthly, ids) = finishes(Monthly, o)
      <4>1. Monthly.kind = "finishes" BY DEF Monthly
      <4> QED BY <4>1, SqlIs DEF qualifyQuery
    <3>3. \A r \in finishes(Monthly, o) : r.player \in ids BY DEF finishes, Rows
    <3> QED BY <3>1, <3>2, <3>3
  <2>3. Groups \subseteq RulePlayers BY RulesRead
  <2> HIDE DEF rows
  <2> QED BY <2>1, <2>2, <2>3 DEF RulesInv, Groups
<1>5. CASE InsertAwards
  <2>1. held' \subseteq held \cup {<<p, pass.period>> : p \in pass.rows} /\ ~pass'.on
        /\ UNCHANGED <<rday, finish, race, old, group>>
    BY <1>5 DEF InsertAwards, NoPass
  <2>2. \A h \in held' : h = <<h[1], h[2]>> BY <2>1 DEF RulesInv
  <2> QED BY <2>1, <2>2 DEF RulesInv, Groups
<1>6. CASE UNCHANGED rulesVars BY <1>6 DEF rulesVars, RulesInv, Groups
<1> QED BY <1>1, <1>2, <1>3, <1>4, <1>5, <1>6 DEF TablesNext, PassNext

\* An insertion gives no group a second award of the period.
LEMMA AwardsOnce ==
  ASSUME RulesInv, [TablesNext(RuleMaps, Measures) \/ PassNext]_rulesVars,
         NEW x \in held' \ held, NEW y \in held' \ {x}, x[2] = y[2], group[x[1]] = group[y[1]]
  PROVE  pass.moved /\ y \notin held
<1>1. InsertAwards
  <2>1. held' # held OBVIOUS
  <2> QED BY <2>1 DEF TablesNext, PassNext, IngestFinish, Regroup, NextDay, SelectRows, rulesVars
<1> DEFINE free(q) == ~\E h \in held : h[2] = pass.period /\ h[1] # q /\ group[h[1]] = group[q]
<1>2. pass.on /\ held' = held \cup {<<p, pass.period>> : p \in {q \in pass.rows : free(q)}}
  BY <1>1 DEF InsertAwards
<1>3. \A h \in held' \ held : h[1] \in pass.rows /\ h[2] = pass.period /\ h = <<h[1], h[2]>> /\ free(h[1])
  <2> HIDE DEF free
  <2> QED BY <1>2
<1>4. y = <<y[1], y[2]>> BY <1>3 DEF RulesInv
<1>5. x[1] # y[1] BY <1>3, <1>4
<1>6. y \notin held BY <1>3, <1>5
<1>7. ASSUME ~pass.moved PROVE FALSE
  <2>1. pass.rows \subseteq Groups BY <1>2, <1>7 DEF RulesInv
  <2>2. \A g \in Groups : group[g] = g BY DEF Groups, RulesInv
  <2>3. x[1] \in Groups /\ y[1] \in Groups BY <1>3, <1>6, <2>1
  <2> QED BY <1>5, <2>2, <2>3
<1> QED BY <1>6, <1>7

\* The tables are as the rules take them to be.
LEMMA RulesAlways == RulesSpec => []RulesInv
<1>1. RulesInit => RulesInv
  <2> SUFFICES ASSUME RulesInit PROVE RulesInv OBVIOUS
  <2>1. /\ rday = 0 /\ finish = {} /\ old \subseteq RulePlayers \X RuleMaps
        /\ group = [p \in RulePlayers |-> p] /\ pass = NoPass /\ held = {}
        /\ race = [p \in RulePlayers |-> [m \in RuleMaps |->
               IF <<p, m>> \in old THEN [time |-> 2, at |-> Unknown, attempts |-> Unknown] ELSE NoRace]]
    BY AwardRulesAssumption DEF RulesInit
  <2>2. IsFiniteSet(finish) BY <2>1, FS_EmptySet
  <2>3. \A p \in RulePlayers, m \in RuleMaps :
          /\ race[p][m] \in BestRow \cup {NoRace} /\ race[p][m].at = Unknown
          /\ race[p][m] # NoRace <=> <<p, m>> \in old
    <3>1. \A p \in RulePlayers, m \in RuleMaps :
            race[p][m] = IF <<p, m>> \in old THEN [time |-> 2, at |-> Unknown, attempts |-> Unknown] ELSE NoRace
      BY <2>1
    <3> DEFINE r0 == [time |-> 2, at |-> Unknown, attempts |-> Unknown]
    <3>2. r0 \in BestRow /\ r0 # NoRace /\ r0.at = Unknown /\ NoRace.at = Unknown
      BY DEF BestRow, NoRace
    <3> HIDE DEF r0
    <3>3. \A p \in RulePlayers, m \in RuleMaps : race[p][m] = IF <<p, m>> \in old THEN r0 ELSE NoRace
      BY <3>1 DEF r0
    <3> QED BY <3>2, <3>3
  <2>4. race \in [RulePlayers -> [RuleMaps -> BestRow \cup {NoRace}]]
    <3>1. \A p \in RulePlayers : race[p] = [m \in RuleMaps |-> race[p][m]] BY <2>1
    <3>2. \A p \in RulePlayers : race[p] \in [RuleMaps -> BestRow \cup {NoRace}] BY <2>3, <3>1
    <3>3. race = [p \in RulePlayers |-> race[p]] BY <2>1
    <3> QED BY ONLY <3>2, <3>3
  <2>5. ~pass.on BY <2>1 DEF NoPass
  <2> QED BY <2>1, <2>2, <2>3, <2>4, <2>5 DEF RulesInv
<1>2. RulesInv /\ [TablesNext(RuleMaps, Measures) \/ PassNext]_rulesVars => RulesInv' BY RulesKeep
<1> QED BY <1>1, <1>2, PTL DEF RulesSpec

\* The rules a pass evaluates say of every player what the profile page says, a
\* streak is the longest run of days, and a map counts as new once per person.
THEOREM RulesAreSound == RulesSpec => []RulesSound
<1>1. RulesInv => RulesSound BY BarsHonest, StreaksExact, NewIsNewAlways DEF RulesSound
<1> QED BY <1>1, RulesAlways, PTL

\* Nobody is awarded the same thing under two nicks.
THEOREM OneAwardEach == RulesSpec => AwardOncePerPerson
<1>1. RulesInv /\ [TablesNext(RuleMaps, Measures) \/ PassNext]_rulesVars =>
      [\A x \in held' \ held : \A y \in held' \ {x} :
         x[2] = y[2] /\ group[x[1]] = group[y[1]] => pass.moved /\ y \notin held]_rulesVars
  BY AwardsOnce
<1> QED BY <1>1, RulesAlways, PTL DEF RulesSpec, AwardOncePerPerson

-----------------------------------------------------------------------------
(* The run's behaviours are behaviours of its parts, one at a time.        *)

\* The two parts about awards follow their own specifications, in an instance that
\* has the map and the measure its finishes are of.
LEMMA SweepsHaveParts ==
  "m1" \in RuleMaps /\ 1 \in Measures => (SweepsSpec => AchSpec /\ RulesSpec)
<1> SUFFICES ASSUME "m1" \in RuleMaps, 1 \in Measures PROVE SweepsSpec => AchSpec /\ RulesSpec OBVIOUS
<1>1. SweepsInit => AchInit /\ RulesInit BY DEF SweepsInit
<1>2. [SweepsNext]_sweepsVars => [AchNext]_achVars BY DEF SweepsNext, sweepsVars
<1>3. AwardingNext => TablesNext(RuleMaps, Measures) \/ PassNext BY DEF AwardingNext, TablesNext
<1>4. [SweepsNext]_sweepsVars => [TablesNext(RuleMaps, Measures) \/ PassNext]_rulesVars
  BY <1>3 DEF SweepsNext, sweepsVars
<1> QED BY <1>1, <1>2, <1>4, PTL DEF SweepsSpec, AchSpec, RulesSpec

\* Passes are scheduled, owed and run once as the debounce promises, and the rules
\* they evaluate say what the profile page says (scheduleAchievementEval,
\* achievements.js): each alone, and side by side in the run.
THEOREM AwardsAreSound ==
  /\ AchSpec /\ RulesSpec => []AwardsSound
  /\ "m1" \in RuleMaps /\ 1 \in Measures => (SweepsSpec => []AwardsSound)
<1>1. AchSpec /\ RulesSpec => []AwardsSound
  <2>1. AchSound /\ RulesSound => AwardsSound BY DEF AwardsSound
  <2> QED BY <2>1, AwardsAreOwed, RulesAreSound, PTL
<1> QED BY <1>1, SweepsHaveParts, PTL

\* The published tables only go forward, a published map stays, and nobody is
\* awarded the same thing under two nicks (refreshAggregates, mapgen, _insertAwards).
THEOREM SweepsAreKept ==
  ~SlowWorkers => (AggSpec /\ []Prompt /\ MgSpec /\ RulesSpec => SweepsKeep)
<1> SUFFICES ASSUME ~SlowWorkers PROVE AggSpec /\ []Prompt /\ MgSpec /\ RulesSpec => SweepsKeep OBVIOUS
<1>1. MgSpec => PublishedStays BY PublishedStay, PTL
<1> QED BY <1>1, TablesGoForward, OneAwardEach, PTL DEF SweepsKeep
=============================================================================
