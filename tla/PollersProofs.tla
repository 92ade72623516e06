---------------------------- MODULE PollersProofs ----------------------------
(***************************************************************************)
(* What polls and what is polled, for every value of the constants: the    *)
(* announcer's cursor and its retries, the reload of the name filter, the  *)
(* operators' side of the replicas, the map pack and the collector.        *)
(***************************************************************************)
EXTENDS MCPollers, SumTheorems

-----------------------------------------------------------------------------
(* The inductive invariants.                                               *)

Full(recs) == Cardinality(recs) >= MaxPerPoll

\* The records still worth announcing that did not fall in the window.
Standing == top \ window

\* Every id of T above a is on the page or beyond the cursor it leads to.
Covers(T, p, a) ==
  \A i \in T : i > a =>
    \/ i \in p.recs
    \/ /\ i > Greatest(p.recs)
       /\ Full(p.recs) \/ i > p.maxId

\* The same while only the rows have been read.
RowsCover(T, recs, a) ==
  \A i \in T : i > a => i \in recs \/ (i > Greatest(recs) /\ Full(recs))

Within(u, p) == p.maxId <= u /\ \A i \in p.recs : i <= u
Above(p, a) == \A i \in p.recs : i > a

\* Every id of T between the baseline b and the cursor c was announced.
NoSkip(T, b, c, f) == \A i \in T : b < i /\ i <= c => f[i] > 0

\* A page lies above the cursor it was asked for, and the cursor walks
\* through it from below.
PageInv ==
  /\ cached # NoEntry => Above(cached.answer, cached.after)
  /\ pc \in {"max", "page"} => Above(page, After(mem))
  /\ pc \in {"posting", "landed"} =>
       /\ mem # None /\ page.recs # {} /\ mem <= Greatest(page.recs)
       /\ \A i \in left : i > mem
       /\ \A i \in page.recs \ left : i <= mem
  /\ pc = "landed" => left # {}
  /\ pc = "down" => mem = None

CursorInv == /\ mem <= used /\ NoSkip(Standing, base, mem, posted)
             /\ disk <= used /\ NoSkip(Standing, base, disk, posted)

CacheInv ==
  cached # NoEntry => /\ Covers(Standing, cached.answer, cached.after)
                      /\ Within(used, cached.answer)

FetchInv ==
  /\ pc = "max" => /\ RowsCover(Standing, page.recs, After(mem))
                   /\ Within(used, page)
  /\ pc = "page" => /\ Covers(Standing, page, After(mem))
                    /\ Within(used, page)

PostInv ==
  /\ pc \in {"posting", "landed"} =>
       /\ Covers(Standing, page, mem) /\ Within(used, page)
       /\ \A i \in page.recs \ left : posted[i] > 0
  /\ pc = "landed" => \A i \in NextBatch : posted[i] > 0

CoverInv == CursorInv /\ CacheInv /\ FetchInv /\ PostInv

\* Announcements the announcer has no doubt about lie below its cursor.
Traced(c) == \A i \in Ids : posted[i] > 0 /\ i \notin doubt => i <= After(c)

TraceInv ==
  /\ pc = "down" => Traced(disk)
  /\ pc \notin {"down", "landed"} => Traced(mem)
  /\ pc = "landed" =>
       \A i \in Ids : posted[i] > 0 /\ i \notin doubt =>
                        i <= mem \/ i \in NextBatch
  /\ AnnouncedTwiceOnlyInDoubt

-----------------------------------------------------------------------------
(* Greatest and Lowest: MAX(id), and ORDER BY id LIMIT n.                  *)

\* A nonempty set of ids has a greatest element.
LEMMA GreatestOf ==
  ASSUME NEW S \in SUBSET Ids, S # {}
  PROVE  Greatest(S) \in S /\ \A j \in S : j <= Greatest(S)
<1> DEFINE B == {n \in Nat : \A j \in S : j <= n}
<1>1. MaxId \in B
  BY MaxIdAssumption DEF Ids
<1>2. PICK m \in B : \A n \in B : ~(<<n, m>> \in OpToRel(<, Nat))
  <2>1. B \in SUBSET Nat /\ B # {}
    BY <1>1
  <2> QED
    BY <2>1, WFMin, NatLessThanWellFounded
<1>3. \A n \in B : m <= n
  <2> SUFFICES ASSUME NEW n \in B, n < m PROVE FALSE
    OBVIOUS
  <2> QED
    BY <1>2 DEF OpToRel
<1>4. m \in S
  <2> SUFFICES ASSUME m \notin S PROVE FALSE
    OBVIOUS
  <2>1. PICK j \in S : TRUE
    OBVIOUS
  <2>2. \A k \in S : k \in Nat /\ k <= m - 1
    BY MaxIdAssumption DEF Ids
  <2>3. m - 1 \in B
    BY <2>1, <2>2
  <2> QED
    BY <1>3, <2>3
<1>5. \E g \in S : \A j \in S : j <= g
  BY <1>4
<1> QED
  BY <1>5 DEF Greatest

\* Math.max of two numbers.
LEMMA GreatestPair ==
  ASSUME NEW a \in Nat, NEW b \in Nat
  PROVE  /\ Greatest({a, b}) \in {a, b}
         /\ a <= Greatest({a, b}) /\ b <= Greatest({a, b})
<1>1. \E g \in {a, b} : \A j \in {a, b} : j <= g
  <2>1. CASE a <= b
    BY <2>1
  <2>2. CASE b <= a
    BY <2>2
  <2> QED
    BY <2>1, <2>2
<1> QED
  BY <1>1 DEF Greatest

\* The greatest id of any set of ids, empty or not, is a number.
LEMMA GreatestType ==
  ASSUME NEW S \in SUBSET Ids
  PROVE  Greatest(S) \in 0..MaxId
<1>1. CASE S = {}
  BY <1>1, MaxIdAssumption DEF Greatest
<1>2. CASE S # {}
  <2>1. Greatest(S) \in Ids
    BY <1>2, GreatestOf
  <2> QED
    BY <2>1, MaxIdAssumption DEF Ids
<1> QED
  BY <1>1, <1>2

\* Sets of ids are finite.
LEMMA IdsFinite ==
  ASSUME NEW S \in SUBSET Ids
  PROVE  IsFiniteSet(S) /\ Cardinality(S) \in Nat
<1>1. IsFiniteSet(Ids)
  BY MaxIdAssumption, FS_Interval DEF Ids
<1> QED
  BY <1>1, FS_Subset, FS_CardinalityType

\* LIMIT takes a lower part of the ordered set ...
LEMMA LowestClosed ==
  ASSUME NEW S \in SUBSET Ids, NEW n \in Nat,
         NEW i \in Lowest(S, n), NEW j \in S, j < i
  PROVE  j \in Lowest(S, n)
<1> DEFINE L(k) == {h \in S : h < k}
<1>1. i \in S /\ i \in Int /\ j \in Int /\ \A h \in S : h \in Int
  BY MaxIdAssumption DEF Lowest, Ids
<1>2. L(j) \subseteq L(i)
  <2> SUFFICES ASSUME NEW h \in S, h < j PROVE h < i
    OBVIOUS
  <2>1. h \in Int
    BY <1>1
  <2> QED
    BY <1>1, <2>1
<1>3. L(i) \in SUBSET Ids /\ L(j) \in SUBSET Ids
  OBVIOUS
<1>4. /\ IsFiniteSet(L(i)) /\ Cardinality(L(i)) \in Nat
      /\ Cardinality(L(j)) \in Nat
  BY <1>3, IdsFinite
<1>5. Cardinality(L(j)) <= Cardinality(L(i))
  BY <1>2, <1>4, FS_Subset
<1>6. Cardinality(L(i)) < n
  BY DEF Lowest
<1> QED
  BY <1>4, <1>5, <1>6 DEF Lowest

\* ... that is not empty ...
LEMMA LowestNonempty ==
  ASSUME NEW S \in SUBSET Ids, S # {}, NEW n \in Nat \ {0}
  PROVE  Lowest(S, n) # {}
<1>1. PICK m \in S : \A h \in S : ~(<<h, m>> \in OpToRel(<, Nat))
  <2>1. S \in SUBSET Nat
    BY MaxIdAssumption DEF Ids
  <2> QED
    BY <2>1, WFMin, NatLessThanWellFounded
<1>2. {h \in S : h < m} = {}
  <2> SUFFICES ASSUME NEW h \in S, h < m PROVE FALSE
    OBVIOUS
  <2>1. h \in Nat /\ m \in Nat
    BY MaxIdAssumption DEF Ids
  <2> QED
    BY <1>1, <2>1 DEF OpToRel
<1>3. Cardinality({h \in S : h < m}) = 0
  BY <1>2, FS_EmptySet
<1> QED
  BY <1>3 DEF Lowest

\* ... and what it leaves out is above a full page.
LEMMA LowestLeavesOut ==
  ASSUME NEW S \in SUBSET Ids, NEW n \in Nat \ {0},
         NEW i \in S, i \notin Lowest(S, n)
  PROVE  i > Greatest(Lowest(S, n)) /\ Cardinality(Lowest(S, n)) >= n
<1> DEFINE P == Lowest(S, n)
           X == S \ P
           L(k) == {h \in S : h < k}
<1>0. i \notin P
  OBVIOUS
<1> HIDE DEF P
<1>1. S \in SUBSET Nat /\ P \in SUBSET Ids /\ P \subseteq S /\ i \in Int
  <2>1. Ids \subseteq Nat
    BY MaxIdAssumption DEF Ids
  <2>2. P \subseteq S
    BY DEF Lowest, P
  <2>3. S \subseteq Nat
    BY <2>1
  <2>4. i \in Nat
    BY <2>3
  <2>5. P \subseteq Ids
    BY <2>2
  <2> QED
    BY <2>2, <2>3, <2>4, <2>5
<1>2. PICK m \in X : \A h \in X : ~(<<h, m>> \in OpToRel(<, Nat))
  <2>1. X \in SUBSET Nat /\ X # {}
    BY <1>0, <1>1
  <2> QED
    BY <2>1, WFMin, NatLessThanWellFounded
<1>3. L(m) \subseteq P
  BY <1>1, <1>2 DEF OpToRel
<1>4. /\ L(m) \in SUBSET Ids
      /\ Cardinality(L(m)) \in Nat /\ ~(Cardinality(L(m)) < n)
  <2>1. L(m) \in SUBSET Ids
    OBVIOUS
  <2> QED
    BY <2>1, <1>2, IdsFinite DEF Lowest, P
<1>5. IsFiniteSet(P) /\ Cardinality(P) \in Nat
  BY <1>1, IdsFinite
<1>6. Cardinality(P) >= n
  <2>1. Cardinality(L(m)) <= Cardinality(P)
    BY <1>3, <1>5, FS_Subset
  <2> QED
    BY <2>1, <1>4, <1>5
<1>7. P # {}
  <2>1. CASE P = {}
    BY <2>1, <1>6, FS_EmptySet
  <2> QED
    BY <2>1
<1>8. Greatest(P) \in P
  BY <1>1, <1>7, GreatestOf
<1>9. ~(i < Greatest(P))
  BY <1>0, <1>8, LowestClosed DEF P
<1>10. i # Greatest(P) /\ Greatest(P) \in Int
  <2>1. P \subseteq Nat
    BY <1>1
  <2>2. Greatest(P) \in Nat
    BY <1>8, <2>1
  <2>3. i # Greatest(P)
    BY <1>0, <1>8
  <2> QED
    BY <2>2, <2>3
<1>11. i > Greatest(P)
  BY <1>1, <1>9, <1>10
<1> QED
  BY <1>6, <1>11 DEF P

-----------------------------------------------------------------------------
(* The feed.                                                               *)

\* The rows' ids are ids, and numbers.
LEMMA FeedIds ==
  ASSUME FeedTypeOK
  PROVE  /\ race \subseteq Ids /\ top \subseteq Ids /\ used \in Nat
         /\ \A i \in top : i \in Nat /\ i <= used
<1>1. race \subseteq Ids
  BY MaxIdAssumption DEF FeedTypeOK, Ids
<1>2. used \in Nat /\ top \subseteq race
  BY MaxIdAssumption DEF FeedTypeOK
<1>3. \A i \in race : i \in Nat /\ i <= used
  BY <1>2 DEF FeedTypeOK
<1> QED
  BY <1>1, <1>2, <1>3

\* What a commit does to a reader: ids only grow, and an id qualifies only
\* if it did before or is new.
LEMMA CommitEffect ==
  ASSUME FeedTypeOK, CommitRows
  PROVE  /\ FeedTypeOK' /\ used <= used'
         /\ \A i \in top' : i \in top \/ (i > used /\ i \in race' \ race)
<1>1. PICK new \in SUBSET ((used + 1)..MaxId), gone \in SUBSET race :
        /\ new # {}
        /\ race' = (race \ gone) \cup new
        /\ top' \in SUBSET ((top \ gone) \cup new)
        /\ used' = Greatest(new)
  BY DEF CommitRows
<1>2. used \in Nat /\ used <= MaxId /\ MaxId \in Nat
  BY MaxIdAssumption DEF FeedTypeOK
<1>3. new \in SUBSET Ids
  BY <1>2 DEF Ids
<1>4. used' \in new /\ \A j \in new : j <= used'
  BY <1>1, <1>3, GreatestOf
<1>5. used' \in Nat /\ used < used' /\ used' <= MaxId
  BY <1>2, <1>4
<1>6. race \subseteq 1..used /\ top \subseteq race
  BY DEF FeedTypeOK
<1>7. race' \subseteq 1..used'
  <2> SUFFICES ASSUME NEW i \in race' PROVE i \in 1..used'
    OBVIOUS
  <2>1. CASE i \in race
    BY <2>1, <1>2, <1>5, <1>6
  <2>2. CASE i \in new
    <3>1. i \in (used + 1)..MaxId /\ i <= used'
      BY <2>2, <1>4
    <3> QED
      BY <3>1, <1>2, <1>5
  <2> QED
    BY <2>1, <2>2, <1>1
<1>8. top' \subseteq race'
  BY <1>1, <1>6
<1>9. ASSUME NEW i \in top', i \notin top
      PROVE  i > used /\ i \in race' \ race
  <2>1. i \in new
    BY <1>1, <1>9
  <2>2. i \in (used + 1)..MaxId
    BY <2>1
  <2>3. i > used /\ i \notin 1..used
    BY <2>2, <1>2
  <2> QED
    BY <2>1, <2>3, <1>1, <1>6
<1>10. used' \in 0..MaxId
  BY <1>2, <1>5
<1>11. used <= used'
  BY <1>2, <1>5
<1> QED
  BY <1>7, <1>8, <1>9, <1>10, <1>11 DEF FeedTypeOK

\* A deletion only takes rows away.
LEMMA DeleteEffect ==
  ASSUME FeedTypeOK, DeleteMap
  PROVE  FeedTypeOK' /\ used' = used /\ top' \subseteq top
BY DEF FeedTypeOK, DeleteMap

-----------------------------------------------------------------------------
(* Type correctness.                                                       *)

\* The initial state is well typed.
LEMMA TypeInit ==
  Init => TypeOK
<1> SUFFICES ASSUME Init PROVE TypeOK
  OBVIOUS
<1>1. FeedTypeOK
  BY MaxIdAssumption DEF Init, FeedInit, FeedTypeOK
<1>2. NoPage \in Pages
  BY DEF NoPage, Pages
<1> QED
  BY <1>1, <1>2, AnnouncerAssumption DEF Init, TypeOK, Cursors, None

\* The final cursor of a page is a number.
LEMMA FinalCursorType ==
  ASSUME NEW p \in Pages
  PROVE  FinalCursor(p) \in Nat
<1>1. p.recs \in SUBSET Ids /\ p.maxId \in Nat
  BY DEF Pages
<1>2. Greatest(p.recs) \in Nat
  BY <1>1, GreatestType, MaxIdAssumption
<1>3. Greatest({p.maxId, Greatest(p.recs)}) \in Nat
  BY <1>1, <1>2, GreatestPair
<1> QED
  BY <1>2, <1>3 DEF FinalCursor

\* A batch is a part of what is left.
LEMMA BatchSubset ==
  NextBatch \subseteq left
BY DEF NextBatch, Lowest

\* Counting a batch keeps the counts numbers.
LEMMA PostedType ==
  ASSUME posted \in [Ids -> Nat], NEW b
  PROVE  Posted(b) \in [Ids -> Nat]
BY DEF Posted

\* Every step keeps the types.
LEMMA TypeNext ==
  TypeOK /\ [Next]_vars => TypeOK'
<1> SUFFICES ASSUME TypeOK, [Next]_vars PROVE TypeOK'
  OBVIOUS
<1> USE DEF TypeOK
<1>0. NoPage \in Pages /\ page.recs \in SUBSET Ids /\ page.maxId \in Nat
  BY DEF NoPage, Pages
<1>1. CASE Ingested
  <2>1. FeedTypeOK'
    BY <1>1, CommitEffect DEF Ingested
  <2>2. window' \subseteq Ids
    <3>1. race' \subseteq 1..used' /\ used' \in 0..MaxId
      BY <2>1 DEF FeedTypeOK
    <3>2. race' \subseteq Ids
      BY <3>1, MaxIdAssumption DEF Ids
    <3> QED
      BY <1>1, <3>2 DEF Ingested
  <2> QED
    BY <1>1, <2>1, <2>2 DEF Ingested
<1>2. CASE MapDeleted
  <2>1. FeedTypeOK'
    BY <1>2, DeleteEffect DEF MapDeleted
  <2> QED
    BY <1>2, <2>1 DEF MapDeleted, announcerVars
<1>3. CASE Expire
  BY <1>3 DEF Expire, FeedTypeOK
<1>4. CASE TickSkipped \/ UNCHANGED vars
  BY <1>4 DEF TickSkipped, vars, FeedTypeOK
<1>5. CASE Tick
  BY <1>5 DEF Tick, FeedTypeOK
<1>6. CASE FetchCached
  <2>1. cached # NoEntry
    BY <1>6 DEF FetchCached, NoEntry, After, Cursors, None
  <2>2. page' \in Pages
    BY <1>6, <2>1 DEF FetchCached
  <2> QED
    BY <1>6, <2>2 DEF FetchCached, FeedTypeOK
<1>7. CASE ReadRows
  <2>1. page' \in Pages
    <3> DEFINE S == {i \in top : i > After(mem)}
    <3>1. S \subseteq Ids
      BY FeedIds
    <3>2. \A n : Lowest(S, n) \subseteq Ids
      BY <3>1 DEF Lowest
    <3> HIDE DEF S
    <3>3. page' = [recs |-> Lowest(S, SmallerOf(ServerCap, MaxPerPoll)),
                   maxId |-> 0]
      BY <1>7 DEF ReadRows, S
    <3> QED
      BY <3>2, <3>3 DEF Pages
  <2> QED
    BY <1>7, <2>1 DEF ReadRows, FeedTypeOK
<1>8. CASE ReadMax
  <2>1. race \in SUBSET Ids
    BY MaxIdAssumption DEF FeedTypeOK, Ids
  <2>2. Greatest(race) \in Nat
    BY <2>1, GreatestType, MaxIdAssumption
  <2>3. page' \in Pages /\ page'.recs = page.recs
    BY <1>8, <2>2 DEF ReadMax, Pages
  <2>4. After(mem) \in Nat
    BY DEF After, Cursors, None
  <2> QED
    BY <1>8, <2>3, <2>4 DEF ReadMax, FeedTypeOK
<1>9. CASE FetchFails
  BY <1>9, <1>0, AnnouncerAssumption
     DEF FetchFails, PollFails, PollEnds, Fault, FeedTypeOK
<1>10. CASE Baseline
  <2>1. base' \in Nat
    BY <1>10, <1>0, GreatestPair DEF Baseline
  <2> QED
    BY <1>10, <1>0, <2>1, AnnouncerAssumption
       DEF Baseline, Advance, PollEnds, Fault, FeedTypeOK, Cursors
<1>11. CASE NothingNew
  BY <1>11, <1>0, AnnouncerAssumption DEF NothingNew, PollEnds, FeedTypeOK
<1>12. CASE NoneQualify
  BY <1>12, <1>0, AnnouncerAssumption
     DEF NoneQualify, Advance, PollEnds, Fault, FeedTypeOK, Cursors
<1>13. CASE Announce
  BY <1>13 DEF Announce, FeedTypeOK
<1>14. CASE PostLands
  <2>1. posted' \in [Ids -> Nat]
    BY <1>14, PostedType DEF PostLands
  <2> QED
    BY <1>14, <2>1 DEF PostLands, FeedTypeOK
<1>15. CASE PostAnswerLost
  <2>1. posted' \in [Ids -> Nat]
    BY <1>15, PostedType DEF PostAnswerLost
  <2>2. doubt' \subseteq Ids
    BY <1>15, <1>0, BatchSubset DEF PostAnswerLost
  <2> QED
    BY <1>15, <1>0, <2>1, <2>2, AnnouncerAssumption
       DEF PostAnswerLost, PollFails, PollEnds, Fault, FeedTypeOK
<1>16. CASE PostFails
  BY <1>16, <1>0, AnnouncerAssumption
     DEF PostFails, PollFails, PollEnds, Fault, FeedTypeOK
<1>17. CASE RateLimited
  BY <1>17, <1>0, AnnouncerAssumption
     DEF RateLimited, PollFails, PollEnds, Fault, FeedTypeOK
<1>18. CASE OnBatchPosted
  <2>1. NextBatch \in SUBSET Ids
    BY <1>0, BatchSubset
  <2>2. Greatest(NextBatch) \in Nat
    BY <2>1, GreatestType, MaxIdAssumption
  <2> QED
    BY <1>18, <2>2, AnnouncerAssumption
       DEF OnBatchPosted, Advance, Fault, FeedTypeOK, Cursors
<1>19. CASE Finish
  <2>1. FinalCursor(page) \in Nat
    BY FinalCursorType
  <2> QED
    BY <1>19, <1>0, <2>1, AnnouncerAssumption
       DEF Finish, Advance, PollEnds, Fault, FeedTypeOK, Cursors
<1>20. CASE Crash
  BY <1>20, <1>0, AnnouncerAssumption
     DEF Crash, Fault, FeedTypeOK, Cursors, AnnouncedAbove
<1>21. CASE Start
  BY <1>21 DEF Start, FeedTypeOK
<1>22. CASE StartUnreadable
  BY <1>22, AnnouncerAssumption
     DEF StartUnreadable, Fault, FeedTypeOK, Cursors, AnnouncedAbove
<1> QED
  BY <1>1, <1>2, <1>3, <1>4, <1>5, <1>6, <1>7, <1>8, <1>9, <1>10, <1>11,
     <1>12, <1>13, <1>14, <1>15, <1>16, <1>17, <1>18, <1>19, <1>20, <1>21,
     <1>22 DEF Next, Step, Failure

\* Every reachable state of the announcer is well typed.
THEOREM AnnouncerTypeCorrect == Spec => []TypeOK
BY TypeInit, TypeNext, PTL DEF Spec

-----------------------------------------------------------------------------
(* The cursor walks through each page from below.                          *)

\* The ids of the announcer's state are numbers.
LEMMA Numbers ==
  ASSUME TypeOK
  PROVE  /\ mem \in Int /\ disk \in Int /\ base \in Nat /\ used \in Nat
         /\ After(mem) \in Nat /\ (mem # None => After(mem) = mem)
         /\ page \in Pages /\ page.recs \in SUBSET Ids /\ page.maxId \in Nat
         /\ left \in SUBSET Ids /\ left \subseteq page.recs
         /\ \A i \in page.recs : i \in Nat
         /\ Greatest(page.recs) \in Nat
<1>1. /\ mem \in Int /\ disk \in Int /\ base \in Nat
      /\ After(mem) \in Nat /\ (mem # None => After(mem) = mem)
  BY DEF TypeOK, Cursors, None, After
<1>2. used \in Nat
  BY FeedIds DEF TypeOK
<1>3. /\ page \in Pages /\ page.recs \in SUBSET Ids /\ page.maxId \in Nat
      /\ left \in SUBSET Ids /\ left \subseteq page.recs
  BY DEF TypeOK, Pages
<1>4. \A i \in page.recs : i \in Nat
  BY <1>3, MaxIdAssumption DEF Ids
<1>5. Greatest(page.recs) \in Nat
  BY <1>3, GreatestType, MaxIdAssumption
<1> QED
  BY <1>1, <1>2, <1>3, <1>4, <1>5

\* The next batch: a lower part of what is left, ending in its last id.
LEMMA BatchEnd ==
  ASSUME TypeOK, left # {}
  PROVE  /\ NextBatch \in SUBSET Ids /\ NextBatch \subseteq left
         /\ Greatest(NextBatch) \in NextBatch /\ Greatest(NextBatch) \in Nat
         /\ \A i \in NextBatch : i <= Greatest(NextBatch)
         /\ \A i \in left \ NextBatch : i > Greatest(NextBatch)
<1>1. left \in SUBSET Ids /\ BatchSize \in Nat \ {0}
  BY Numbers, AnnouncerAssumption
<1>2. NextBatch \in SUBSET Ids /\ NextBatch \subseteq left
  BY <1>1, BatchSubset
<1>3. NextBatch # {}
  BY <1>1, LowestNonempty DEF NextBatch
<1>4. /\ Greatest(NextBatch) \in NextBatch
      /\ \A i \in NextBatch : i <= Greatest(NextBatch)
  BY <1>2, <1>3, GreatestOf
<1>5. \A i \in left : i \in Nat
  BY <1>1, MaxIdAssumption DEF Ids
<1>6. Greatest(NextBatch) \in Nat
  BY <1>2, <1>4, <1>5
<1>7. \A i \in left \ NextBatch : i > Greatest(NextBatch)
  <2> SUFFICES ASSUME NEW i \in left \ NextBatch, ~(i > Greatest(NextBatch))
               PROVE  FALSE
    OBVIOUS
  <2>1. i < Greatest(NextBatch)
    BY <1>4, <1>5, <1>6
  <2> QED
    BY <1>1, <1>4, <2>1, LowestClosed DEF NextBatch
<1> QED
  BY <1>2, <1>4, <1>6, <1>7

\* A cached answer is used only if there is one.
LEMMA CacheHit ==
  ASSUME TypeOK, FetchCached
  PROVE  cached # NoEntry /\ cached.after = After(mem)
BY DEF TypeOK, FetchCached, NoEntry, After, Cursors, None

\* What is read lies above the cursor.
LEMMA RowsRead ==
  ASSUME TypeOK, ReadRows
  PROVE  /\ page'.recs = Lowest({i \in top : i > After(mem)},
                                SmallerOf(ServerCap, MaxPerPoll))
         /\ page'.maxId = 0 /\ page'.recs \subseteq top
         /\ Above(page', After(mem))
<1>1. /\ page'.recs = Lowest({i \in top : i > After(mem)},
                             SmallerOf(ServerCap, MaxPerPoll))
      /\ page'.maxId = 0
  BY DEF ReadRows
<1>2. \A i \in page'.recs : i \in top /\ i > After(mem)
  BY <1>1 DEF Lowest
<1> QED
  BY <1>1, <1>2 DEF Above

\* Every step keeps the cursor at the lower end of the page.
LEMMA PageNext ==
  ASSUME TypeOK, PageInv, [Next]_vars
  PROVE  PageInv'
<1> USE Numbers
<1>1. CASE Ingested \/ MapDeleted \/ TickSkipped \/ UNCHANGED vars
  BY <1>1 DEF Ingested, MapDeleted, TickSkipped, vars, announcerVars, PageInv
<1>2. CASE Expire
  BY <1>2 DEF Expire, PageInv
<1>3. CASE Tick
  BY <1>3 DEF Tick, PageInv
<1>4. CASE FetchCached
  BY <1>4, CacheHit DEF FetchCached, PageInv, After
<1>5. CASE ReadRows
  BY <1>5, RowsRead DEF ReadRows, PageInv, After
<1>6. CASE ReadMax
  <2>1. page'.recs = page.recs
    BY <1>6 DEF ReadMax, Pages
  <2>2. Above(page', After(mem))
    BY <1>6, <2>1 DEF ReadMax, PageInv, Above
  <2>3. cached' # NoEntry => Above(cached'.answer, cached'.after)
    <3>1. CASE cached' = cached
      BY <3>1 DEF PageInv
    <3>2. CASE cached' = [after |-> After(mem), answer |-> page']
      BY <3>2, <2>2
    <3> QED
      BY <1>6, <3>1, <3>2 DEF ReadMax
  <2> QED
    BY <1>6, <2>2, <2>3 DEF ReadMax, PageInv, After
<1>7. CASE FetchFails \/ PostAnswerLost \/ PostFails
  BY <1>7 DEF FetchFails, PostAnswerLost, PostFails, PollFails, PollEnds,
              PageInv
<1>8. CASE RateLimited
  BY <1>8 DEF RateLimited, PollFails, PollEnds, PageInv
<1>9. CASE Baseline \/ NothingNew \/ NoneQualify \/ Finish
  BY <1>9 DEF Baseline, NothingNew, NoneQualify, Finish, PollEnds, PageInv
<1>10. CASE Announce
  <2>1. /\ mem # None /\ page.recs # {} /\ left' = page.recs
        /\ pc' = "posting" /\ UNCHANGED <<mem, page, cached>>
    BY <1>10 DEF Announce
  <2>2. \A i \in page.recs : i > mem
    BY <1>10, <2>1 DEF Announce, PageInv, Above
  <2>3. Greatest(page.recs) \in page.recs
    BY <2>1, GreatestOf
  <2>4. mem <= Greatest(page.recs)
    BY <2>2, <2>3
  <2> QED
    BY <2>1, <2>2, <2>4 DEF PageInv
<1>11. CASE PostLands
  BY <1>11 DEF PostLands, PageInv
<1>12. CASE OnBatchPosted
  <2> DEFINE c == Greatest(NextBatch)
  <2>1. /\ pc = "landed" /\ pc' = "posting" /\ mem' = c
        /\ left' = left \ NextBatch /\ UNCHANGED <<page, cached>>
    BY <1>12 DEF OnBatchPosted, Advance
  <2>2. /\ mem # None /\ page.recs # {} /\ left # {}
        /\ \A i \in left : i > mem
        /\ \A i \in page.recs \ left : i <= mem
    BY <2>1 DEF PageInv
  <2>3. /\ NextBatch \subseteq left /\ c \in NextBatch /\ c \in Nat
        /\ \A i \in NextBatch : i <= c
        /\ \A i \in left \ NextBatch : i > c
    BY <2>2, BatchEnd
  <2> HIDE DEF c
  <2>4. c \in page.recs /\ c > mem
    BY <2>2, <2>3
  <2>5. c <= Greatest(page.recs)
    BY <2>4, <2>2, GreatestOf
  <2>6. \A i \in page.recs \ left' : i <= c
    <3> SUFFICES ASSUME NEW i \in page.recs \ left' PROVE i <= c
      OBVIOUS
    <3>1. CASE i \in NextBatch
      BY <3>1, <2>3
    <3>2. CASE i \in page.recs \ left
      BY <3>2, <2>2, <2>3, <2>4
    <3> QED
      BY <3>1, <3>2, <2>1
  <2>7. c # None
    BY <2>3 DEF None
  <2> QED
    BY <2>1, <2>2, <2>3, <2>5, <2>6, <2>7 DEF PageInv
<1>13. CASE Crash
  BY <1>13 DEF Crash, PageInv
<1>14. CASE Start \/ StartUnreadable
  BY <1>14 DEF Start, StartUnreadable, PageInv
<1> QED
  BY <1>1, <1>2, <1>3, <1>4, <1>5, <1>6, <1>7, <1>8, <1>9, <1>10, <1>11,
     <1>12, <1>13, <1>14 DEF Next, Step, Failure

-----------------------------------------------------------------------------
(* No record is skipped outside the window.                                *)

\* What a page covers, it still covers after rows were committed or deleted.
LEMMA CoversLater ==
  ASSUME NEW T, NEW U, NEW u \in Nat, NEW p \in Pages, NEW a \in Int,
         \A i \in U : i \in T \/ (i \in Nat /\ i > u),
         Covers(T, p, a), Within(u, p)
  PROVE  Covers(U, p, a)
<1>1. p.recs \in SUBSET Ids /\ p.maxId \in Nat
  BY DEF Pages
<1>2. Greatest(p.recs) \in Nat /\ Greatest(p.recs) <= u
  <2>1. CASE p.recs = {}
    BY <2>1 DEF Greatest
  <2>2. CASE p.recs # {}
    BY <2>2, <1>1, GreatestOf, GreatestType, MaxIdAssumption DEF Within
  <2> QED
    BY <2>1, <2>2
<1> SUFFICES ASSUME NEW i \in U, i > a
             PROVE  \/ i \in p.recs
                    \/ /\ i > Greatest(p.recs)
                       /\ Full(p.recs) \/ i > p.maxId
  BY DEF Covers
<1>3. CASE i \in T
  BY <1>3 DEF Covers
<1>4. CASE i \in Nat /\ i > u
  BY <1>1, <1>2, <1>4 DEF Within
<1> QED
  BY <1>3, <1>4

\* Steps that change nothing but the table and the window.
LEMMA FeedStep ==
  ASSUME TypeOK, TypeOK', CoverInv, used <= used',
         \A i \in Standing' : i \in Standing \/ i > used,
         pc = "max" => Standing' \subseteq Standing,
         UNCHANGED <<pc, mem, disk, page, left, cached, posted, base>>
  PROVE  CoverInv'
<1>1. used \in Nat /\ used' \in Nat /\ \A i \in Standing' : i \in Nat
  BY FeedIds, FeedIds, MaxIdAssumption DEF TypeOK, FeedTypeOK, Standing
<1>2. mem \in Int /\ disk \in Int /\ base \in Nat /\ page \in Pages
      /\ After(mem) \in Nat
  BY DEF TypeOK, Cursors, None, After
<1>3. CursorInv'
  <2>1. mem' <= used' /\ disk' <= used'
    BY <1>1, <1>2 DEF CoverInv, CursorInv
  <2>2. ASSUME NEW c \in Int, c <= used, NoSkip(Standing, base, c, posted)
        PROVE  NoSkip(Standing', base, c, posted)
    <3> SUFFICES ASSUME NEW i \in Standing', base < i, i <= c
                 PROVE  posted[i] > 0
      BY DEF NoSkip
    <3>1. i \in Standing
      BY <1>1, <2>2
    <3> QED
      BY <2>2, <3>1 DEF NoSkip
  <2> QED
    BY <1>2, <2>1, <2>2 DEF CoverInv, CursorInv
<1>4. \A q \in Pages : Within(used, q) => Within(used', q)
  <2> SUFFICES ASSUME NEW q \in Pages, Within(used, q) PROVE Within(used', q)
    OBVIOUS
  <2>1. q.maxId \in Nat /\ \A i \in q.recs : i \in Nat
    BY MaxIdAssumption DEF Pages, Ids
  <2> QED
    BY <1>1, <2>1 DEF Within
<1>5. \A q \in Pages : \A a \in Int :
        Covers(Standing, q, a) /\ Within(used, q) => Covers(Standing', q, a)
  BY <1>1, CoversLater
<1>6. CacheInv'
  <2>1. CASE cached = NoEntry
    BY <2>1 DEF CacheInv
  <2>2. CASE cached # NoEntry
    <3>1. cached.answer \in Pages /\ cached.after \in Int
      BY <2>2 DEF TypeOK
    <3> QED
      BY <2>2, <3>1, <1>4, <1>5 DEF CoverInv, CacheInv
  <2> QED
    BY <2>1, <2>2
<1>7. FetchInv'
  <2>1. CASE pc = "max"
    <3>1. RowsCover(Standing', page.recs, After(mem))
      BY <2>1 DEF CoverInv, FetchInv, RowsCover
    <3> QED
      BY <2>1, <3>1, <1>2, <1>4 DEF CoverInv, FetchInv, After
  <2>2. CASE pc = "page"
    BY <2>2, <1>2, <1>4, <1>5 DEF CoverInv, FetchInv, After
  <2> QED
    BY <2>1, <2>2 DEF FetchInv
<1>8. PostInv'
  <2>1. CASE pc \in {"posting", "landed"}
    <3>1. Covers(Standing', page, mem) /\ Within(used', page)
      BY <2>1, <1>2, <1>4, <1>5 DEF CoverInv, PostInv
    <3> QED
      BY <2>1, <3>1 DEF CoverInv, PostInv, NextBatch
  <2> QED
    BY <2>1 DEF PostInv
<1> QED
  BY <1>3, <1>6, <1>7, <1>8 DEF CoverInv

\* Polling, failing and restarting leave the table and the window alone.
LEMMA CursorStep ==
  ASSUME TypeOK, CoverInv, UNCHANGED <<top, used, window, posted>>,
         base' \in Nat, base <= base', NEW c \in Nat, c <= used,
         NoSkip(Standing, base', c, posted),
         mem' = c, disk' \in {disk, c}
  PROVE  CursorInv'
<1>1. \A i \in Standing : i \in Nat
  BY FeedIds DEF TypeOK, Standing
<1>2. Standing' = Standing
  BY DEF Standing
<1>3. NoSkip(Standing, base', disk, posted) /\ disk <= used
  BY <1>1, Numbers DEF CoverInv, CursorInv, NoSkip
<1> QED
  BY <1>2, <1>3 DEF CursorInv

\* Announcing again takes nothing back.
LEMMA PostedGrows ==
  ASSUME posted \in [Ids -> Nat], NEW b, posted' = Posted(b)
  PROVE  \A i \in Ids : /\ posted[i] > 0 => posted'[i] > 0
                        /\ i \in b => posted'[i] > 0
BY DEF Posted

\* A step that only adds announcements keeps both cursors.
LEMMA PostStep ==
  ASSUME TypeOK, CoverInv, UNCHANGED <<top, used, window, mem, disk, base>>,
         \A i \in Ids : posted[i] > 0 => posted'[i] > 0
  PROVE  CursorInv'
<1>1. \A i \in Standing : i \in Ids
  BY FeedIds DEF TypeOK, Standing
<1>2. Standing' = Standing
  BY DEF Standing
<1> QED
  BY <1>1, <1>2 DEF CoverInv, CursorInv, NoSkip

\* A poll has ended, or has not begun.
LEMMA Between ==
  ASSUME TypeOK, CoverInv, CursorInv', pc' \in {"down", "idle", "rows"},
         UNCHANGED <<top, used, window, cached>>
  PROVE  CoverInv'
BY DEF CoverInv, CacheInv, FetchInv, PostInv, Standing

\* A page that is handled to its end leaves nothing behind its final cursor.
LEMMA FinalCovers ==
  ASSUME TypeOK, PageInv, CoverInv, pc = "posting", left = {}
  PROVE  /\ FinalCursor(page) \in Nat /\ FinalCursor(page) <= used
         /\ mem <= FinalCursor(page)
         /\ NoSkip(Standing, base, FinalCursor(page), posted)
<1> DEFINE g == Greatest(page.recs)
           m == Greatest({page.maxId, g})
           c == FinalCursor(page)
<1> USE Numbers
<1>1. /\ g \in Nat /\ mem <= g /\ page.recs # {}
      /\ Covers(Standing, page, mem) /\ Within(used, page)
      /\ \A i \in page.recs : posted[i] > 0
      /\ NoSkip(Standing, base, mem, posted)
  BY DEF PageInv, CoverInv, PostInv, CursorInv
<1>2. g \in page.recs
  BY <1>1, GreatestOf
<1>3. g <= used /\ page.maxId <= used
  BY <1>1, <1>2 DEF Within
<1>4. m \in {page.maxId, g} /\ g <= m /\ page.maxId <= m
  BY <1>1, GreatestPair
<1>5. c = IF Full(page.recs) THEN g ELSE m
  BY DEF FinalCursor, Full
<1>6. \A i \in Standing : i \in Nat
  BY FeedIds DEF TypeOK, Standing
<1> HIDE DEF g, m, c
<1>7. c \in Nat /\ c <= used /\ mem <= c
  BY <1>1, <1>3, <1>4, <1>5
<1>8. NoSkip(Standing, base, c, posted)
  <2> SUFFICES ASSUME NEW i \in Standing, base < i, i <= c
               PROVE  posted[i] > 0
    BY DEF NoSkip
  <2>1. CASE i <= mem
    BY <2>1, <1>1 DEF NoSkip
  <2>2. CASE i > mem
    <3>1. i \in page.recs \/ (i > g /\ (Full(page.recs) \/ i > page.maxId))
      BY <2>2, <1>1 DEF Covers, g
    <3>2. i \in page.recs
      BY <3>1, <1>1, <1>4, <1>5, <1>6
    <3> QED
      BY <3>2, <1>1
  <2> QED
    BY <2>1, <2>2, <1>6
<1> QED
  BY <1>7, <1>8 DEF c

\* The same for a cursor that moves onto the last id of a batch.
LEMMA BatchCovers ==
  ASSUME TypeOK, PageInv, CoverInv, pc = "landed"
  PROVE  /\ Greatest(NextBatch) \in Nat /\ Greatest(NextBatch) <= used
         /\ mem < Greatest(NextBatch)
         /\ NoSkip(Standing, base, Greatest(NextBatch), posted)
         /\ Covers(Standing, page, Greatest(NextBatch))
<1> DEFINE c == Greatest(NextBatch)
<1> USE Numbers
<1>1. /\ left # {} /\ page.recs # {}
      /\ \A i \in left : i > mem
      /\ Covers(Standing, page, mem) /\ Within(used, page)
      /\ \A i \in page.recs \ left : posted[i] > 0
      /\ \A i \in NextBatch : posted[i] > 0
      /\ NoSkip(Standing, base, mem, posted)
  BY DEF PageInv, CoverInv, PostInv, CursorInv
<1>2. /\ NextBatch \subseteq left /\ c \in NextBatch /\ c \in Nat
      /\ \A i \in left \ NextBatch : i > c
  BY <1>1, BatchEnd
<1>3. \A i \in Standing : i \in Nat
  BY FeedIds DEF TypeOK, Standing
<1> HIDE DEF c
<1>4. c \in page.recs /\ c > mem
  BY <1>1, <1>2
<1>5. c <= used /\ c <= Greatest(page.recs)
  BY <1>1, <1>4, GreatestOf DEF Within
<1>6. NoSkip(Standing, base, c, posted)
  <2> SUFFICES ASSUME NEW i \in Standing, base < i, i <= c
               PROVE  posted[i] > 0
    BY DEF NoSkip
  <2>1. CASE i <= mem
    BY <2>1, <1>1 DEF NoSkip
  <2>2. CASE i > mem
    <3>1. i \in page.recs \/ i > Greatest(page.recs)
      BY <2>2, <1>1 DEF Covers
    <3>2. i \in page.recs
      BY <3>1, <1>2, <1>3, <1>5
    <3>3. i \notin left \ NextBatch
      BY <1>2, <1>3
    <3> QED
      BY <3>2, <3>3, <1>1
  <2> QED
    BY <2>1, <2>2, <1>3
<1>7. Covers(Standing, page, c)
  <2>1. \A i \in Standing : i > c => i > mem
    BY <1>2, <1>3, <1>4
  <2> QED
    BY <2>1, <1>1 DEF Covers
<1> QED
  BY <1>2, <1>4, <1>5, <1>6, <1>7 DEF c

\* Every step keeps what the pages and the cursors cover.
LEMMA CoverNext ==
  ASSUME MaxPerPoll <= ServerCap,
         TypeOK, TypeOK', PageInv, CoverInv, [Next]_vars
  PROVE  CoverInv'
<1> USE Numbers
<1>0. /\ \A i \in Standing : i \in top /\ i \in Ids /\ i \in Nat /\ i <= used
      /\ MaxPerPoll \in Nat \ {0} /\ ServerCap \in Nat
  BY FeedIds, AnnouncerAssumption DEF TypeOK, Standing
<1>1. CASE Ingested
  <2>1. used <= used' /\ \A i \in top' : i \in top \/ (i > used /\ i \in race' \ race)
    BY <1>1, CommitEffect DEF TypeOK, Ingested
  <2>2. window \subseteq window' /\ (pc = "max" => race' \ race \subseteq window')
    BY <1>1 DEF Ingested
  <2>3. /\ \A i \in Standing' : i \in Standing \/ i > used
        /\ pc = "max" => Standing' \subseteq Standing
    BY <2>1, <2>2 DEF Standing
  <2>4. UNCHANGED <<pc, mem, disk, page, left, cached, posted, base>>
    BY <1>1 DEF Ingested
  <2> QED
    BY <2>1, <2>3, <2>4, FeedStep
<1>2. CASE MapDeleted
  <2>1. used' = used /\ top' \subseteq top
    BY <1>2, DeleteEffect DEF TypeOK, MapDeleted
  <2>2. UNCHANGED <<pc, mem, disk, page, left, cached, posted, base, window>>
    BY <1>2 DEF MapDeleted, announcerVars
  <2>3. Standing' \subseteq Standing /\ used <= used'
    BY <2>1, <2>2 DEF Standing
  <2> QED
    BY <2>2, <2>3, FeedStep
<1>3. CASE Expire
  BY <1>3 DEF Expire, CoverInv, CursorInv, CacheInv, FetchInv, PostInv,
              Standing, After, NextBatch
<1>4. CASE TickSkipped \/ UNCHANGED vars
  BY <1>4 DEF TickSkipped, vars, CoverInv, CursorInv, CacheInv, FetchInv,
              PostInv, Standing, After, NextBatch
<1>5. CASE Tick \/ FetchFails \/ NothingNew \/ PostFails
  <2>1. /\ UNCHANGED <<top, used, window, mem, disk, base, posted, cached>>
        /\ pc' \in {"idle", "rows"}
    BY <1>5 DEF Tick, FetchFails, NothingNew, PostFails, PollFails, PollEnds
  <2> QED
    BY <2>1, PostStep, Between
<1>6. CASE FetchCached
  <2>1. /\ pc' = "page" /\ page' = cached.answer
        /\ UNCHANGED <<top, used, window, mem, disk, base, posted, cached>>
    BY <1>6 DEF FetchCached
  <2>2. /\ Covers(Standing, cached.answer, After(mem))
        /\ Within(used, cached.answer)
    BY <1>6, CacheHit DEF CoverInv, CacheInv
  <2>3. CursorInv'
    BY <2>1, PostStep
  <2> QED
    BY <2>1, <2>2, <2>3
       DEF CoverInv, CacheInv, FetchInv, PostInv, Standing, After
<1>7. CASE ReadRows
  <2> DEFINE S == {i \in top : i > After(mem)}
  <2>1. /\ pc' = "max"
        /\ UNCHANGED <<top, used, window, mem, disk, base, posted, cached>>
    BY <1>7 DEF ReadRows
  <2>2. SmallerOf(ServerCap, MaxPerPoll) = MaxPerPoll
    BY <1>0 DEF SmallerOf
  <2>3. /\ page'.recs = Lowest(S, MaxPerPoll) /\ page'.maxId = 0
        /\ page'.recs \subseteq top
    BY <1>7, <2>2, RowsRead
  <2>4. S \in SUBSET Ids
    BY FeedIds DEF TypeOK
  <2>5. \A i \in Standing : i > After(mem) => i \in S
    BY <1>0
  <2> HIDE DEF S
  <2>6. RowsCover(Standing, page'.recs, After(mem))
    <3> SUFFICES ASSUME NEW i \in Standing, i > After(mem),
                        i \notin page'.recs
                 PROVE  i > Greatest(page'.recs) /\ Full(page'.recs)
      BY DEF RowsCover
    <3>1. i \in S
      BY <2>5
    <3> QED
      BY <3>1, <1>0, <2>3, <2>4, LowestLeavesOut DEF Full
  <2>7. Within(used, page')
    BY <2>3, FeedIds DEF TypeOK, Within
  <2>8. CursorInv'
    BY <2>1, PostStep
  <2> QED
    BY <2>1, <2>6, <2>7, <2>8
       DEF CoverInv, CacheInv, FetchInv, PostInv, Standing, After
<1>8. CASE ReadMax
  <2>1. /\ pc = "max" /\ pc' = "page"
        /\ page'.recs = page.recs /\ page'.maxId = Greatest(race)
        /\ cached' \in {cached, [after |-> After(mem), answer |-> page']}
        /\ UNCHANGED <<top, used, window, mem, disk, base, posted>>
    BY <1>8 DEF ReadMax, Pages
  <2>2. Greatest(race) <= used
    <3>1. race \in SUBSET Ids /\ \A i \in race : i <= used
      BY FeedIds DEF TypeOK, FeedTypeOK
    <3>2. CASE race = {}
      BY <3>2 DEF Greatest
    <3>3. CASE race # {}
      BY <3>1, <3>3, GreatestOf
    <3> QED
      BY <3>2, <3>3
  <2>3. Covers(Standing, page', After(mem))
    BY <2>1 DEF CoverInv, FetchInv, RowsCover, Covers
  <2>4. Within(used, page')
    BY <2>1, <2>2 DEF CoverInv, FetchInv, Within
  <2>5. CursorInv'
    BY <2>1, PostStep
  <2>6. CacheInv'
    <3>1. CASE cached' = cached
      BY <3>1, <2>1 DEF CoverInv, CacheInv, Standing
    <3>2. CASE cached' = [after |-> After(mem), answer |-> page']
      BY <3>2, <2>1, <2>3, <2>4 DEF CacheInv, Standing
    <3> QED
      BY <2>1, <3>1, <3>2
  <2> QED
    BY <2>1, <2>3, <2>4, <2>5, <2>6
       DEF CoverInv, FetchInv, PostInv, Standing, After
<1>9. CASE Baseline
  <2>1. /\ pc = "page" /\ pc' = "idle" /\ mem' = page.maxId
        /\ disk' \in {disk, page.maxId}
        /\ base' = Greatest({base, page.maxId})
        /\ UNCHANGED <<top, used, window, posted, cached>>
    BY <1>9 DEF Baseline, Advance, PollEnds
  <2>2. base' \in Nat /\ base <= base' /\ page.maxId <= base'
    BY <2>1, GreatestPair
  <2>3. page.maxId <= used
    BY <2>1 DEF CoverInv, FetchInv, Within
  <2>4. NoSkip(Standing, base', page.maxId, posted)
    BY <1>0, <2>2 DEF NoSkip
  <2>5. CursorInv'
    BY <2>1, <2>2, <2>3, <2>4, CursorStep
  <2> QED
    BY <2>1, <2>5, Between
<1>10. CASE NoneQualify
  <2>1. /\ pc = "page" /\ pc' = "idle" /\ mem' = page.maxId /\ mem # None
        /\ disk' \in {disk, page.maxId} /\ page.recs = {}
        /\ UNCHANGED <<top, used, window, posted, cached, base>>
    BY <1>10 DEF NoneQualify, Advance, PollEnds
  <2>2. Covers(Standing, page, mem) /\ page.maxId <= used
    BY <2>1 DEF CoverInv, FetchInv, Within
  <2>3. ~Full({})
    BY <1>0, FS_EmptySet DEF Full
  <2>4. NoSkip(Standing, base, page.maxId, posted)
    <3> SUFFICES ASSUME NEW i \in Standing, base < i, i <= page.maxId
                 PROVE  posted[i] > 0
      BY DEF NoSkip
    <3>1. ~(i > page.maxId)
      BY <1>0
    <3>2. ~(i > mem)
      BY <2>1, <2>2, <2>3, <3>1 DEF Covers
    <3> QED
      BY <1>0, <3>2 DEF CoverInv, CursorInv, NoSkip
  <2>5. CursorInv'
    BY <2>1, <2>2, <2>4, CursorStep
  <2> QED
    BY <2>1, <2>5, Between
<1>11. CASE Announce
  <2>1. /\ pc = "page" /\ pc' = "posting" /\ left' = page.recs /\ mem # None
        /\ UNCHANGED <<top, used, window, mem, disk, base, posted, cached, page>>
    BY <1>11 DEF Announce
  <2>2. CursorInv'
    BY <2>1, PostStep
  <2> QED
    BY <2>1, <2>2 DEF CoverInv, CacheInv, FetchInv, PostInv, Standing
<1>12. CASE PostLands
  <2>1. /\ pc = "posting" /\ pc' = "landed" /\ posted' = Posted(NextBatch)
        /\ UNCHANGED <<top, used, window, mem, disk, base, cached, page, left>>
    BY <1>12 DEF PostLands
  <2>2. \A i \in Ids : /\ posted[i] > 0 => posted'[i] > 0
                       /\ i \in NextBatch => posted'[i] > 0
    BY <2>1, PostedGrows DEF TypeOK
  <2>3. CursorInv'
    BY <2>1, <2>2, PostStep
  <2>4. /\ \A i \in NextBatch : posted'[i] > 0
        /\ \A i \in page.recs \ left : posted'[i] > 0
    BY <2>1, <2>2, BatchSubset DEF CoverInv, PostInv
  <2>5. NextBatch' = NextBatch
    BY <2>1 DEF NextBatch
  <2> QED
    BY <2>1, <2>3, <2>4, <2>5
       DEF CoverInv, CacheInv, FetchInv, PostInv, Standing
<1>13. CASE PostAnswerLost
  <2>1. /\ pc' = "idle" /\ posted' = Posted(NextBatch)
        /\ UNCHANGED <<top, used, window, mem, disk, base, cached>>
    BY <1>13 DEF PostAnswerLost, PollFails, PollEnds
  <2>2. \A i \in Ids : posted[i] > 0 => posted'[i] > 0
    BY <2>1, PostedGrows DEF TypeOK
  <2> QED
    BY <2>1, <2>2, PostStep, Between
<1>14. CASE RateLimited
  <2>1. /\ UNCHANGED <<top, used, window, mem, disk, base, posted, cached>>
        /\ pc' = "idle" \/ UNCHANGED <<pc, page, left>>
    BY <1>14 DEF RateLimited, PollFails, PollEnds
  <2>2. CursorInv'
    BY <2>1, PostStep
  <2>3. CASE pc' = "idle"
    BY <2>1, <2>2, <2>3, Between
  <2>4. CASE UNCHANGED <<pc, page, left>>
    BY <2>1, <2>2, <2>4 DEF CoverInv, CacheInv, FetchInv, PostInv, Standing,
                            After, NextBatch
  <2> QED
    BY <2>1, <2>3, <2>4
<1>15. CASE OnBatchPosted
  <2> DEFINE c == Greatest(NextBatch)
  <2>1. /\ pc = "landed" /\ pc' = "posting" /\ mem' = c /\ disk' \in {disk, c}
        /\ left' = left \ NextBatch
        /\ UNCHANGED <<top, used, window, posted, cached, base, page>>
    BY <1>15 DEF OnBatchPosted, Advance
  <2>2. /\ c \in Nat /\ c <= used /\ NoSkip(Standing, base, c, posted)
        /\ Covers(Standing, page, c)
    BY <2>1, BatchCovers
  <2> HIDE DEF c
  <2>3. CursorInv'
    BY <2>1, <2>2, CursorStep
  <2>4. \A i \in page.recs \ left' : posted[i] > 0
    BY <2>1 DEF CoverInv, PostInv
  <2> QED
    BY <2>1, <2>2, <2>3, <2>4
       DEF CoverInv, CacheInv, FetchInv, PostInv, Standing
<1>16. CASE Finish
  <2>1. /\ pc = "posting" /\ pc' = "idle" /\ mem' = FinalCursor(page)
        /\ left = {} /\ disk' \in {disk, FinalCursor(page)}
        /\ UNCHANGED <<top, used, window, posted, cached, base>>
    BY <1>16 DEF Finish, Advance, PollEnds
  <2>2. CursorInv'
    BY <2>1, FinalCovers, CursorStep
  <2> QED
    BY <2>1, <2>2, Between
<1>17. CASE Crash \/ StartUnreadable
  <2>1. /\ mem' = -1 /\ pc' \in {"down", "idle"}
        /\ UNCHANGED <<top, used, window, posted, cached, base, disk>>
    BY <1>17 DEF Crash, StartUnreadable, None
  <2>2. CursorInv'
    BY <1>0, <2>1 DEF CoverInv, CursorInv, NoSkip, Standing
  <2> QED
    BY <2>1, <2>2, Between
<1>18. CASE Start
  <2>1. /\ mem' = disk /\ pc' = "idle"
        /\ UNCHANGED <<top, used, window, posted, cached, base, disk>>
    BY <1>18 DEF Start
  <2>2. CursorInv'
    BY <2>1 DEF CoverInv, CursorInv, Standing
  <2> QED
    BY <2>1, <2>2, Between
<1> QED
  BY <1>1, <1>2, <1>3, <1>4, <1>5, <1>6, <1>7, <1>8, <1>9, <1>10, <1>11,
     <1>12, <1>13, <1>14, <1>15, <1>16, <1>17, <1>18 DEF Next, Step, Failure

\* Before the first poll nothing is covered and nothing needs to be.
LEMMA CoverInit ==
  ASSUME Init
  PROVE  PageInv /\ CoverInv
BY DEF Init, FeedInit, PageInv, CoverInv, CursorInv, CacheInv, FetchInv,
       PostInv, NoSkip, Standing, None

\* As long as the server does not cut pages below the size the announcer
\* takes for a full one, every state covers what it must.
THEOREM Covered ==
  ASSUME MaxPerPoll <= ServerCap
  PROVE  Spec => [](TypeOK /\ PageInv /\ CoverInv)
<1> DEFINE Inv == TypeOK /\ PageInv /\ CoverInv
<1>1. Init => Inv
  BY TypeInit, CoverInit
<1>2. Inv /\ [Next]_vars => Inv'
  <2> SUFFICES ASSUME Inv, [Next]_vars PROVE Inv'
    OBVIOUS
  <2>1. TypeOK'
    BY TypeNext
  <2>2. PageInv'
    BY PageNext
  <2>3. CoverInv'
    BY <2>1, CoverNext
  <2> QED
    BY <2>1, <2>2, <2>3
<1> QED
  BY <1>1, <1>2, PTL DEF Spec

\* poll() and postEmbeds() pass over no standing record, whatever fails and
\* whenever the process dies, except those committed between the two reads
\* of one answer - provided MAX_PER_POLL is within the server's limit.
THEOREM NoSkipOutsideWindow ==
  ASSUME MaxPerPoll <= ServerCap
  PROVE  Spec => []SkipsOnlyInWindow
<1>1. TypeOK /\ CoverInv => SkipsOnlyInWindow
  <2> SUFFICES ASSUME TypeOK, CoverInv, NEW i \in Skipped, i \notin window
               PROVE  FALSE
    BY DEF SkipsOnlyInWindow
  <2>1. i \in Standing /\ base < i /\ i <= mem /\ posted[i] = 0
    BY DEF Skipped, Standing
  <2>2. posted[i] > 0
    BY <2>1 DEF CoverInv, CursorInv, NoSkip
  <2> QED
    BY <2>1, <2>2
<1> QED
  BY <1>1, Covered, PTL

-----------------------------------------------------------------------------
(* The cursor of a running announcer only moves forward.                   *)

\* The final cursor of a page is at or above the cursor that posted it.
LEMMA FinalForward ==
  ASSUME TypeOK, PageInv, pc = "posting"
  PROVE  mem <= FinalCursor(page)
<1> USE Numbers
<1>1. mem <= Greatest(page.recs) /\ Greatest(page.recs) \in Nat
  BY DEF PageInv
<1>2. /\ Greatest({page.maxId, Greatest(page.recs)}) \in Nat
      /\ Greatest(page.recs) <= Greatest({page.maxId, Greatest(page.recs)})
  BY <1>1, GreatestPair
<1> QED
  BY <1>1, <1>2 DEF FinalCursor

\* No step moves it back.
LEMMA ForwardStep ==
  ASSUME TypeOK, PageInv, [Next]_vars, mem # None, mem' # None
  PROVE  mem' >= mem
<1> USE Numbers
<1>1. CASE UNCHANGED mem
  BY <1>1
<1>2. CASE NoneQualify
  BY <1>2 DEF NoneQualify, Advance
<1>3. CASE OnBatchPosted
  <2>1. pc = "landed" /\ mem' = Greatest(NextBatch)
    BY <1>3 DEF OnBatchPosted, Advance
  <2>2. left # {} /\ \A i \in left : i > mem
    BY <2>1 DEF PageInv
  <2>3. Greatest(NextBatch) \in left /\ Greatest(NextBatch) \in Nat
    BY <2>2, BatchEnd
  <2> QED
    BY <2>1, <2>2, <2>3
<1>4. CASE Finish
  <2>1. pc = "posting" /\ mem' = FinalCursor(page)
    BY <1>4 DEF Finish, Advance
  <2>2. FinalCursor(page) \in Nat
    BY FinalCursorType
  <2> QED
    BY <2>1, <2>2, FinalForward
<1>5. CASE Baseline \/ Crash \/ Start \/ StartUnreadable
  BY <1>5 DEF Baseline, Crash, Start, StartUnreadable, PageInv
<1> QED
  BY <1>1, <1>2, <1>3, <1>4, <1>5
     DEF Next, Step, Failure, vars, announcerVars, Ingested, MapDeleted,
         Expire, TickSkipped, Tick, FetchCached, ReadRows, ReadMax,
         FetchFails, NothingNew, Announce, PostLands, PostAnswerLost,
         PostFails, RateLimited

\* The pages are right in every reachable state.
LEMMA PagesRight ==
  Spec => [](TypeOK /\ PageInv)
<1> DEFINE Inv == TypeOK /\ PageInv
<1>1. Init => Inv
  BY TypeInit, CoverInit
<1>2. Inv /\ [Next]_vars => Inv'
  BY TypeNext, PageNext
<1> QED
  BY <1>1, <1>2, PTL DEF Spec

\* state.lastId never decreases while the process runs, although MAX(id)
\* does when the newest row is deleted and cached answers are older.
THEOREM CursorNeverBack == Spec => CursorForward
<1>1. TypeOK /\ PageInv /\ [Next]_vars
        => [(mem # None /\ mem' # None) => mem' >= mem]_vars
  BY ForwardStep
<1> QED
  BY <1>1, PagesRight, PTL DEF Spec, CursorForward

-----------------------------------------------------------------------------
(* Nothing is announced twice except in doubt.                             *)

\* Every step keeps the announcements that are not in doubt below the cursor.
LEMMA TraceNext ==
  ASSUME TypeOK, PageInv, TraceInv, [Next]_vars
  PROVE  TraceInv'
<1> USE Numbers
<1>0. /\ posted \in [Ids -> Nat] /\ \A i \in Ids : i \in Nat
      /\ After(disk) \in Nat
  BY MaxIdAssumption DEF TypeOK, Ids, After, Cursors, None
<1>1. CASE UNCHANGED <<pc, mem, disk, left, posted, doubt>>
  BY <1>1 DEF TraceInv, Traced, AnnouncedTwiceOnlyInDoubt, NextBatch, After
<1>2. CASE /\ pc \notin {"down", "landed"} /\ pc' \notin {"down", "landed"}
           /\ UNCHANGED <<posted, doubt>> /\ After(mem') >= After(mem)
           /\ After(mem') \in Nat
  <2>1. \A i \in Ids : posted[i] > 0 /\ i \notin doubt => i <= After(mem')
    BY <1>0, <1>2 DEF TraceInv, Traced
  <2> QED
    BY <1>2, <2>1 DEF TraceInv, Traced, AnnouncedTwiceOnlyInDoubt, After
<1>3. CASE PostLands \/ PostAnswerLost
  <2>1. /\ pc = "posting" /\ left # {} /\ mem' = mem
        /\ posted' = Posted(NextBatch)
    BY <1>3 DEF PostLands, PostAnswerLost
  <2>2. /\ \A i \in Ids : posted[i] > 0 /\ i \notin doubt => i <= mem
        /\ \A i \in NextBatch : i > mem
        /\ \A i \in Ids : posted[i] > 1 => i \in doubt
        /\ mem # None
    BY <2>1, BatchSubset DEF TraceInv, Traced, PageInv,
                             AnnouncedTwiceOnlyInDoubt
  <2>3. \A i \in Ids : posted'[i] = IF i \in NextBatch THEN posted[i] + 1
                                                      ELSE posted[i]
    BY <2>1 DEF Posted
  <2>4. \A i \in Ids : posted'[i] > 1 => i \in doubt
    <3> SUFFICES ASSUME NEW i \in Ids, posted'[i] > 1, i \notin doubt
                 PROVE  FALSE
      OBVIOUS
    <3>1. i \in NextBatch /\ posted[i] > 0
      BY <1>0, <2>2, <2>3
    <3>2. i <= mem /\ i > mem /\ i \in Nat
      BY <1>0, <2>2, <3>1
    <3> QED
      BY <3>2
  <2>5. \A i \in Ids : posted'[i] > 0 /\ i \notin doubt
                          => i <= mem \/ i \in NextBatch
    BY <2>2, <2>3
  <2>6. CASE PostLands
    <3>1. pc' = "landed" /\ doubt' = doubt /\ left' = left
      BY <2>6 DEF PostLands
    <3>2. NextBatch' = NextBatch
      BY <3>1 DEF NextBatch
    <3> QED
      BY <2>1, <2>4, <2>5, <3>1, <3>2
         DEF TraceInv, AnnouncedTwiceOnlyInDoubt
  <2>7. CASE PostAnswerLost
    <3>1. pc' = "idle" /\ doubt' = doubt \cup NextBatch
      BY <2>7 DEF PostAnswerLost, PollFails, PollEnds
    <3>2. \A i \in Ids : posted'[i] > 0 /\ i \notin doubt' => i <= After(mem')
      BY <2>1, <2>2, <2>5, <3>1
    <3> QED
      BY <2>4, <3>1, <3>2 DEF TraceInv, Traced, AnnouncedTwiceOnlyInDoubt
  <2> QED
    BY <1>3, <2>6, <2>7
<1>4. CASE OnBatchPosted
  <2>1. /\ pc = "landed" /\ pc' = "posting" /\ mem' = Greatest(NextBatch)
        /\ UNCHANGED <<posted, doubt>>
    BY <1>4 DEF OnBatchPosted, Advance
  <2>2. left # {} /\ \A i \in left : i > mem
    BY <2>1 DEF PageInv
  <2>3. /\ NextBatch \subseteq left /\ mem' \in NextBatch /\ mem' \in Nat
        /\ \A i \in NextBatch : i <= mem'
    BY <2>1, <2>2, BatchEnd
  <2>4. \A i \in Ids : posted[i] > 0 /\ i \notin doubt => i <= mem'
    <3> SUFFICES ASSUME NEW i \in Ids, posted[i] > 0, i \notin doubt
                 PROVE  i <= mem'
      OBVIOUS
    <3>1. i <= mem \/ i \in NextBatch
      BY <2>1 DEF TraceInv
    <3>2. mem' > mem
      BY <2>2, <2>3
    <3> QED
      BY <1>0, <2>3, <3>1, <3>2
  <2>5. mem' # None /\ After(mem') = mem'
    BY <2>3 DEF After, None
  <2> QED
    BY <2>1, <2>4, <2>5 DEF TraceInv, Traced, AnnouncedTwiceOnlyInDoubt
<1>5. CASE Crash
  <2>1. /\ pc' = "down" /\ disk' = disk /\ posted' = posted
        /\ doubt' = doubt \cup AnnouncedAbove(disk)
    BY <1>5 DEF Crash
  <2>2. \A i \in Ids : posted[i] > 0 /\ i \notin doubt' => i <= After(disk)
    BY <1>0, <2>1 DEF AnnouncedAbove
  <2> QED
    BY <2>1, <2>2 DEF TraceInv, Traced, AnnouncedTwiceOnlyInDoubt, After
<1>6. CASE Start
  BY <1>6 DEF Start, TraceInv, Traced, AnnouncedTwiceOnlyInDoubt, After
<1>7. CASE StartUnreadable
  <2>1. /\ pc' = "idle" /\ mem' = None /\ posted' = posted
        /\ doubt' = doubt \cup AnnouncedAbove(0)
    BY <1>7 DEF StartUnreadable
  <2>2. \A i \in Ids : posted[i] > 0 /\ i \notin doubt' => i <= 0
    BY <1>0, <2>1 DEF AnnouncedAbove, After
  <2> QED
    BY <2>1, <2>2 DEF TraceInv, Traced, AnnouncedTwiceOnlyInDoubt, After
<1>8. CASE \/ Tick \/ FetchCached \/ ReadRows \/ ReadMax \/ FetchFails
           \/ NothingNew \/ Announce \/ PostFails \/ RateLimited
  <2>1. /\ pc \notin {"down", "landed"} /\ pc' \notin {"down", "landed"}
        /\ UNCHANGED <<posted, doubt, mem>>
    BY <1>8 DEF Tick, FetchCached, ReadRows, ReadMax, FetchFails, NothingNew,
                Announce, PostFails, RateLimited, PollFails, PollEnds
  <2> QED
    BY <1>2, <2>1
<1>9. CASE Baseline \/ NoneQualify \/ Finish
  <2>1. /\ pc \in {"page", "posting"} /\ pc' = "idle"
        /\ UNCHANGED <<posted, doubt>>
    BY <1>9 DEF Baseline, NoneQualify, Finish, PollEnds
  <2>2. After(mem') \in Nat /\ After(mem') >= After(mem)
    <3>1. CASE Baseline
      BY <3>1 DEF Baseline, Advance, After, None
    <3>2. CASE NoneQualify
      BY <3>2 DEF NoneQualify, Advance, After, None
    <3>3. CASE Finish
      <4>1. pc = "posting" /\ mem' = FinalCursor(page)
        BY <3>3 DEF Finish, Advance
      <4>2. mem # None /\ mem <= mem' /\ mem' \in Nat
        BY <4>1, FinalForward, FinalCursorType DEF PageInv
      <4> QED
        BY <4>2 DEF After, None
    <3> QED
      BY <1>9, <3>1, <3>2, <3>3
  <2> QED
    BY <1>2, <2>1, <2>2
<1>10. CASE Ingested \/ MapDeleted \/ Expire \/ TickSkipped \/ UNCHANGED vars
  BY <1>1, <1>10 DEF Ingested, MapDeleted, Expire, TickSkipped, vars,
                     announcerVars
<1> QED
  BY <1>3, <1>4, <1>5, <1>6, <1>7, <1>8, <1>9, <1>10
     DEF Next, Step, Failure

\* A record is announced a second time only after a lost answer to its post,
\* or after a restart from a cursor older than the post: a failure in a later
\* batch re-announces nothing (the promise of postEmbeds' onBatchPosted).
THEOREM NoSecondAnnouncement == Spec => []AnnouncedTwiceOnlyInDoubt
<1> DEFINE Inv == TypeOK /\ PageInv /\ TraceInv
<1>1. Init => Inv
  <2> SUFFICES ASSUME Init PROVE Inv
    OBVIOUS
  <2>1. TraceInv
    BY DEF Init, TraceInv, Traced, AnnouncedTwiceOnlyInDoubt
  <2> QED
    BY <2>1, TypeInit, CoverInit
<1>2. Inv /\ [Next]_vars => Inv'
  BY TypeNext, PageNext, TraceNext
<1>3. Inv => AnnouncedTwiceOnlyInDoubt
  BY DEF TraceInv
<1> QED
  BY <1>1, <1>2, <1>3, PTL DEF Spec

-----------------------------------------------------------------------------
(* Moderation: the name filter.                                            *)

\* The typed conjuncts, of one replica.
LEMMA LoadTyped ==
  ASSUME ReloadInv, NEW r \in CensorReplicas
  PROVE  /\ cver.terms \in Nat /\ cver.names \in Nat /\ cens[r].terms \in Nat /\ cens[r].names \in Nat
         /\ need[r].terms \in Nat /\ need[r].names \in Nat
         /\ \A l \in Loads : /\ cload[r][l].pc \in 0..3 /\ cload[r][l].terms \in Nat /\ cload[r][l].names \in Nat
                             /\ cload[r][l] \in [pc : 0..3, terms : Nat, names : Nat]
         /\ DOMAIN cload = CensorReplicas /\ DOMAIN cload[r] = Loads
         /\ DOMAIN cens = CensorReplicas /\ DOMAIN need = CensorReplicas /\ DOMAIN crossed = CensorReplicas
  BY DEF ReloadInv

\* What one replica's loads say of one part of the filter, with the fields named.
Fresher(r) ==
  LET own == cload[r]["edit"]
      timer == cload[r]["timer"]
  IN /\ need[r].terms <= cver.terms /\ need[r].names <= cver.names
     /\ own.pc >= 2 => own.terms >= need[r].terms
     /\ own.pc >= 3 => own.names >= need[r].names
     /\ own.pc = 0 => /\ \/ cens[r].terms >= need[r].terms
                         \/ crossed[r] /\ (timer.pc >= 2 => timer.terms >= need[r].terms)
                      /\ \/ cens[r].names >= need[r].names
                         \/ crossed[r] /\ (timer.pc >= 3 => timer.names >= need[r].names)

\* Fresher is what the invariant says of both parts of the filter.
LEMMA FresherIs ==
  ASSUME NEW r PROVE Fresher(r) <=> Reloaded(r, "terms", 2) /\ Reloaded(r, "names", 3)
BY DEF Fresher, Reloaded

\* A step of one load leaves the others alone.
LEMMA LoadMoves ==
  ASSUME ReloadInv, NEW r \in CensorReplicas, NEW l \in Loads,
         NEW w \in [pc : 0..3, terms : Nat, names : Nat], cload' = [cload EXCEPT ![r][l] = w]
  PROVE  /\ cload' \in [CensorReplicas -> [Loads -> [pc : 0..3, terms : Nat, names : Nat]]]
         /\ cload'[r][l] = w
         /\ \A q \in CensorReplicas, k \in Loads : q # r \/ k # l => cload'[q][k] = cload[q][k]
BY DEF ReloadInv

\* A load that moves on with what it read.
LEMMA LoadWith ==
  ASSUME NEW x \in [pc : 0..3, terms : Nat, names : Nat], NEW p \in 0..3, NEW v \in Nat
  PROVE  LET a == [x EXCEPT !.pc = p, !.terms = v]
             b == [x EXCEPT !.pc = p, !.names = v]
         IN /\ a \in [pc : 0..3, terms : Nat, names : Nat] /\ a.pc = p /\ a.terms = v /\ a.names = x.names
            /\ b \in [pc : 0..3, terms : Nat, names : Nat] /\ b.pc = p /\ b.names = v /\ b.terms = x.terms
<1> DEFINE y == [x EXCEPT !.pc = p]
<1>1. y \in [pc : 0..3, terms : Nat, names : Nat] /\ y.pc = p /\ y.terms = x.terms /\ y.names = x.names OBVIOUS
<1> HIDE DEF y
<1>2. LET a == [y EXCEPT !.terms = v]
      IN a \in [pc : 0..3, terms : Nat, names : Nat] /\ a.pc = p /\ a.terms = v /\ a.names = x.names
  BY <1>1
<1>3. LET b == [y EXCEPT !.names = v]
      IN b \in [pc : 0..3, terms : Nat, names : Nat] /\ b.pc = p /\ b.names = v /\ b.terms = x.terms
  BY <1>1
<1> QED BY <1>2, <1>3 DEF y

\* The word list as it is read.
LEMMA ReadTermsKeeps ==
  ASSUME ReloadInv, NEW r \in CensorReplicas, NEW l \in Loads, ReadTerms(r, l) PROVE ReloadInv'
<1> DEFINE w == [cload[r][l] EXCEPT !.pc = 2, !.terms = cver.terms]
<1>1. cload[r][l] \in [pc : 0..3, terms : Nat, names : Nat] /\ cver.terms \in Nat /\ cver.names \in Nat
  BY LoadTyped
<1>2. w \in [pc : 0..3, terms : Nat, names : Nat] /\ w.pc = 2 /\ w.terms = cver.terms
  <2>1. 2 \in 0..3 /\ 3 \in 0..3 OBVIOUS
  <2> QED BY <1>1, <2>1, LoadWith, Zenon
<1>3. cload' = [cload EXCEPT ![r][l] = w] /\ cload[r][l].pc = 1 /\ UNCHANGED <<cver, cens, crossed, need>>
  BY DEF ReadTerms
<1> HIDE DEF w
<1>4. /\ cload' \in [CensorReplicas -> [Loads -> [pc : 0..3, terms : Nat, names : Nat]]]
      /\ cload'[r][l] = w
      /\ \A q \in CensorReplicas, k \in Loads : q # r \/ k # l => cload'[q][k] = cload[q][k]
  BY <1>2, <1>3, LoadMoves, ZenonT(60)
<1>5. \A q \in CensorReplicas : Fresher(q) BY FresherIs DEF ReloadInv
<1>6. ASSUME NEW q \in CensorReplicas PROVE Fresher(q)'
  BY <1>2, <1>3, <1>4, <1>5, LoadTyped DEF Fresher, Loads
<1>7. \A q \in CensorReplicas : (Reloaded(q, "terms", 2) /\ Reloaded(q, "names", 3))'
  BY <1>6 DEF Fresher, Reloaded
<1> QED BY <1>3, <1>4, <1>7 DEF ReloadInv

\* The overrides, after it.
LEMMA ReadNamesKeeps ==
  ASSUME ReloadInv, NEW r \in CensorReplicas, NEW l \in Loads, ReadNames(r, l) PROVE ReloadInv'
<1> DEFINE w == [cload[r][l] EXCEPT !.pc = 3, !.names = cver.names]
<1>1. cload[r][l] \in [pc : 0..3, terms : Nat, names : Nat] /\ cver.terms \in Nat /\ cver.names \in Nat
  BY LoadTyped
<1>2. w \in [pc : 0..3, terms : Nat, names : Nat] /\ w.pc = 3 /\ w.terms = cload[r][l].terms /\ w.names = cver.names
  <2>1. 2 \in 0..3 /\ 3 \in 0..3 OBVIOUS
  <2> QED BY <1>1, <2>1, LoadWith, Zenon
<1>3. cload' = [cload EXCEPT ![r][l] = w] /\ cload[r][l].pc = 2 /\ UNCHANGED <<cver, cens, crossed, need>>
  BY DEF ReadNames
<1> HIDE DEF w
<1>4. /\ cload' \in [CensorReplicas -> [Loads -> [pc : 0..3, terms : Nat, names : Nat]]]
      /\ cload'[r][l] = w
      /\ \A q \in CensorReplicas, k \in Loads : q # r \/ k # l => cload'[q][k] = cload[q][k]
  BY <1>2, <1>3, LoadMoves, ZenonT(60)
<1>5. \A q \in CensorReplicas : Fresher(q) BY FresherIs DEF ReloadInv
<1>6. ASSUME NEW q \in CensorReplicas PROVE Fresher(q)'
  BY <1>2, <1>3, <1>4, <1>5, LoadTyped DEF Fresher, Loads
<1>7. \A q \in CensorReplicas : (Reloaded(q, "terms", 2) /\ Reloaded(q, "names", 3))'
  BY <1>6 DEF Fresher, Reloaded
<1> QED BY <1>3, <1>4, <1>7 DEF ReloadInv

\* A finished load is what the replica applies, and it knows an older one.
LEMMA InstallKeeps ==
  ASSUME ReloadInv, NEW r \in CensorReplicas, NEW l \in Loads, Install(r, l) PROVE ReloadInv'
<1> DEFINE c == [terms |-> cload[r][l].terms, names |-> cload[r][l].names]
           old == c.terms < cens[r].terms \/ c.names < cens[r].names
           w == NoLoad
<1>1. /\ cload[r][l] \in [pc : 0..3, terms : Nat, names : Nat]
      /\ cload[r][l].terms \in Nat /\ cload[r][l].names \in Nat
  BY LoadTyped
<1>2. w \in [pc : 0..3, terms : Nat, names : Nat] /\ w.pc = 0 BY DEF NoLoad
<1>3. /\ cload' = [cload EXCEPT ![r][l] = w] /\ cload[r][l].pc = 3 /\ UNCHANGED <<cver, need>>
      /\ cens' = [cens EXCEPT ![r] = c] /\ crossed' = [crossed EXCEPT ![r] = old]
  BY DEF Install
<1>4. c \in [terms : Nat, names : Nat] /\ c.terms = cload[r][l].terms /\ c.names = cload[r][l].names BY <1>1
<1>5. old \in BOOLEAN /\ (~old => c.terms >= cens[r].terms /\ c.names >= cens[r].names) BY <1>4, LoadTyped
<1> HIDE DEF w, c, old
<1>6. /\ cload' \in [CensorReplicas -> [Loads -> [pc : 0..3, terms : Nat, names : Nat]]]
      /\ cload'[r][l] = w
      /\ \A q \in CensorReplicas, k \in Loads : q # r \/ k # l => cload'[q][k] = cload[q][k]
  <2>1. cload' = [cload EXCEPT ![r][l] = w] BY <1>3
  <2>2. w \in [pc : 0..3, terms : Nat, names : Nat] BY <1>2
  <2> QED BY <2>1, <2>2, LoadMoves, ZenonT(60)
<1>7. /\ cens' \in [CensorReplicas -> [terms : Nat, names : Nat]]
      /\ crossed' \in [CensorReplicas -> BOOLEAN]
  BY <1>3, <1>4, <1>5 DEF ReloadInv
<1>8. /\ cens'[r] = c /\ crossed'[r] = old
      /\ \A q \in CensorReplicas : q # r => cens'[q] = cens[q] /\ crossed'[q] = crossed[q]
  BY <1>3 DEF ReloadInv
<1>9. \A q \in CensorReplicas : Fresher(q) BY FresherIs DEF ReloadInv
<1>10. ASSUME NEW q \in CensorReplicas, q # r PROVE Fresher(q)'
  BY <1>3, <1>6, <1>8, <1>9, <1>10 DEF Fresher, Loads
<1>11. Fresher(r)'
  <2>1. cens'[r].terms = cload[r][l].terms /\ cens'[r].names = cload[r][l].names BY <1>4, <1>8
  <2>2. CASE l = "edit"
    <3>1. c.terms >= need[r].terms /\ c.names >= need[r].names BY <2>2, <1>3, <1>4, <1>9 DEF Fresher
    <3> QED BY <2>2, <3>1, <1>2, <1>3, <1>6, <1>8, <1>9, LoadTyped DEF Fresher, Loads
  <2>3. CASE l = "timer"
    <3>1. cload'[r]["edit"] = cload[r]["edit"] BY <2>3, <1>6 DEF Loads
    <3>2. CASE cload[r]["edit"].pc # 0 BY <3>1, <3>2, <1>3, <1>9 DEF Fresher
    <3>3. CASE cload[r]["edit"].pc = 0
      <4>1. cload'[r]["timer"].pc = 0 BY <2>3, <1>2, <1>6
      <4>2. c.terms >= need[r].terms \/ old
        BY <1>3, <1>4, <1>5, <1>9, <2>3, <3>3, LoadTyped DEF Fresher
      <4>3. c.names >= need[r].names \/ old
        BY <1>3, <1>4, <1>5, <1>9, <2>3, <3>3, LoadTyped DEF Fresher
      <4> QED BY <3>1, <3>3, <4>1, <4>2, <4>3, <1>3, <1>8, <1>9 DEF Fresher
    <3> QED BY <3>2, <3>3
  <2> QED BY <2>2, <2>3 DEF Loads
<1>12. \A q \in CensorReplicas : (Reloaded(q, "terms", 2) /\ Reloaded(q, "names", 3))'
  BY <1>10, <1>11 DEF Fresher, Reloaded
<1> QED BY <1>3, <1>6, <1>7, <1>12 DEF ReloadInv

\* A load that starts has read nothing.
LEMMA TimerKeeps ==
  ASSUME ReloadInv, NEW r \in CensorReplicas, CensorTimer(r) PROVE ReloadInv'
<1> DEFINE w == [NoLoad EXCEPT !.pc = 1]
<1>1. w \in [pc : 0..3, terms : Nat, names : Nat] /\ w.pc = 1 BY DEF NoLoad
<1>2. cload' = [cload EXCEPT ![r]["timer"] = w] /\ UNCHANGED <<cver, cens, crossed, need>>
  BY DEF CensorTimer, StartLoad
<1> HIDE DEF w
<1>3. "timer" \in Loads BY DEF Loads
<1>4. /\ cload' \in [CensorReplicas -> [Loads -> [pc : 0..3, terms : Nat, names : Nat]]]
      /\ cload'[r]["timer"] = w
      /\ \A q \in CensorReplicas, k \in Loads : q # r \/ k # "timer" => cload'[q][k] = cload[q][k]
  <2>1. cload' = [cload EXCEPT ![r]["timer"] = w] BY <1>2
  <2>2. w \in [pc : 0..3, terms : Nat, names : Nat] BY <1>1
  <2> QED BY <1>3, <2>1, <2>2, LoadMoves, ZenonT(60)
<1>5. \A q \in CensorReplicas : Fresher(q) BY FresherIs DEF ReloadInv
<1>6. ASSUME NEW q \in CensorReplicas PROVE Fresher(q)'
  BY <1>1, <1>2, <1>4, <1>5, LoadTyped DEF Fresher, Loads
<1>7. \A q \in CensorReplicas : (Reloaded(q, "terms", 2) /\ Reloaded(q, "names", 3))'
  BY <1>6 DEF Fresher, Reloaded
<1> QED BY <1>2, <1>4, <1>7 DEF ReloadInv

\* An edit asks its own replica for the version it made, and starts the load.
LEMMA EditKeeps ==
  ASSUME ReloadInv, NEW r \in CensorReplicas, NEW part \in {"terms", "names"}, EditCensor(r, part)
  PROVE  ReloadInv'
<1> DEFINE w == [NoLoad EXCEPT !.pc = 1]
<1>1. w \in [pc : 0..3, terms : Nat, names : Nat] /\ w.pc = 1 BY DEF NoLoad
<1>2. /\ cload' = [cload EXCEPT ![r]["edit"] = w] /\ UNCHANGED <<cens, crossed>>
      /\ need' = [need EXCEPT ![r] = cver'] /\ cver' = [cver EXCEPT ![part] = @ + 1]
  BY DEF EditCensor, StartLoad
<1> HIDE DEF w
<1>3. "edit" \in Loads BY DEF Loads
<1>4. /\ cload' \in [CensorReplicas -> [Loads -> [pc : 0..3, terms : Nat, names : Nat]]]
      /\ cload'[r]["edit"] = w
      /\ \A q \in CensorReplicas, k \in Loads : q # r \/ k # "edit" => cload'[q][k] = cload[q][k]
  <2>1. cload' = [cload EXCEPT ![r]["edit"] = w] BY <1>2
  <2>2. w \in [pc : 0..3, terms : Nat, names : Nat] BY <1>1
  <2> QED BY <1>3, <2>1, <2>2, LoadMoves, ZenonT(60)
<1>5. /\ cver \in [terms : Nat, names : Nat] /\ need \in [CensorReplicas -> [terms : Nat, names : Nat]]
  BY DEF ReloadInv
<1>6. /\ cver' \in [terms : Nat, names : Nat] /\ cver'.terms >= cver.terms /\ cver'.names >= cver.names
  <2>1. CASE part = "terms" BY <1>2, <1>5, <2>1
  <2>2. CASE part = "names" BY <1>2, <1>5, <2>2
  <2> QED BY <2>1, <2>2
<1>7. /\ need' \in [CensorReplicas -> [terms : Nat, names : Nat]] /\ need'[r] = cver'
      /\ \A q \in CensorReplicas : q # r => need'[q] = need[q]
  BY <1>2, <1>5, <1>6
<1>8. \A q \in CensorReplicas : Fresher(q) BY FresherIs DEF ReloadInv
<1>9. ASSUME NEW q \in CensorReplicas PROVE Fresher(q)'
  <2>1. CASE q = r BY <2>1, <1>1, <1>4, <1>6, <1>7 DEF Fresher
  <2>2. CASE q # r
    <3>1. cload'[q]["edit"] = cload[q]["edit"] /\ cload'[q]["timer"] = cload[q]["timer"]
      BY <2>2, <1>4 DEF Loads
    <3>2. need'[q] = need[q] /\ need[q].terms <= cver'.terms /\ need[q].names <= cver'.names
      BY <2>2, <1>6, <1>7, <1>8, LoadTyped DEF Fresher
    <3> QED BY <3>1, <3>2, <1>2, <1>8 DEF Fresher
  <2> QED BY <2>1, <2>2
<1>10. \A q \in CensorReplicas : (Reloaded(q, "terms", 2) /\ Reloaded(q, "names", 3))'
  BY <1>9 DEF Fresher, Reloaded
<1> QED BY <1>2, <1>4, <1>6, <1>7, <1>10 DEF ReloadInv

\* The replica that took an edit of the name filter applies it when its reload
\* is over, for any number of replicas and edits, unless an older load of its own
\* finished later (loadCensorConfig has no version to compare).
THEOREM EditsApplied == ModSpec => []EditApplied
<1>1. ModInit => ReloadInv BY DEF ModInit, ReloadInv, Reloaded, NoLoad, Loads
<1>2. ASSUME ReloadInv, [ModNext]_modVars PROVE ReloadInv'
  <2>1. CASE CensorNext
    BY <1>2, <2>1, ReadTermsKeeps, ReadNamesKeeps, InstallKeeps, TimerKeeps, EditKeeps DEF CensorNext, CensorSteps
  <2>2. CASE UNCHANGED censVars
    BY <1>2, <2>2 DEF censVars, ReloadInv, Reloaded
  <2> QED BY <1>2, <2>1, <2>2 DEF ModNext, modVars
<1>3. ReloadInv => EditApplied
  <2>1. ASSUME ReloadInv, NEW r \in CensorReplicas, cload[r]["edit"].pc = 0, ~crossed[r]
        PROVE  need[r].terms <= cens[r].terms /\ need[r].names <= cens[r].names
    <3>1. Fresher(r) BY <2>1, FresherIs DEF ReloadInv
    <3> QED BY <2>1, <3>1, LoadTyped DEF Fresher
  <2> QED BY <2>1 DEF EditApplied
<1> QED BY <1>1, <1>2, <1>3, PTL DEF ModSpec


-----------------------------------------------------------------------------
(* The operators' side of the site.                                        *)

\* Requests to restart: each step puts one where it counts.
LEMMA RestartKeeps == ASSUME RestartInv, [RestartNext]_restartVars PROVE RestartInv'
<1>1. wanted \in BOOLEAN /\ asked \in Nat /\ handed \in Nat /\ withdrawn \in Nat /\ merged \in Nat
      /\ asked = handed + withdrawn + merged + (IF wanted THEN 1 ELSE 0)
  BY DEF RestartInv, RestartOnce
<1>2. CASE RequestServerRestart
  <2>1. asked' = asked + 1 /\ merged' = (IF wanted THEN merged + 1 ELSE merged) /\ wanted' = TRUE
        /\ handed' = handed /\ withdrawn' = withdrawn
    BY <1>2 DEF RequestServerRestart
  <2>2. CASE wanted BY <1>1, <2>1, <2>2 DEF RestartInv, RestartOnce
  <2>3. CASE ~wanted BY <1>1, <2>1, <2>3 DEF RestartInv, RestartOnce
  <2> QED BY <2>2, <2>3
<1>3. CASE ClaimServerRestart
  <2>1. wanted /\ wanted' = FALSE /\ handed' = handed + 1 /\ asked' = asked /\ withdrawn' = withdrawn
        /\ merged' = merged
    BY <1>3 DEF ClaimServerRestart
  <2>2. asked' = handed' + withdrawn' + merged' + 0 BY <1>1, <2>1
  <2>3. (IF wanted' THEN 1 ELSE 0) = 0 BY <2>1
  <2>4. RestartOnce' BY <2>2, <2>3 DEF RestartOnce
  <2>5. wanted' \in BOOLEAN BY <2>1, Zenon
  <2>6. asked' \in Nat /\ handed' \in Nat /\ withdrawn' \in Nat /\ merged' \in Nat BY <1>1, <2>1
  <2> QED BY <2>4, <2>5, <2>6 DEF RestartInv
<1>4. CASE CancelServerRestart
  <2>1. wanted /\ wanted' = FALSE /\ handed' = handed /\ asked' = asked /\ withdrawn' = withdrawn + 1
        /\ merged' = merged
    BY <1>4 DEF CancelServerRestart
  <2>2. asked' = handed' + withdrawn' + merged' + 0 BY <1>1, <2>1
  <2>3. (IF wanted' THEN 1 ELSE 0) = 0 BY <2>1
  <2>4. RestartOnce' BY <2>2, <2>3 DEF RestartOnce
  <2>5. wanted' \in BOOLEAN BY <2>1, Zenon
  <2>6. asked' \in Nat /\ handed' \in Nat /\ withdrawn' \in Nat /\ merged' \in Nat BY <1>1, <2>1
  <2> QED BY <2>4, <2>5, <2>6 DEF RestartInv
<1>5. CASE UNCHANGED restartVars BY <1>1, <1>5 DEF restartVars, RestartInv, RestartOnce
<1> QED BY <1>2, <1>3, <1>4, <1>5 DEF RestartNext

\* What maintenance is typed as.
Toggles == [pc : 0..2, on : BOOLEAN, now : Nat]
Confs == [active : BOOLEAN, msg : BOOLEAN, at : Nat]
Saids == [last : Nat \cup {-1}, pulled : BOOLEAN, tight : BOOLEAN]
Alone(togs, cf) ==
  \A r \in OpsReplicas : togs[r].pc # 0 =>
    /\ \A o \in OpsReplicas \ {r} : togs[o].pc = 0
    /\ cf.active = togs[r].on
    /\ togs[r].pc = 2 => cf.msg = togs[r].on
Settled(togs, cf) ==
  (\A r \in OpsReplicas : togs[r].pc = 0) => (cf.active <=> cf.at # 0) /\ (cf.active <=> cf.msg)
Spaced(sd, cf) == ~sd.tight /\ (~sd.pulled /\ sd.last >= 0 /\ cf.at # 0 => cf.at >= sd.last + Interval)

\* The invariant, in the words the steps need.
LEMMA MaintIs ==
  ASSUME MaintInv
  PROVE  /\ opsnow \in Nat \ {0} /\ overlapped \in BOOLEAN /\ conf \in Confs
         /\ local \in [OpsReplicas -> BOOLEAN] /\ reading \in [OpsReplicas -> {"none", "on", "off"}]
         /\ toggling \in [OpsReplicas -> Toggles] /\ claiming \in [OpsReplicas -> Nat]
         /\ said \in Saids /\ Spaced(said, conf)
         /\ ~overlapped => Alone(toggling, conf) /\ Settled(toggling, conf)
BY DEF MaintInv, NoticeSpacing, MaintWhole, Toggles, Confs, Saids, Alone, Settled, Spaced

\* ... and what makes it so again.
LEMMA MaintHolds ==
  ASSUME (/\ opsnow \in Nat \ {0} /\ overlapped \in BOOLEAN /\ conf \in Confs
          /\ local \in [OpsReplicas -> BOOLEAN] /\ reading \in [OpsReplicas -> {"none", "on", "off"}]
          /\ toggling \in [OpsReplicas -> Toggles] /\ claiming \in [OpsReplicas -> Nat]
          /\ said \in Saids /\ Spaced(said, conf)
          /\ ~overlapped => Alone(toggling, conf) /\ Settled(toggling, conf))'
  PROVE  MaintInv'
BY DEF MaintInv, NoticeSpacing, MaintWhole, Toggles, Confs, Saids, Alone, Settled, Spaced

\* A toggle's first statement.
LEMMA StartKeeps ==
  ASSUME MaintInv, NEW r \in OpsReplicas, NEW on \in BOOLEAN, StartToggle(r, on) PROVE MaintInv'
<1> DEFINE tg == [pc |-> 1, on |-> on, now |-> opsnow]
<1>1. /\ toggling[r].pc = 0 /\ overlapped' = (\E o \in OpsReplicas : toggling[o].pc # 0)
      /\ conf' = [conf EXCEPT !.active = on] /\ toggling' = [toggling EXCEPT ![r] = tg]
      /\ UNCHANGED <<opsnow, local, claiming, said, reading>>
  BY DEF StartToggle
<1>2. conf \in Confs /\ toggling \in [OpsReplicas -> Toggles] BY MaintIs
<1>3. conf' \in Confs /\ conf'.at = conf.at /\ conf'.active = on BY <1>1, <1>2 DEF Confs
<1>4. tg \in Toggles /\ tg.pc = 1 /\ tg.on = on BY MaintIs DEF Toggles
<1> HIDE DEF tg
<1>5. toggling' \in [OpsReplicas -> Toggles] /\ toggling'[r] = tg
      /\ \A o \in OpsReplicas \ {r} : toggling'[o] = toggling[o]
  BY <1>1, <1>2, <1>4
<1>6. ASSUME ~overlapped' PROVE Alone(toggling', conf') /\ Settled(toggling', conf')
  <2>1. \A o \in OpsReplicas \ {r} : toggling'[o].pc = 0 BY <1>1, <1>5, <1>6
  <2> QED BY <1>3, <1>4, <1>5, <2>1 DEF Alone, Settled
<1>7. overlapped' \in BOOLEAN BY <1>1
<1>8. Spaced(said', conf') BY <1>1, <1>3, MaintIs DEF Spaced
<1> QED BY <1>1, <1>3, <1>5, <1>6, <1>7, <1>8, MaintIs, MaintHolds

\* A toggle's later statements and a notice keep its replica, or end it.
LEMMA MessageKeeps ==
  ASSUME MaintInv, NEW r \in OpsReplicas, ToggleMessage(r) PROVE MaintInv'
<1> DEFINE tg == [toggling[r] EXCEPT !.pc = 2]
<1>1. /\ toggling[r].pc = 1 /\ conf' = [conf EXCEPT !.msg = toggling[r].on]
      /\ toggling' = [toggling EXCEPT ![r] = tg]
      /\ UNCHANGED <<opsnow, local, overlapped, claiming, said, reading>>
  BY DEF ToggleMessage
<1>2. conf \in Confs /\ toggling \in [OpsReplicas -> Toggles] /\ toggling[r] \in Toggles BY MaintIs
<1>3. conf' \in Confs /\ conf'.at = conf.at /\ conf'.active = conf.active /\ conf'.msg = toggling[r].on
  BY <1>1, <1>2 DEF Confs, Toggles
<1>4. tg \in Toggles /\ tg.pc = 2 /\ tg.on = toggling[r].on BY <1>2 DEF Toggles
<1> HIDE DEF tg
<1>5. toggling' \in [OpsReplicas -> Toggles] /\ toggling'[r] = tg
      /\ \A o \in OpsReplicas \ {r} : toggling'[o] = toggling[o]
  BY <1>1, <1>2, <1>4
<1>6. ASSUME ~overlapped' PROVE Alone(toggling', conf') /\ Settled(toggling', conf')
  <2>1. Alone(toggling, conf) BY <1>1, <1>6, MaintIs
  <2>2. \A o \in OpsReplicas \ {r} : toggling[o].pc = 0 /\ conf.active = toggling[r].on BY <1>1, <2>1 DEF Alone
  <2>3. conf.active = toggling[r].on BY <1>1, <2>1 DEF Alone
  <2> QED BY <1>3, <1>4, <1>5, <2>2, <2>3 DEF Alone, Settled
<1>7. Spaced(said', conf') BY <1>1, <1>3, MaintIs DEF Spaced
<1> QED BY <1>1, <1>3, <1>5, <1>6, <1>7, MaintIs, MaintHolds

\* The stamp ends the toggle, and is due an interval after the last notice unless the
\* toggle is older than that.
LEMMA StampKeeps ==
  ASSUME MaintInv, NEW r \in OpsReplicas, ToggleStamp(r) PROVE MaintInv'
<1> DEFINE now == toggling[r].now
<1>1. /\ toggling[r].pc = 2
      /\ conf' = [conf EXCEPT !.at = IF toggling[r].on THEN now + Interval ELSE 0]
      /\ said' = IF toggling[r].on THEN [said EXCEPT !.pulled = now < said.last] ELSE said
      /\ local' = [local EXCEPT ![r] = toggling[r].on] /\ toggling' = [toggling EXCEPT ![r] = Idle]
      /\ UNCHANGED <<opsnow, overlapped, claiming, reading>>
  BY DEF ToggleStamp
<1>2. conf \in Confs /\ toggling \in [OpsReplicas -> Toggles] /\ toggling[r] \in Toggles /\ now \in Nat
      /\ toggling[r].on \in BOOLEAN
  BY MaintIs DEF Toggles
<1>3. conf' \in Confs /\ conf'.active = conf.active /\ conf'.msg = conf.msg
      /\ conf'.at = IF toggling[r].on THEN now + Interval ELSE 0
  BY <1>1, <1>2, OpsAssumption DEF Confs
<1>4. Idle \in Toggles /\ Idle.pc = 0 BY DEF Toggles, Idle
<1>5. toggling' \in [OpsReplicas -> Toggles] /\ toggling'[r] = Idle
      /\ \A o \in OpsReplicas \ {r} : toggling'[o] = toggling[o]
  BY <1>1, <1>2, <1>4
<1>6. local' \in [OpsReplicas -> BOOLEAN] BY <1>1, <1>2, MaintIs
<1>7. ASSUME ~overlapped' PROVE Alone(toggling', conf') /\ Settled(toggling', conf')
  <2>1. Alone(toggling, conf) BY <1>1, <1>7, MaintIs
  <2>2. conf.active = toggling[r].on /\ conf.msg = toggling[r].on BY <1>1, <2>1 DEF Alone
  <2>3. \A o \in OpsReplicas : toggling'[o].pc = 0 BY <1>1, <1>4, <1>5, <2>1 DEF Alone
  <2>4. conf'.at # 0 <=> toggling[r].on BY <1>2, <1>3, OpsAssumption
  <2> QED BY <1>3, <2>2, <2>3, <2>4 DEF Alone, Settled
<1>8. said' \in Saids /\ Spaced(said', conf')
  <2>1. said \in Saids /\ Spaced(said, conf) BY MaintIs
  <2>2. CASE toggling[r].on
    <3>1. said' = [said EXCEPT !.pulled = now < said.last] /\ conf'.at = now + Interval BY <1>1, <1>3, <2>2
    <3>a. said'.pulled = (now < said.last) /\ said'.last = said.last /\ said'.tight = said.tight
      BY <2>1, <3>1 DEF Saids
    <3>2. said' \in Saids /\ said'.last = said.last /\ ~said'.tight /\ (~said'.pulled => ~(now < said.last))
      <4>1. said' \in Saids
        <5>1. (now < said.last) \in BOOLEAN OBVIOUS
        <5> QED BY <2>1, <3>1, <5>1, Zenon DEF Saids
      <4>2. ~said'.tight BY <2>1, <3>a DEF Spaced
      <4>3. ~said'.pulled => ~(now < said.last) BY <3>a
      <4> QED BY <3>a, <4>1, <4>2, <4>3
    <3>3. said.last \in Nat \cup {-1} BY <2>1 DEF Saids
    <3> QED BY <1>2, <3>1, <3>2, <3>3, OpsAssumption DEF Spaced
  <2>3. CASE ~toggling[r].on BY <1>1, <1>3, <2>1, <2>3 DEF Spaced
  <2> QED BY <2>2, <2>3
<1> QED BY <1>1, <1>3, <1>5, <1>6, <1>7, <1>8, MaintIs, MaintHolds

\* The timer reads the clock.
LEMMA ClockKeeps ==
  ASSUME MaintInv, NEW r \in OpsReplicas, MaintTimer(r) PROVE MaintInv'
<1>1. UNCHANGED <<opsnow, conf, local, toggling, overlapped, said, reading>>
      /\ claiming' = [claiming EXCEPT ![r] = opsnow]
  BY DEF MaintTimer
<1>2. claiming' \in [OpsReplicas -> Nat] BY <1>1, MaintIs
<1> QED BY <1>1, <1>2, MaintIs, MaintHolds

\* The notice is taken an interval after the last, and the next one later still.
LEMMA NoticeKeeps ==
  ASSUME MaintInv, NEW r \in OpsReplicas, ClaimRebroadcast(r) PROVE MaintInv'
<1> DEFINE now == claiming[r]
<1>1. claiming' = [claiming EXCEPT ![r] = 0] /\ UNCHANGED <<opsnow, local, toggling, overlapped, reading>>
  BY DEF ClaimRebroadcast
<1>2. conf \in Confs /\ now \in Nat /\ said \in Saids /\ Spaced(said, conf) /\ claiming' \in [OpsReplicas -> Nat]
  BY <1>1, MaintIs
<1>3. CASE UNCHANGED <<conf, said>> BY <1>1, <1>2, <1>3, MaintIs, MaintHolds
<1>4. CASE conf.at # 0 /\ conf.at <= now /\ conf' = [conf EXCEPT !.at = now + Interval] /\ said' = Notice(now)
  <2>1. conf' \in Confs /\ conf'.active = conf.active /\ conf'.msg = conf.msg /\ conf'.at = now + Interval
        /\ conf'.at # 0
    BY <1>2, <1>4, OpsAssumption DEF Confs
  <2>2. said.last \in Nat \cup {-1} /\ conf.at \in Nat BY <1>2 DEF Confs, Saids
  <2>3. ~said.tight /\ ~(~said.pulled /\ said.last >= 0 /\ now - said.last < Interval)
    BY <1>2, <1>4, <2>2, OpsAssumption DEF Spaced
  <2>4. said' \in Saids /\ ~said'.tight
    <3>1. said'.tight = (said.tight \/ (~said.pulled /\ said.last >= 0 /\ now - said.last < Interval))
          /\ said'.last \in {now, said.last} /\ said'.pulled = (now < said.last)
      BY <1>4 DEF Notice
    <3> QED BY <1>2, <1>4, <2>2, <2>3, <3>1 DEF Saids, Notice
  <2>5. Spaced(said', conf')
    <3>1. ~said'.pulled => said'.last = now
      <4>1. said'.pulled = (now < said.last) /\ said'.last = IF now > said.last THEN now ELSE said.last
        BY <1>4 DEF Notice
      <4>2. ~said'.pulled => ~(now < said.last) BY <4>1
      <4>3. said'.last = now \/ (said'.last = said.last /\ ~(now > said.last)) BY <4>1
      <4> QED BY <1>2, <2>2, <4>2, <4>3
    <3> QED BY <1>2, <2>1, <2>4, <3>1, OpsAssumption DEF Spaced
  <2>6. ASSUME ~overlapped' PROVE Alone(toggling', conf') /\ Settled(toggling', conf')
    <3>1. Alone(toggling, conf) /\ Settled(toggling, conf) BY <1>1, <2>6, MaintIs
    <3> QED BY <1>1, <1>4, <2>1, <3>1 DEF Alone, Settled
  <2> QED BY <1>1, <1>2, <2>1, <2>4, <2>5, <2>6, MaintIs, MaintHolds
<1> QED BY <1>3, <1>4 DEF ClaimRebroadcast

\* Reads of the state, the clock, and nothing at all.
LEMMA ReadsKeep == ASSUME MaintInv, NEW r \in OpsReplicas, MaintSteps(r) PROVE MaintInv'
<1>1. UNCHANGED <<opsnow, conf, toggling, overlapped, claiming, said>> BY DEF MaintSteps, ReadState, ApplyState
<1>2. local' \in [OpsReplicas -> BOOLEAN] /\ reading' \in [OpsReplicas -> {"none", "on", "off"}]
  BY MaintIs DEF MaintSteps, ReadState, ApplyState
<1> QED BY <1>1, <1>2, MaintIs, MaintHolds

\* Time passes, and no notice is younger for it.
LEMMA OpsTickKeeps == ASSUME MaintInv, OpsTick PROVE MaintInv'
<1>1. opsnow' = opsnow + 1 /\ UNCHANGED <<conf, local, toggling, overlapped, claiming, said, reading>> BY DEF OpsTick
<1>2. opsnow \in Nat \ {0} BY MaintIs
<1>3. opsnow' \in Nat \ {0} BY <1>1, <1>2
<1> QED BY <1>1, <1>3, MaintIs, MaintHolds

\* Every step of the maintenance keeps its invariant.
LEMMA MaintKeeps == ASSUME MaintInv, [MaintNext]_maintVars PROVE MaintInv'
<1>1. CASE UNCHANGED maintVars BY <1>1, MaintIs, MaintHolds DEF maintVars
<1>2. ASSUME NEW r \in OpsReplicas, MaintTimer(r) \/ ClaimRebroadcast(r) PROVE MaintInv'
  BY <1>2, ClockKeeps, NoticeKeeps
<1>3. ASSUME NEW r \in OpsReplicas,
             (\E on \in BOOLEAN : StartToggle(r, on)) \/ ToggleMessage(r) \/ ToggleStamp(r) \/ MaintSteps(r)
      PROVE  MaintInv'
  BY <1>3, StartKeeps, MessageKeeps, StampKeeps, ReadsKeep
<1> QED BY <1>1, <1>2, <1>3, OpsTickKeeps DEF MaintNext

\* The log's rows stay finite.
LEMMA LogKeeps == ASSUME LogInv, [LogNext]_logVars PROVE LogInv'
<1>1. CASE AppendServerLog BY <1>1 DEF AppendServerLog, LogInv
<1>2. ASSUME NEW i \in logopen, LogCommits(i) PROVE LogInv'
  BY <1>2, FS_AddElement DEF LogCommits, LogInv
<1>3. CASE PruneServerLogs
  <2>1. logrows' \subseteq logrows /\ UNCHANGED <<lognext, logopen>> BY <1>3 DEF PruneServerLogs
  <2>2. IsFiniteSet(logrows') BY <2>1, FS_Subset DEF LogInv
  <2> QED BY <2>1, <2>2 DEF LogInv
<1>4. CASE UNCHANGED logVars BY <1>4 DEF logVars, LogInv
<1> QED BY <1>1, <1>2, <1>3, <1>4 DEF LogNext

\* A prune leaves the newest.
LEMMA PruneLeaves ==
  ASSUME LogInv, [LogNext]_logVars, NEW i \in logrows \ logrows'
  PROVE  Cardinality({j \in logrows : j > i}) >= LogKeep
<1>1. PruneServerLogs BY DEF LogNext, AppendServerLog, LogCommits, logVars
<1>2. PICK c \in Cutoff : ~(i > c) BY <1>1 DEF PruneServerLogs
<1>3. c \in logrows /\ Cardinality({j \in logrows : j > c}) = LogKeep BY <1>2 DEF Cutoff
<1>4. i \in Nat /\ c \in Nat /\ IsFiniteSet(logrows) BY <1>3 DEF LogInv
<1> DEFINE A == {j \in logrows : j > c}
           B == {j \in logrows : j > i}
<1>5. \A j \in logrows : j \in Nat BY DEF LogInv
<1>6. A \subseteq B
  <2>1. \A j \in logrows : j > c => j > i BY <1>2, <1>4, <1>5
  <2> QED BY <2>1
<1>7. IsFiniteSet(B) BY <1>4, FS_Subset
<1>8. IsFiniteSet(A) BY <1>6, <1>7, FS_Subset
<1>9. Cardinality(A) <= Cardinality(B) /\ Cardinality(A) \in Nat /\ Cardinality(B) \in Nat
  BY <1>6, <1>7, <1>8, FS_Subset, FS_CardinalityType
<1> QED BY <1>3, <1>9

\* A span of the clock's ticks is finite.
LEMMA SpanIs ==
  ASSUME NEW a, NEW b
  PROVE  /\ IsFiniteSet(Span(a, b)) /\ Span(a, b) \subseteq LimTimes /\ LimTimes \subseteq Nat
         /\ \A t : t \in Span(a, b) <=> t \in LimTimes /\ a <= t /\ t <= b
<1>1. LimTimes \subseteq Nat /\ IsFiniteSet(LimTimes) BY OpsAssumption, FS_Interval DEF LimTimes
<1>2. Span(a, b) \subseteq LimTimes BY DEF Span
<1> QED BY <1>1, <1>2, FS_Subset DEF Span

\* What the requests of a span sum to.
LEMMA SpanSum ==
  ASSUME NEW f \in [LimTimes -> Nat], NEW a, NEW b
  PROVE  SumFunctionOnSet(f, Span(a, b)) \in Nat
BY SpanIs, SumNat

\* A shorter span sums to less.
LEMMA SpanMono ==
  ASSUME NEW f \in [LimTimes -> Nat], NEW a \in Int, NEW b \in Int, NEW c \in Int, NEW d \in Int, a <= c, d <= b
  PROVE  SumFunctionOnSet(f, Span(c, d)) <= SumFunctionOnSet(f, Span(a, b))
<1>1. Span(c, d) \subseteq Span(a, b)
  <2>1. \A t \in LimTimes : t \in Int BY SpanIs
  <2>2. \A t \in LimTimes : c <= t /\ t <= d => a <= t /\ t <= b BY <2>1
  <2> QED BY <2>2, SpanIs
<1> QED BY <1>1, SpanIs, SumMono

\* An hour ahead in which nothing has arrived adds nothing.
LEMMA SpanAhead ==
  ASSUME NEW f \in [LimTimes -> Nat], NEW a \in Int, NEW b \in Nat, b + 1 \in LimTimes, f[b + 1] = 0, a <= b + 1
  PROVE  SumFunctionOnSet(f, Span(a, b + 1)) = SumFunctionOnSet(f, Span(a, b))
<1>1. Span(a, b + 1) = Span(a, b) \cup {b + 1}
  <2>1. \A t \in LimTimes : t \in Nat BY SpanIs
  <2>2. \A t \in LimTimes : a <= t /\ t <= b + 1 <=> (a <= t /\ t <= b) \/ t = b + 1 BY <2>1
  <2> QED BY <2>2, SpanIs
<1>2. b + 1 \notin Span(a, b) BY SpanIs
<1>3. SumFunctionOnSet(f, Span(a, b)) \in Nat BY SpanSum
<1>4. \A y \in Span(a, b) \cup {b + 1} : f[y] \in Nat BY SpanIs
<1>5. IsFiniteSet(Span(a, b)) BY SpanIs
<1>6. SumFunctionOnSet(f, Span(a, b) \cup {b + 1}) = f[b + 1] + SumFunctionOnSet(f, Span(a, b))
  BY <1>2, <1>4, <1>5, SumPut
<1> QED BY <1>1, <1>3, <1>6

\* One more request at a tick of the span.
LEMMA SpanBump ==
  ASSUME NEW f \in [LimTimes -> Nat], NEW a \in Int, NEW b \in LimTimes, a <= b
  PROVE  /\ [f EXCEPT ![b] = @ + 1] \in [LimTimes -> Nat]
         /\ SumFunctionOnSet([f EXCEPT ![b] = @ + 1], Span(a, b)) = SumFunctionOnSet(f, Span(a, b)) + 1
<1> DEFINE g == [f EXCEPT ![b] = @ + 1]
<1>1. g \in [LimTimes -> Nat] /\ g[b] = f[b] + 1 /\ \A t \in LimTimes : t # b => g[t] = f[t] OBVIOUS
<1> HIDE DEF g
<1>2. b \in Int BY SpanIs
<1>3. b \in Span(a, b) BY <1>2, SpanIs
<1>4. \A x \in Span(a, b) : f[x] \in Nat /\ g[x] \in Nat BY <1>1, SpanIs
<1>5. \A y \in Span(a, b) \ {b} : f[y] = g[y] BY <1>1, SpanIs
<1>6. IsFiniteSet(Span(a, b)) BY SpanIs
<1>7. SumFunctionOnSet(g, Span(a, b)) + f[b] = SumFunctionOnSet(f, Span(a, b)) + g[b]
  BY <1>3, <1>4, <1>5, <1>6, SumChange
<1>8. SumFunctionOnSet(f, Span(a, b)) \in Nat /\ SumFunctionOnSet(g, Span(a, b)) \in Nat BY <1>1, SpanSum
<1>9. f[b] \in Nat OBVIOUS
<1>10. SumFunctionOnSet(g, Span(a, b)) = SumFunctionOnSet(f, Span(a, b)) + 1 BY <1>1, <1>7, <1>8, <1>9
<1> QED BY <1>1, <1>10 DEF g

\* A span before the tick does not see it.
LEMMA SpanBefore ==
  ASSUME NEW f \in [LimTimes -> Nat], NEW a, NEW b \in Int, NEW t \in LimTimes, b < t
  PROVE  SumFunctionOnSet([f EXCEPT ![t] = @ + 1], Span(a, b)) = SumFunctionOnSet(f, Span(a, b))
<1> DEFINE g == [f EXCEPT ![t] = @ + 1]
<1>1. \A x \in LimTimes : x # t => g[x] = f[x] OBVIOUS
<1> HIDE DEF g
<1>2. \A x \in Span(a, b) : f[x] = g[x]
  <2>1. \A x \in Span(a, b) : x \in Nat /\ x <= b /\ x \in LimTimes BY SpanIs
  <2>2. t \in Int BY SpanIs
  <2> QED BY <1>1, <2>1, <2>2
<1>3. SumFunctionOnSet(g, Span(a, b)) = SumFunctionOnSet(f, Span(a, b)) BY <1>2, SpanIs, SumSame
<1> QED BY <1>3 DEF g

\* The typed conjuncts.
LEMMA LimitIs ==
  ASSUME LimitTyped
  PROVE  /\ limnow \in LimTimes /\ limnow \in Nat /\ refused \in BOOLEAN
         /\ hits.count \in Nat /\ hits.reset \in Nat \cup {-1} /\ hits \in [count : Nat, reset : Nat \cup {-1}]
         /\ arrived.all \in [LimTimes -> Nat] /\ arrived.let \in [LimTimes -> Nat] /\ arrived.n \in Nat
         /\ Window \in Nat \ {0} /\ Allowed \in Nat \ {0}
BY SpanIs, OpsAssumption DEF LimitTyped

\* A request opens a window or falls in the open one.
LEMMA RequestKeeps == ASSUME LimitInv, LimitedRequest PROVE LimitInv'
<1> USE DEF LimitInv
<1> DEFINE all == [arrived.all EXCEPT ![limnow] = @ + 1]
           let == [arrived.let EXCEPT ![limnow] = @ + 1]
           open == hits'.reset - Window
           S(f, a, b) == SumFunctionOnSet(f, Span(a, b))
<1>1. /\ limnow \in LimTimes /\ limnow \in Nat /\ hits.count \in Nat /\ hits.reset \in Nat \cup {-1}
      /\ arrived.all \in [LimTimes -> Nat] /\ arrived.let \in [LimTimes -> Nat] /\ arrived.n \in Nat
      /\ Window \in Nat \ {0} /\ Allowed \in Nat \ {0} /\ hits \in [count : Nat, reset : Nat \cup {-1}]
  BY LimitIs
<1>2. /\ hits' = [Entry EXCEPT !.count = @ + 1] /\ refused' = (hits'.count > Allowed) /\ limnow' = limnow
      /\ arrived' = [n |-> arrived.n + 1, all |-> all, let |-> IF refused' THEN arrived.let ELSE let]
  BY DEF LimitedRequest
<1>3. arrived'.n \in Nat /\ arrived'.all = all /\ arrived'.let = IF refused' THEN arrived.let ELSE let
  BY <1>1, <1>2
<1>4. /\ all \in [LimTimes -> Nat] /\ \A t \in LimTimes : t # limnow => all[t] = arrived.all[t]
      /\ let \in [LimTimes -> Nat] /\ \A t \in LimTimes : t # limnow => let[t] = arrived.let[t]
  BY <1>1
<1>5. arrived' \in [n : Nat, all : [LimTimes -> Nat], let : [LimTimes -> Nat]] BY <1>1, <1>2, <1>4
<1>6. \A t \in LimTimes : t > limnow' => arrived'.all[t] = 0 /\ arrived'.let[t] = 0
  <2> SUFFICES ASSUME NEW t \in LimTimes, t > limnow PROVE arrived'.all[t] = 0 /\ arrived'.let[t] = 0 BY <1>2
  <2>1. t # limnow BY <1>1
  <2>2. arrived.all[t] = 0 /\ arrived.let[t] = 0 BY DEF LimitTyped
  <2> HIDE DEF all, let
  <2> QED BY <1>3, <1>4, <2>1, <2>2
<1>7. Live <=> hits.reset # -1 /\ hits.reset > limnow BY <1>1 DEF Live
<1>b. /\ S(all, open, limnow) \in Nat /\ \A a \in Int, b \in Int : S(arrived.let, a, b) \in Nat /\ S(let, a, b) \in Nat
  BY <1>1, <1>4, SpanSum
<1>8. CASE Live
  <2>1. Entry = hits BY <1>1, <1>7, <1>8 DEF Entry
  <2>2. hits' \in [count : Nat, reset : Nat \cup {-1}] /\ hits'.count = hits.count + 1 /\ hits'.reset = hits.reset
    BY <1>1, <1>2, <2>1
  <2>3. /\ open \in 0..limnow /\ hits.count = S(arrived.all, open, limnow)
        /\ S(arrived.let, open, limnow) <= hits.count /\ S(arrived.let, open, limnow) <= Allowed
        /\ S(arrived.let, limnow - Window + 1, open - 1) <= Allowed
    BY <1>8, <2>2
  <2>4. open \in Int /\ open <= limnow BY <1>1, <2>3
  <2>5. S(all, open, limnow) = S(arrived.all, open, limnow) + 1 BY <1>1, <2>4, SpanBump
  <2>6. S(let, open, limnow) = S(arrived.let, open, limnow) + 1 BY <1>1, <2>4, SpanBump
  <2>7. S(let, limnow - Window + 1, open - 1) = S(arrived.let, limnow - Window + 1, open - 1)
    <3>1. open - 1 \in Int /\ open - 1 < limnow BY <1>1, <2>4
    <3> HIDE DEF open
    <3> QED BY <1>1, <3>1, SpanBefore
  <2>8. S(arrived.let, open, limnow) \in Nat BY <1>1, SpanSum
  <2> HIDE DEF S, all, let
  <2>9. hits'.count = S(arrived'.all, open, limnow) BY <1>3, <2>2, <2>3, <2>5
  <2>10. S(arrived'.let, open, limnow) <= hits'.count /\ S(arrived'.let, open, limnow) <= Allowed
    <3>1. CASE refused' BY <1>1, <1>3, <2>2, <2>3, <2>8, <3>1
    <3>2. CASE ~refused'
      <4>0. refused' <=> hits'.count > Allowed BY <1>2, Zenon
      <4>1. hits'.count <= Allowed BY <1>1, <2>2, <3>2, <4>0
      <4>2. S(arrived'.let, open, limnow) = S(arrived.let, open, limnow) + 1 BY <1>3, <2>6, <3>2
      <4> HIDE DEF open
      <4> QED BY <1>1, <2>2, <2>3, <2>8, <4>1, <4>2
    <3> QED BY <3>1, <3>2
  <2>11. S(arrived'.let, limnow - Window + 1, open - 1) <= Allowed BY <1>3, <2>3, <2>7
  <2>12. Live' BY <1>2, <1>8, <2>2 DEF Live
  <2>13. LimitTyped' BY <1>1, <1>2, <1>5, <1>6, <2>2 DEF LimitTyped
  <2> QED BY <1>2, <2>3, <2>9, <2>10, <2>11, <2>12, <2>13 DEF S
<1>9. CASE ~Live
  <2>1. Entry = Opened BY <1>1, <1>7, <1>9 DEF Entry
  <2>2. hits' = [count |-> 1, reset |-> limnow + Window] BY <1>2, <2>1 DEF Opened
  <2>3. /\ hits' \in [count : Nat, reset : Nat \cup {-1}] /\ hits'.count = 1 /\ open = limnow
        /\ hits'.reset = limnow + Window
    BY <1>1, <2>2
  <2>4. /\ S(arrived.let, limnow - Window + 1, limnow) <= Allowed
        /\ arrived.all[limnow] = 0 /\ arrived.let[limnow] = 0
    BY <1>9
  <2>5. /\ S(all, limnow, limnow) = S(arrived.all, limnow, limnow) + 1
        /\ S(let, limnow, limnow) = S(arrived.let, limnow, limnow) + 1
    BY <1>1, SpanBump
  <2>6. S(arrived.all, limnow, limnow) = 0 /\ S(arrived.let, limnow, limnow) = 0
    <3>1. \A t \in Span(limnow, limnow) : t = limnow
      <4>1. \A t \in Span(limnow, limnow) : t \in Nat /\ limnow <= t /\ t <= limnow BY SpanIs
      <4> QED BY <1>1, <4>1
    <3>2. IsFiniteSet(Span(limnow, limnow)) BY SpanIs
    <3> QED BY <2>4, <3>1, <3>2, SumZero
  <2>7. S(let, limnow - Window + 1, limnow - 1) = S(arrived.let, limnow - Window + 1, limnow - 1)
    <3>1. limnow - 1 \in Int /\ limnow - 1 < limnow BY <1>1
    <3> QED BY <1>1, <3>1, SpanBefore
  <2>8. S(arrived.let, limnow - Window + 1, limnow - 1) <= S(arrived.let, limnow - Window + 1, limnow)
    BY <1>1, SpanMono
  <2>9. S(arrived.let, limnow - Window + 1, limnow - 1) <= Allowed
    <3>1. /\ S(arrived.let, limnow - Window + 1, limnow - 1) \in Nat
          /\ S(arrived.let, limnow - Window + 1, limnow) \in Nat
      BY <1>1, SpanSum
    <3> HIDE DEF S
    <3> QED BY <1>1, <2>4, <2>8, <3>1
  <2> HIDE DEF S, all, let
  <2>10. ~refused'
    <3>1. ~(1 > Allowed) BY <1>1
    <3> QED BY <1>2, <2>3, <3>1
  <2>11. hits'.count = S(arrived'.all, limnow, limnow) BY <1>3, <2>3, <2>5, <2>6
  <2>12. S(arrived'.let, limnow, limnow) <= hits'.count /\ S(arrived'.let, limnow, limnow) <= Allowed
    BY <1>1, <1>3, <2>3, <2>5, <2>6, <2>10
  <2>13. S(arrived'.let, limnow - Window + 1, limnow - 1) <= Allowed BY <1>3, <2>7, <2>9, <2>10
  <2>14. Live' BY <1>1, <1>2, <2>3 DEF Live
  <2>15. LimitTyped' BY <1>1, <1>2, <1>5, <1>6, <2>3 DEF LimitTyped
  <2>16. open \in 0..limnow BY <1>1, <2>3
  <2> HIDE DEF open
  <2> QED BY <1>2, <2>3, <2>10, <2>11, <2>12, <2>13, <2>14, <2>15, <2>16 DEF S, open
<1> QED BY <1>8, <1>9

\* The sweep drops a window that is over.
LEMMA LimSweepKeeps == ASSUME LimitInv, Sweep PROVE LimitInv'
<1>1. LimitTyped BY DEF LimitInv
<1>2. hits.reset # -1 /\ hits.reset <= limnow /\ hits' = NoHits /\ UNCHANGED <<limnow, arrived, refused>> BY DEF Sweep
<1>3. ~Live /\ ~Live' /\ NoHits \in [count : Nat, reset : Nat \cup {-1}]
  BY <1>1, <1>2, LimitIs DEF Live, NoHits
<1>4. LimitTyped' BY <1>1, <1>2, <1>3 DEF LimitTyped
<1> QED BY <1>2, <1>3, <1>4 DEF LimitInv

\* Time passes: the open window goes on or is over.
LEMMA LimTickKeeps == ASSUME LimitInv, LimTick PROVE LimitInv'
<1> DEFINE S(a, b) == SumFunctionOnSet(arrived.let, Span(a, b))
           open == hits.reset - Window
<1>1. /\ limnow \in LimTimes /\ limnow \in Nat /\ hits.count \in Nat /\ hits.reset \in Nat \cup {-1}
      /\ arrived.all \in [LimTimes -> Nat] /\ arrived.let \in [LimTimes -> Nat] /\ LimitTyped
      /\ Window \in Nat \ {0} /\ Allowed \in Nat \ {0}
  BY LimitIs DEF LimitInv
<1>2. limnow < MaxOpsTime /\ limnow' = limnow + 1 /\ refused' = FALSE /\ UNCHANGED <<hits, arrived>> BY DEF LimTick
<1>3. limnow + 1 \in LimTimes /\ arrived.all[limnow + 1] = 0 /\ arrived.let[limnow + 1] = 0
  <2>1. limnow + 1 \in LimTimes BY <1>1, <1>2, OpsAssumption DEF LimTimes
  <2>2. limnow + 1 > limnow BY <1>1
  <2> QED BY <1>1, <2>1, <2>2 DEF LimitTyped
<1>4. LimitTyped'
  <2>1. \A t \in LimTimes : t > limnow' => t > limnow
    <3>1. \A t \in LimTimes : t \in Nat BY SpanIs
    <3> QED BY <1>1, <1>2, <3>1
  <2> QED BY <1>1, <1>2, <1>3, <2>1 DEF LimitTyped
<1>5. \A a \in Int, b \in Int : S(a, b) \in Nat BY <1>1, SpanSum
<1>6. \A a \in Int : a <= limnow + 1 =>
        /\ S(a, limnow + 1) = S(a, limnow)
        /\ SumFunctionOnSet(arrived.all, Span(a, limnow + 1)) = SumFunctionOnSet(arrived.all, Span(a, limnow))
  BY <1>1, <1>3, SpanAhead
<1>m. \A a \in Int, b \in Int, c \in Int : a <= c => S(c, b) <= S(a, b)
  <2> SUFFICES ASSUME NEW a \in Int, NEW b \in Int, NEW c \in Int, a <= c PROVE S(c, b) <= S(a, b) OBVIOUS
  <2>1. b <= b OBVIOUS
  <2> QED BY <1>1, <2>1, SpanMono
<1>7. CASE Live
  <2>1. /\ open \in 0..limnow /\ hits.count = SumFunctionOnSet(arrived.all, Span(open, limnow))
        /\ S(open, limnow) <= hits.count /\ S(open, limnow) <= Allowed
        /\ S(limnow - Window + 1, open - 1) <= Allowed
    BY <1>7 DEF LimitInv
  <2>2. open \in Int /\ open <= limnow + 1 /\ open - 1 \in Int /\ limnow - Window + 1 \in Int
        /\ limnow - Window + 1 <= limnow + 1 - Window + 1 /\ limnow + 1 - Window + 1 \in Int
    BY <1>1, <2>1
  <2>3. S(open, limnow + 1) = S(open, limnow)
        /\ SumFunctionOnSet(arrived.all, Span(open, limnow + 1)) = SumFunctionOnSet(arrived.all, Span(open, limnow))
    BY <1>6, <2>2
  <2>4. CASE Live'
    <3>1. S(limnow + 1 - Window + 1, open - 1) <= S(limnow - Window + 1, open - 1) BY <1>m, <2>2
    <3>2. S(limnow + 1 - Window + 1, open - 1) <= Allowed
      <4>1. S(limnow + 1 - Window + 1, open - 1) \in Nat /\ S(limnow - Window + 1, open - 1) \in Nat
        BY <1>5, <2>2
      <4> HIDE DEF S
      <4> QED BY <1>1, <2>1, <3>1, <4>1
    <3>3. open \in 0..(limnow + 1) BY <1>1, <2>1
    <3>4. (hits.reset - Window)' = open /\ limnow' = limnow + 1 /\ arrived' = arrived /\ hits' = hits /\ ~refused'
      BY <1>2
    <3> HIDE DEF open
    <3>5. LET op == (hits.reset - Window)' IN
            /\ op \in 0..limnow'
            /\ hits'.count = SumFunctionOnSet(arrived'.all, Span(op, limnow'))
            /\ SumFunctionOnSet(arrived'.let, Span(op, limnow')) <= hits'.count
            /\ SumFunctionOnSet(arrived'.let, Span(op, limnow')) <= Allowed
            /\ SumFunctionOnSet(arrived'.let, Span(limnow' - Window + 1, op - 1)) <= Allowed
      <4>1. limnow' - Window + 1 = limnow + 1 - Window + 1 BY <1>1, <1>2
      <4> QED BY <2>1, <2>3, <3>2, <3>3, <3>4, <4>1, Zenon
    <3> QED BY <1>2, <1>4, <2>4, <3>5 DEF LimitInv
  <2>5. CASE ~Live'
    <3>1. hits.reset = limnow + 1 BY <1>1, <1>2, <1>7, <2>5 DEF Live
    <3>2. limnow + 1 - Window + 1 = open + 1 /\ open + 1 \in Int /\ open <= open + 1 /\ open + 1 <= limnow + 1
      BY <1>1, <2>2, <3>1
    <3>3. S(open + 1, limnow + 1) = S(open + 1, limnow) BY <1>6, <3>2
    <3>4. S(open + 1, limnow) <= S(open, limnow) BY <1>1, <1>m, <2>2, <3>2
    <3>5. S(open + 1, limnow) \in Nat /\ S(open, limnow) \in Nat
      <4>1. limnow \in Int BY <1>1
      <4> HIDE DEF open
      <4> QED BY <1>5, <2>2, <3>2, <4>1
    <3>6. S(limnow + 1 - Window + 1, limnow + 1) <= Allowed
      <4> HIDE DEF S, open
      <4> QED BY <1>1, <2>1, <3>2, <3>3, <3>4, <3>5
    <3>7. SumFunctionOnSet(arrived'.let, Span(limnow' - Window + 1, limnow')) <= Allowed
      <4>1. limnow' - Window + 1 = limnow + 1 - Window + 1 BY <1>1, <1>2
      <4> QED BY <1>2, <3>6, <4>1, Zenon
    <3>8. arrived'.all[limnow'] = 0 /\ arrived'.let[limnow'] = 0 BY <1>2, <1>3
    <3> QED BY <1>2, <1>4, <2>5, <3>7, <3>8 DEF LimitInv
  <2> QED BY <2>4, <2>5
<1>8. CASE ~Live
  <2>1. ~Live' BY <1>1, <1>2, <1>8 DEF Live
  <2> DEFINE lo == limnow - Window + 1
  <2>2. S(lo, limnow) <= Allowed BY <1>8 DEF LimitInv
  <2>3. /\ limnow + 1 - Window + 1 = lo + 1 /\ lo \in Int /\ lo + 1 \in Int /\ lo <= lo + 1 /\ lo + 1 <= limnow + 1
    BY <1>1
  <2>4. S(lo + 1, limnow + 1) = S(lo + 1, limnow) BY <1>6, <2>3
  <2>5. S(lo + 1, limnow) <= S(lo, limnow) /\ S(lo + 1, limnow) \in Nat /\ S(lo, limnow) \in Nat
    BY <1>1, <1>m, <1>5, <2>3
  <2>6. S(limnow + 1 - Window + 1, limnow + 1) <= Allowed
    <3> HIDE DEF S, lo
    <3> QED BY <1>1, <2>2, <2>3, <2>4, <2>5
  <2>7. SumFunctionOnSet(arrived'.let, Span(limnow' - Window + 1, limnow')) <= Allowed
    <3>1. limnow' - Window + 1 = limnow + 1 - Window + 1 BY <1>1, <1>2
    <3> QED BY <1>2, <2>6, <3>1, Zenon
  <2>8. arrived'.all[limnow'] = 0 /\ arrived'.let[limnow'] = 0 BY <1>2, <1>3
  <2> QED BY <1>2, <1>4, <2>1, <2>7, <2>8 DEF LimitInv
<1> QED BY <1>7, <1>8

\* Every step of the limiter keeps its invariant.
LEMMA LimitKeeps == ASSUME LimitInv, [LimitNext]_limitVars PROVE LimitInv'
<1>1. CASE UNCHANGED limitVars
  <2>1. UNCHANGED <<limnow, hits, arrived, refused>> BY <1>1 DEF limitVars
  <2>2. LimitTyped' /\ (Live' <=> Live) BY <2>1 DEF LimitInv, LimitTyped, Live
  <2> QED BY <2>1, <2>2 DEF LimitInv
<1> QED BY <1>1, RequestKeeps, LimSweepKeeps, LimTickKeeps DEF LimitNext

\* What the limiter's invariant says of a refusal and of a window.
LEMMA LimiterIs == ASSUME LimitInv PROVE LimiterSound
<1> DEFINE S(f, a, b) == SumFunctionOnSet(f, Span(a, b))
           lo == limnow - Window + 1
           open == hits.reset - Window
<1>1. /\ limnow \in LimTimes /\ limnow \in Nat /\ hits.count \in Nat /\ hits.reset \in Nat \cup {-1}
      /\ arrived.all \in [LimTimes -> Nat] /\ arrived.let \in [LimTimes -> Nat]
      /\ Window \in Nat \ {0} /\ Allowed \in Nat \ {0}
  BY LimitIs DEF LimitInv
<1>2. \A f : Recent(f) = S(f, lo, limnow)
  <2>1. {t \in LimTimes : t > limnow - Window /\ t <= limnow} = Span(lo, limnow)
    <3>1. \A t \in LimTimes : t \in Nat BY SpanIs
    <3>2. \A t \in LimTimes : t > limnow - Window <=> lo <= t BY <1>1, <3>1
    <3> QED BY <3>2 DEF Span
  <2> HIDE DEF lo
  <2> QED BY <2>1 DEF Recent
<1>3. lo \in Int /\ lo <= limnow BY <1>1
<1>4. ASSUME Live
      PROVE  /\ open \in 0..limnow /\ lo <= open /\ hits.count = S(arrived.all, open, limnow)
             /\ S(arrived.let, open, limnow) <= Allowed /\ S(arrived.let, lo, open - 1) <= Allowed
  BY <1>1, <1>4 DEF LimitInv, Live
<1>5. refused => Recent(arrived.all) > Allowed
  <2> SUFFICES ASSUME refused PROVE Recent(arrived.all) > Allowed OBVIOUS
  <2>1. Live /\ hits.count > Allowed BY DEF LimitInv
  <2>2. open \in Int /\ lo <= open /\ limnow <= limnow BY <1>1, <1>4, <2>1
  <2>3. S(arrived.all, open, limnow) <= S(arrived.all, lo, limnow) BY <1>1, <1>3, <2>2, SpanMono
  <2>4. S(arrived.all, lo, limnow) \in Nat BY <1>1, SpanSum
  <2>5. hits.count = S(arrived.all, open, limnow) BY <1>4, <2>1
  <2> HIDE DEF S
  <2> QED BY <1>1, <1>2, <2>1, <2>3, <2>4, <2>5
<1>6. Recent(arrived.let) <= 2 * Allowed
  <2>1. CASE ~Live
    <3>1. S(arrived.let, lo, limnow) <= Allowed BY <2>1 DEF LimitInv
    <3>2. S(arrived.let, lo, limnow) \in Nat BY <1>1, SpanSum
    <3> HIDE DEF S
    <3> QED BY <1>1, <1>2, <3>1, <3>2
  <2>2. CASE Live
    <3>1. open \in Int /\ open - 1 \in Int /\ open <= limnow BY <1>1, <1>4, <2>2
    <3>2. Span(lo, limnow) = Span(lo, open - 1) \cup Span(open, limnow)
      <4>1. \A t \in LimTimes : t \in Nat BY SpanIs
      <4>2. \A t \in LimTimes : lo <= t /\ t <= limnow <=>
                                (lo <= t /\ t <= open - 1) \/ (open <= t /\ t <= limnow)
        BY <1>1, <1>3, <1>4, <2>2, <3>1, <4>1
      <4> HIDE DEF lo, open
      <4> QED BY <4>2, SpanIs
    <3>3. Span(lo, open - 1) \cap Span(open, limnow) = {}
      <4>1. \A t \in LimTimes : t \in Nat BY SpanIs
      <4>2. \A t \in LimTimes : ~(t <= open - 1 /\ open <= t) BY <3>1, <4>1
      <4> HIDE DEF lo, open
      <4> QED BY <4>2, SpanIs
    <3>4. IsFiniteSet(Span(lo, open - 1)) /\ IsFiniteSet(Span(open, limnow)) BY SpanIs
    <3>5. \A x \in Span(lo, open - 1) \cup Span(open, limnow) : arrived.let[x] \in Nat BY <1>1, SpanIs
    <3>6. S(arrived.let, lo, limnow) = S(arrived.let, lo, open - 1) + S(arrived.let, open, limnow)
      <4> HIDE DEF lo, open
      <4> QED BY <3>2, <3>3, <3>4, <3>5, SumUnion
    <3>7. S(arrived.let, lo, open - 1) \in Nat /\ S(arrived.let, open, limnow) \in Nat BY <1>1, SpanSum
    <3>8. S(arrived.let, open, limnow) <= Allowed /\ S(arrived.let, lo, open - 1) <= Allowed BY <1>4, <2>2
    <3> HIDE DEF S
    <3> QED BY <1>1, <1>2, <3>6, <3>7, <3>8
  <2> QED BY <2>1, <2>2
<1> QED BY <1>5, <1>6 DEF LimiterSound

\* The invariants of the operators' side.
LEMMA OpsAtFirst == OpsInit => OpsInv
<1> SUFFICES ASSUME OpsInit PROVE OpsInv OBVIOUS
<1>1. RestartInv
  <2>1. wanted = FALSE /\ asked = 0 /\ handed = 0 /\ withdrawn = 0 /\ merged = 0 BY DEF OpsInit
  <2>2. wanted \in BOOLEAN BY <2>1, Zenon
  <2>3. (IF wanted THEN 1 ELSE 0) = 0 BY <2>1
  <2> QED BY <2>1, <2>2, <2>3 DEF RestartInv, RestartOnce
<1>2. MaintInv
  <2>1. /\ opsnow = 1 /\ conf = Off /\ local = [r \in OpsReplicas |-> FALSE]
        /\ toggling = [r \in OpsReplicas |-> Idle] /\ overlapped = FALSE
        /\ said = [last |-> -1, pulled |-> FALSE, tight |-> FALSE] /\ reading = [r \in OpsReplicas |-> "none"]
        /\ claiming = [r \in OpsReplicas |-> 0]
    BY DEF OpsInit
  <2>2. overlapped \in BOOLEAN /\ local \in [OpsReplicas -> BOOLEAN] BY <2>1, Zenon
  <2>3. conf \in Confs /\ conf.at = 0 /\ ~conf.active /\ ~conf.msg BY <2>1 DEF Confs, Off
  <2>4. toggling \in [OpsReplicas -> Toggles] /\ \A r \in OpsReplicas : toggling[r].pc = 0
    BY <2>1 DEF Toggles, Idle
  <2>5. said \in Saids /\ said.last = -1 /\ ~said.tight BY <2>1 DEF Saids
  <2>6. reading \in [OpsReplicas -> {"none", "on", "off"}] /\ claiming \in [OpsReplicas -> Nat] BY <2>1
  <2> QED BY <2>1, <2>2, <2>3, <2>4, <2>5, <2>6
          DEF MaintInv, NoticeSpacing, MaintWhole, Toggles, Confs, Saids
<1>3. LogInv BY FS_EmptySet DEF OpsInit, LogInv
<1>4. LimitInv
  <2>1. limnow = 0 /\ hits.reset = -1 /\ hits \in [count : Nat, reset : Nat \cup {-1}] /\ refused = FALSE
    BY DEF OpsInit, NoHits
  <2> DEFINE zero == [t \in LimTimes |-> 0]
  <2>2. arrived = [n |-> 0, all |-> zero, let |-> zero] BY DEF OpsInit
  <2>3. zero \in [LimTimes -> Nat] /\ \A t \in LimTimes : zero[t] = 0 OBVIOUS
  <2> HIDE DEF zero
  <2>4. 0 \in LimTimes BY OpsAssumption DEF LimTimes
  <2>5. LimitTyped BY <2>1, <2>2, <2>3, <2>4 DEF LimitTyped
  <2>6. ~Live BY <2>1 DEF Live
  <2>7. SumFunctionOnSet(zero, Span(limnow - Window + 1, limnow)) = 0
    <3>1. \A t \in Span(limnow - Window + 1, limnow) : zero[t] = 0 BY <2>3, SpanIs
    <3>2. IsFiniteSet(Span(limnow - Window + 1, limnow)) BY SpanIs
    <3> QED BY <3>1, <3>2, SumZero
  <2>8. 0 <= Allowed BY OpsAssumption
  <2> QED BY <2>1, <2>2, <2>3, <2>4, <2>5, <2>6, <2>7, <2>8 DEF LimitInv
<1> QED BY <1>1, <1>2, <1>3, <1>4 DEF OpsInv

\* Every step of the operators' side keeps its invariant.
LEMMA OpsKeeps == ASSUME OpsInv, [OpsNext]_opsVars PROVE OpsInv'
<1>1. [RestartNext]_restartVars /\ [MaintNext]_maintVars /\ [LogNext]_logVars /\ [LimitNext]_limitVars
  BY DEF OpsNext, opsVars
<1> QED BY <1>1, RestartKeeps, MaintKeeps, LogKeeps, LimitKeeps DEF OpsInv

\* Every request to restart ends in one place; repeated notices are an interval
\* apart and what a lone toggle leaves is whole; a report under its rate is never
\* refused and a window lets no more than twice the rate through.
LEMMA OpsAlways == OpsSpec => []OpsSound
<1>1. OpsInv => OpsSound
  BY LimiterIs DEF OpsInv, OpsSound, RestartInv, MaintInv
<1> QED BY <1>1, OpsAtFirst, OpsKeeps, PTL DEF OpsSpec

\* No pruning of the operator log takes its newest rows.
LEMMA NewestAlways == OpsSpec => NewestKept
<1>1. ASSUME OpsInv, [OpsNext]_opsVars
      PROVE  [\A i \in logrows \ logrows' : Cardinality({j \in logrows : j > i}) >= LogKeep]_logVars
  <2>1. [LogNext]_logVars BY <1>1 DEF OpsNext, opsVars
  <2>2. \A i \in logrows \ logrows' : Cardinality({j \in logrows : j > i}) >= LogKeep
    BY <1>1, <2>1, PruneLeaves DEF OpsInv
  <2> QED BY <2>2
<1> QED BY <1>1, OpsAtFirst, OpsKeeps, PTL DEF OpsSpec, NewestKept


-----------------------------------------------------------------------------
(* The map pack.                                                           *)

\* A replica's refresh comes to k; nothing of the mirror, the lock or the index
\* entries' truth is disturbed by that.
LEMMA RefreshMoves ==
  ASSUME PackInv, NEW r \in PackReplicas, NEW k \in Refreshes, pk' = [pk EXCEPT ![r] = k],
         mirror' = mirror, pfaults' \in Nat,
         pindex' \in SUBSET PackEntries, \A e \in pindex' : Indexed(e),
         \A e \in k.known \cup k.fresh \cup k.layout : Indexed(e), \A e \in k.todo : Stated(e),
         plock' \in {"none", "fresh", "stale"}, broken' \in BOOLEAN, k.held <=> k.pc \in {"hash", "unlock"},
         ~broken' => /\ ~broken
                     /\ k.held => plock' # "none" /\ \A q \in PackReplicas \ {r} : ~pk[q].held
                     /\ \A q \in PackReplicas \ {r} : pk[q].held => plock' # "none",
         dl' = dl
  PROVE  PackInv'
<1>1. pk \in [PackReplicas -> Refreshes] BY DEF PackInv, PackTypeOK
<1>2. pk' \in [PackReplicas -> Refreshes] /\ \A q \in PackReplicas : pk'[q] = IF q = r THEN k ELSE pk[q]
  BY <1>1
<1>3. \A e : (Indexed(e)' <=> Indexed(e)) /\ (Stated(e)' <=> Stated(e)) BY DEF Indexed, Stated
<1>4. PackTypeOK' BY <1>2 DEF PackInv, PackTypeOK
<1>5. LockInv'
  <2>1. \A q \in PackReplicas : pk'[q].held <=> pk'[q].pc \in {"hash", "unlock"}
    BY <1>2 DEF PackInv, LockInv
  <2>2. ASSUME ~broken', NEW q \in PackReplicas, pk'[q].held
        PROVE  plock' # "none" /\ \A o \in PackReplicas \ {q} : ~pk'[o].held
    <3>1. CASE q = r BY <1>2, <2>2, <3>1
    <3>2. CASE q # r
      <4>1. pk[q].held /\ ~broken BY <1>2, <2>2, <3>2
      <4>2. plock' # "none" /\ \A o \in PackReplicas \ {q} : ~pk[o].held
        BY <2>2, <3>2, <4>1 DEF PackInv, LockInv
      <4>3. ~k.held BY <2>2, <3>2, <4>1
      <4> QED BY <1>2, <3>2, <4>2, <4>3
    <3> QED BY <3>1, <3>2
  <2> QED BY <2>1, <2>2 DEF LockInv
<1>6. IndexInv' BY <1>2, <1>3 DEF PackInv, IndexInv
<1>7. GotInv' BY <1>3 DEF PackInv, GotInv
<1> QED BY <1>4, <1>5, <1>6, <1>7 DEF PackInv

\* The refresh of one replica, as the invariant has it.
LEMMA RefreshIs ==
  ASSUME PackInv, NEW r \in PackReplicas
  PROVE  /\ pk[r] \in Refreshes /\ (pk[r].held <=> pk[r].pc \in {"hash", "unlock"})
         /\ pindex \in SUBSET PackEntries /\ \A e \in pindex : Indexed(e)
         /\ \A e \in pk[r].known \cup pk[r].fresh \cup pk[r].layout : Indexed(e)
         /\ \A e \in pk[r].todo : Stated(e)
         /\ plock \in {"none", "fresh", "stale"} /\ broken \in BOOLEAN /\ pfaults \in Nat
         /\ ~broken => \A q \in PackReplicas : pk[q].held =>
                         plock # "none" /\ \A o \in PackReplicas \ {q} : ~pk[o].held
         /\ mirror \in [Packs -> MirrorFiles]
BY DEF PackInv, PackTypeOK, LockInv, IndexInv

\* A refresh that ends holds nothing.
LEMMA DoneKeeps ==
  ASSUME PackInv, NEW r \in PackReplicas, NEW l \in SUBSET PackEntries, Done(r, l),
         \A e \in l : Indexed(e), UNCHANGED <<mirror, pindex, broken, dl>>, pfaults' \in Nat,
         plock' = plock \/ (plock' = "none" /\ (~broken => \A q \in PackReplicas \ {r} : ~pk[q].held))
  PROVE  PackInv'
<1> DEFINE k == [pc |-> "idle", left |-> {}, known |-> {}, fresh |-> {}, todo |-> {}, held |-> FALSE, layout |-> l]
<1>1. pk' = [pk EXCEPT ![r] = k] BY DEF Done
<1>2. k \in Refreshes BY DEF Refreshes
<1>3. k.known = {} /\ k.fresh = {} /\ k.todo = {} /\ ~k.held /\ k.pc = "idle" /\ k.layout = l OBVIOUS
<1> HIDE DEF k
<1>4. plock' \in {"none", "fresh", "stale"} BY RefreshIs
<1>5. ASSUME ~broken', NEW q \in PackReplicas \ {r}, pk[q].held PROVE plock' # "none"
  BY <1>5, RefreshIs
<1> QED BY <1>1, <1>2, <1>3, <1>4, <1>5, RefreshIs, RefreshMoves

\* A refresh starts from the index.
LEMMA RefreshKeeps == ASSUME PackInv, NEW r \in PackReplicas, Refresh(r) PROVE PackInv'
<1> DEFINE k == [pc |-> "stat", left |-> Packs, known |-> pindex, fresh |-> {}, todo |-> {}, held |-> FALSE,
                 layout |-> IF pk[r].layout = NoLayout THEN pindex ELSE pk[r].layout]
<1>1. pk' = [pk EXCEPT ![r] = k] /\ UNCHANGED <<mirror, pindex, plock, broken, dl, pfaults>> BY DEF Refresh
<1>2. pk[r] \in Refreshes /\ pindex \in SUBSET PackEntries BY RefreshIs
<1>3. k \in Refreshes BY <1>2 DEF Refreshes
<1>4. \A e \in k.known \cup k.fresh \cup k.layout : Indexed(e) BY RefreshIs
<1>5. k.todo = {} /\ ~k.held /\ k.pc = "stat" OBVIOUS
<1> HIDE DEF k
<1> QED BY <1>1, <1>3, <1>4, <1>5, RefreshIs, RefreshMoves

\* A file is looked at: an entry that is kept is kept as it was, a new one is to be hashed.
LEMMA StatKeeps == ASSUME PackInv, NEW r \in PackReplicas, StatPass(r) PROVE PackInv'
<1>1. pk[r].pc = "stat" /\ UNCHANGED <<mirror, pindex, plock, broken, dl, pfaults>> BY DEF StatPass
<1>2. PICK p \in pk[r].left :
        LET f == mirror[p]
            same == {e \in pk[r].known : f.there /\ e.name = p /\ e.size = Bytes(f.data) /\ e.mtime = f.mtime}
            new == [name |-> p, size |-> Bytes(f.data), mtime |-> f.mtime, crc |-> 0, maps |-> FALSE]
        IN pk' = [pk EXCEPT ![r] = [pk[r] EXCEPT
                    !.left = @ \ {p},
                    !.fresh = @ \cup {[e EXCEPT !.maps = TRUE] : e \in same},
                    !.todo = IF f.there /\ same = {} THEN @ \cup {new} ELSE @]]
  BY DEF StatPass
<1> DEFINE same == {e \in pk[r].known : /\ mirror[p].there /\ e.name = p
                                         /\ e.size = Bytes(mirror[p].data) /\ e.mtime = mirror[p].mtime}
           new == [name |-> p, size |-> Bytes(mirror[p].data), mtime |-> mirror[p].mtime, crc |-> 0, maps |-> FALSE]
           fresh == pk[r].fresh \cup {[e EXCEPT !.maps = TRUE] : e \in same}
           todo == IF mirror[p].there /\ same = {} THEN pk[r].todo \cup {new} ELSE pk[r].todo
           k == [pk[r] EXCEPT !.left = pk[r].left \ {p}, !.fresh = fresh, !.todo = todo]
<1>3. pk[r] \in Refreshes /\ mirror \in [Packs -> MirrorFiles] BY RefreshIs
<1>4. p \in Packs BY <1>3 DEF Refreshes
<1>5. mirror[p].mtime \in Nat /\ mirror[p].data \in Nat BY <1>3, <1>4 DEF MirrorFiles
<1>6. new \in PackEntries
  <2>1. Bytes(mirror[p].data) \in Nat BY <1>5 DEF Bytes
  <2> QED BY <1>4, <1>5, <2>1 DEF PackEntries
<1>7. pk' = [pk EXCEPT ![r] = k]
  <2> QED BY <1>2, Zenon
<1>8. \A e \in same : e \in PackEntries /\ [e EXCEPT !.maps = TRUE] \in PackEntries /\ Indexed([e EXCEPT !.maps = TRUE])
  <2> SUFFICES ASSUME NEW e \in same
               PROVE  e \in PackEntries /\ [e EXCEPT !.maps = TRUE] \in PackEntries /\ Indexed([e EXCEPT !.maps = TRUE])
    OBVIOUS
  <2>1. e \in pk[r].known /\ e \in PackEntries /\ Indexed(e) BY <1>3, RefreshIs DEF Refreshes
  <2> DEFINE g == [e EXCEPT !.maps = TRUE]
  <2>2. g \in PackEntries /\ g.name = e.name /\ g.mtime = e.mtime /\ g.crc = e.crc BY <2>1 DEF PackEntries
  <2> HIDE DEF g
  <2>3. Indexed(g) BY <2>1, <2>2 DEF Indexed
  <2> QED BY <2>1, <2>2, <2>3 DEF g
<1>9. fresh \in SUBSET PackEntries /\ \A e \in fresh : Indexed(e)
  <2>1. \A e \in pk[r].fresh : e \in PackEntries /\ Indexed(e) BY <1>3, RefreshIs DEF Refreshes
  <2> HIDE DEF same
  <2> QED BY <1>8, <2>1
<1>10. todo \in SUBSET PackEntries /\ \A e \in todo : Stated(e)
  <2>1. \A e \in pk[r].todo : e \in PackEntries /\ Stated(e) BY <1>3, RefreshIs DEF Refreshes
  <2>2. Stated(new) BY <1>5 DEF Stated
  <2> HIDE DEF new, same
  <2> QED BY <1>6, <2>1, <2>2
<1> HIDE DEF fresh, todo
<1>11. k \in Refreshes /\ k.fresh = fresh /\ k.todo = todo /\ k.known = pk[r].known /\ k.layout = pk[r].layout
       /\ k.held = pk[r].held /\ k.pc = "stat"
  BY <1>1, <1>3, <1>9, <1>10 DEF Refreshes
<1> HIDE DEF k
<1>12. \A e \in k.known \cup k.fresh \cup k.layout : Indexed(e) BY <1>9, <1>11, RefreshIs
<1>13. ~k.held BY <1>1, <1>11, RefreshIs
<1> QED BY <1>1, <1>7, <1>10, <1>11, <1>12, <1>13, RefreshIs, RefreshMoves

\* The lock is taken only when it is free.
LEMMA TakeKeeps == ASSUME PackInv, NEW r \in PackReplicas, TakeLock(r) PROVE PackInv'
<1>1. pk[r].pc \in {"stat", "create"} /\ UNCHANGED <<mirror, pindex, broken, dl, pfaults>> BY DEF TakeLock
<1>2. pk[r] \in Refreshes /\ pk \in [PackReplicas -> Refreshes] /\ ~pk[r].held
  BY <1>1, RefreshIs DEF PackInv, PackTypeOK
<1>3. CASE plock = "none" /\ plock' = "fresh" /\ pk' = [pk EXCEPT ![r] = [pk[r] EXCEPT !.pc = "hash", !.held = TRUE]]
  <2> DEFINE k == [pk[r] EXCEPT !.pc = "hash", !.held = TRUE]
  <2>1. pk' = [pk EXCEPT ![r] = k] BY <1>3
  <2>2. k \in Refreshes /\ k.known = pk[r].known /\ k.fresh = pk[r].fresh /\ k.layout = pk[r].layout
        /\ k.todo = pk[r].todo /\ k.held /\ k.pc = "hash"
    BY <1>2 DEF Refreshes
  <2> HIDE DEF k
  <2>3. ~broken => \A q \in PackReplicas : ~pk[q].held BY <1>3, RefreshIs
  <2>4. \A e \in k.known \cup k.fresh \cup k.layout : Indexed(e) BY <2>2, RefreshIs
  <2>5. \A e \in k.todo : Stated(e) BY <2>2, RefreshIs
  <2>6. plock' \in {"none", "fresh", "stale"} /\ plock' # "none" BY <1>3
  <2>7. pindex' \in SUBSET PackEntries /\ \A e \in pindex' : Indexed(e) BY <1>1, RefreshIs
  <2>8. broken' = broken /\ broken' \in BOOLEAN /\ pfaults' \in Nat BY <1>1, RefreshIs
  <2>9. ~broken' => /\ ~broken
                    /\ k.held => plock' # "none" /\ \A q \in PackReplicas \ {r} : ~pk[q].held
                    /\ \A q \in PackReplicas \ {r} : pk[q].held => plock' # "none"
    BY <2>3, <2>6, <2>8
  <2>10. mirror' = mirror /\ dl' = dl /\ (k.held <=> k.pc \in {"hash", "unlock"}) BY <1>1, <2>2
  <2> QED BY <2>1, <2>2, <2>4, <2>5, <2>6, <2>7, <2>8, <2>9, <2>10, RefreshMoves
<1>4. CASE Stale(plock) /\ pk' = [pk EXCEPT ![r].pc = "unlink"] /\ UNCHANGED plock
  <2> DEFINE k == [pk[r] EXCEPT !.pc = "unlink"]
  <2>1. pk' = [pk EXCEPT ![r] = k] BY <1>2, <1>4
  <2>2. k \in Refreshes /\ k.known = pk[r].known /\ k.fresh = pk[r].fresh /\ k.layout = pk[r].layout
        /\ k.todo = pk[r].todo /\ k.held = pk[r].held /\ k.pc = "unlink"
    BY <1>2 DEF Refreshes
  <2> HIDE DEF k
  <2>3. \A e \in k.known \cup k.fresh \cup k.layout : Indexed(e) BY <2>2, RefreshIs
  <2>4. \A e \in k.todo : Stated(e) BY <2>2, RefreshIs
  <2>5. plock' = plock /\ plock' \in {"none", "fresh", "stale"} BY <1>4, RefreshIs
  <2>6. pindex' \in SUBSET PackEntries /\ \A e \in pindex' : Indexed(e) BY <1>1, RefreshIs
  <2>7. broken' = broken /\ broken' \in BOOLEAN /\ pfaults' \in Nat BY <1>1, RefreshIs
  <2>8. ~broken => \A q \in PackReplicas : pk[q].held => plock # "none" BY RefreshIs
  <2>9. ~broken' => /\ ~broken
                    /\ k.held => plock' # "none" /\ \A q \in PackReplicas \ {r} : ~pk[q].held
                    /\ \A q \in PackReplicas \ {r} : pk[q].held => plock' # "none"
    BY <1>2, <2>2, <2>5, <2>7, <2>8
  <2>10. mirror' = mirror /\ dl' = dl /\ (k.held <=> k.pc \in {"hash", "unlock"}) BY <1>1, <1>2, <2>2
  <2> QED BY <2>1, <2>2, <2>3, <2>4, <2>5, <2>6, <2>7, <2>9, <2>10, RefreshMoves
<1>5. CASE Done(r, IF pk[r].todo # {} THEN pk[r].layout ELSE pk[r].fresh) /\ UNCHANGED plock
  <2> DEFINE l == IF pk[r].todo # {} THEN pk[r].layout ELSE pk[r].fresh
  <2>1. l \in SUBSET PackEntries BY <1>2 DEF Refreshes
  <2>2. \A e \in l : Indexed(e) BY RefreshIs
  <2>3. Done(r, l) BY <1>5
  <2> HIDE DEF l
  <2> QED BY <1>1, <1>5, <2>1, <2>2, <2>3, RefreshIs, DoneKeeps
<1> QED BY <1>3, <1>4, <1>5 DEF TakeLock

\* A lock taken for dead is removed: if its holder was at work, that is on record.
LEMMA BreakKeeps == ASSUME PackInv, NEW r \in PackReplicas, BreakLock(r) PROVE PackInv'
<1> DEFINE k == [pk[r] EXCEPT !.pc = "create"]
<1>1. /\ pk[r].pc = "unlink" /\ plock' = "none" /\ UNCHANGED <<mirror, pindex, dl, pfaults>>
      /\ broken' = (broken \/ \E q \in PackReplicas \ {r} : pk[q].held)
  BY DEF BreakLock
<1>2. pk[r] \in Refreshes /\ pk \in [PackReplicas -> Refreshes] /\ ~pk[r].held
  BY <1>1, RefreshIs DEF PackInv, PackTypeOK
<1>3. pk' = [pk EXCEPT ![r] = k] BY <1>2 DEF BreakLock
<1>4. k \in Refreshes /\ k.known = pk[r].known /\ k.fresh = pk[r].fresh /\ k.layout = pk[r].layout
      /\ k.todo = pk[r].todo /\ k.held = pk[r].held /\ k.pc = "create"
  BY <1>2 DEF Refreshes
<1> HIDE DEF k
<1>5. broken' \in BOOLEAN BY <1>1, RefreshIs
<1>6. ~broken' => ~broken /\ \A q \in PackReplicas \ {r} : ~pk[q].held BY <1>1
<1> QED BY <1>1, <1>2, <1>3, <1>4, <1>5, <1>6, RefreshIs, RefreshMoves

\* A file is hashed: its entry is true of what the file holds now, or of an older stamp.
LEMMA HashKeeps == ASSUME PackInv, NEW r \in PackReplicas, HashPass(r) PROVE PackInv'
<1>1. pk[r].pc = "hash" /\ UNCHANGED <<mirror, pindex, plock, broken, dl, pfaults>> BY DEF HashPass
<1>2. PICK e \in pk[r].todo :
        pk' = [pk EXCEPT ![r] = [pk[r] EXCEPT
                 !.todo = @ \ {e},
                 !.fresh = IF ~mirror[e.name].there THEN @
                           ELSE @ \cup {[e EXCEPT !.crc = mirror[e.name].data, !.maps = TRUE]}]]
  BY DEF HashPass
<1> DEFINE g == [e EXCEPT !.crc = mirror[e.name].data, !.maps = TRUE]
           fresh == IF ~mirror[e.name].there THEN pk[r].fresh ELSE pk[r].fresh \cup {g}
           k == [pk[r] EXCEPT !.todo = pk[r].todo \ {e}, !.fresh = fresh]
<1>3. pk[r] \in Refreshes /\ pk \in [PackReplicas -> Refreshes] /\ mirror \in [Packs -> MirrorFiles]
  BY RefreshIs DEF PackInv, PackTypeOK
<1>4. e \in PackEntries /\ Stated(e) BY <1>3, RefreshIs DEF Refreshes
<1>5. e.name \in Packs /\ e.mtime \in Nat BY <1>4 DEF PackEntries
<1>6. mirror[e.name].mtime \in Nat /\ mirror[e.name].data \in Nat BY <1>3, <1>5 DEF MirrorFiles
<1>7. g \in PackEntries /\ g.name = e.name /\ g.mtime = e.mtime /\ g.crc = mirror[e.name].data
  BY <1>4, <1>6 DEF PackEntries
<1> HIDE DEF g
<1>8. mirror[e.name].there => Indexed(g) BY <1>4, <1>5, <1>6, <1>7 DEF Indexed, Stated
<1>9. fresh \in SUBSET PackEntries /\ \A x \in fresh : Indexed(x) BY <1>3, <1>7, <1>8, RefreshIs DEF Refreshes
<1>10. pk' = [pk EXCEPT ![r] = k] BY <1>2, Zenon DEF g
<1> HIDE DEF fresh
<1>11. k \in Refreshes /\ k.known = pk[r].known /\ k.fresh = fresh /\ k.layout = pk[r].layout
       /\ k.todo \subseteq pk[r].todo /\ k.held = pk[r].held /\ k.pc = "hash"
  BY <1>1, <1>3, <1>9 DEF Refreshes
<1> HIDE DEF k
<1>12. k.held /\ \A x \in k.known \cup k.fresh \cup k.layout : Indexed(x) BY <1>1, <1>9, <1>11, RefreshIs
<1>13. pk[r].held BY <1>11, <1>12
<1>14. ~broken => plock # "none" /\ \A q \in PackReplicas \ {r} : ~pk[q].held BY <1>13, RefreshIs
<1> QED BY <1>1, <1>10, <1>11, <1>12, <1>14, RefreshIs, RefreshMoves

\* The index is written under the lock.
LEMMA IndexKeeps == ASSUME PackInv, NEW r \in PackReplicas, WriteIndex(r) PROVE PackInv'
<1> DEFINE k == [pk[r] EXCEPT !.pc = "unlock"]
<1>1. /\ pk[r].pc = "hash" /\ UNCHANGED <<mirror, plock, broken, dl, pfaults>>
      /\ pindex' = pk[r].fresh \/ pindex' = pindex
  BY DEF WriteIndex
<1>2. pk[r] \in Refreshes /\ pk \in [PackReplicas -> Refreshes] /\ pk[r].held
  BY <1>1, RefreshIs DEF PackInv, PackTypeOK
<1>3. pk' = [pk EXCEPT ![r] = k] BY <1>2 DEF WriteIndex
<1>4. k \in Refreshes /\ k.known = pk[r].known /\ k.fresh = pk[r].fresh /\ k.layout = pk[r].layout
      /\ k.todo = pk[r].todo /\ k.held = pk[r].held /\ k.pc = "unlock"
  BY <1>2 DEF Refreshes
<1> HIDE DEF k
<1>5. pindex' \in SUBSET PackEntries /\ \A e \in pindex' : Indexed(e) BY <1>1, <1>2, RefreshIs DEF Refreshes
<1>6. ~broken => plock # "none" /\ \A q \in PackReplicas \ {r} : ~pk[q].held BY <1>2, RefreshIs
<1> QED BY <1>1, <1>2, <1>3, <1>4, <1>5, <1>6, RefreshIs, RefreshMoves

\* The ways a refresh ends.
LEMMA EndsKeep ==
  ASSUME PackInv, NEW r \in PackReplicas, NothingToHash(r) \/ Unlock(r) \/ WriteFails(r) \/ StatFails(r)
  PROVE  PackInv'
<1>1. pk[r] \in Refreshes BY RefreshIs
<1>2. pk[r].layout \in SUBSET PackEntries /\ pk[r].fresh \in SUBSET PackEntries BY <1>1 DEF Refreshes
<1>3. \A e \in pk[r].fresh \cup pk[r].layout : Indexed(e) BY RefreshIs
<1>4. pfaults' \in Nat BY RefreshIs DEF NothingToHash, Unlock, WriteFails, StatFails
<1>5. UNCHANGED <<mirror, pindex, broken, dl>> BY DEF NothingToHash, Unlock, WriteFails, StatFails
<1>6. PICK l \in {pk[r].layout, pk[r].fresh} : Done(r, l) BY DEF NothingToHash, Unlock, WriteFails, StatFails
<1>7. plock' = plock \/ (plock' = "none" /\ (~broken => \A q \in PackReplicas \ {r} : ~pk[q].held))
  <2>1. CASE NothingToHash(r) \/ StatFails(r) BY <2>1 DEF NothingToHash, StatFails
  <2>2. CASE Unlock(r) \/ WriteFails(r)
    <3>1. plock' = "none" /\ pk[r].pc \in {"hash", "unlock"} BY <2>2 DEF Unlock, WriteFails
    <3>2. pk[r].held BY <3>1, RefreshIs
    <3> QED BY <3>1, <3>2, RefreshIs
  <2> QED BY <2>1, <2>2
<1> QED BY <1>2, <1>3, <1>4, <1>5, <1>6, <1>7, DoneKeeps

\* What a download comes to.
LEMMA DownloadMoves ==
  ASSUME PackInv, UNCHANGED <<mirror, pindex, plock, broken, pk, pfaults>>, NEW c \in Downloaders,
         NEW d \in PackDls, dl' = [dl EXCEPT ![c] = d],
         \A e \in d.etag \cup d.left : Indexed(e),
         \A g \in d.got : g.data = g.entry.crc \/ g.mtime > g.entry.mtime,
         d.at # "none" /\ ~d.mixed => {g.entry : g \in d.got} \cup d.left = d.etag, d.at = "done" => d.left = {}
  PROVE  PackInv'
<1>1. dl' \in [Downloaders -> PackDls] /\ \A x \in Downloaders : dl'[x] = IF x = c THEN d ELSE dl[x]
  BY DEF PackInv, PackTypeOK
<1>2. \A e : (Indexed(e)' <=> Indexed(e)) /\ (Stated(e)' <=> Stated(e)) BY DEF Indexed, Stated
<1>3. PackTypeOK' BY <1>1 DEF PackInv, PackTypeOK
<1>4. LockInv' BY DEF PackInv, LockInv
<1>5. IndexInv' BY <1>2 DEF PackInv, IndexInv
<1>6. GotInv' BY <1>1, <1>2 DEF PackInv, GotInv
<1> QED BY <1>3, <1>4, <1>5, <1>6 DEF PackInv

\* One download, as the invariant has it.
LEMMA DownloadIs ==
  ASSUME PackInv, NEW c \in Downloaders
  PROVE  /\ dl \in [Downloaders -> PackDls] /\ dl[c] \in PackDls
         /\ \A e \in dl[c].etag \cup dl[c].left : Indexed(e)
         /\ \A g \in dl[c].got : g.data = g.entry.crc \/ g.mtime > g.entry.mtime
         /\ dl[c].at # "none" /\ ~dl[c].mixed => {g.entry : g \in dl[c].got} \cup dl[c].left = dl[c].etag
         /\ dl[c].at = "done" => dl[c].left = {}
         /\ dl[c].at \in PackReplicas => dl[c].at \notin {"none", "broken", "done"}
BY MapPackAssumption DEF PackInv, PackTypeOK, GotInv

\* A download begins, or goes on where it broke off if its layout is this one.
LEMMA HandleKeeps ==
  ASSUME PackInv, NEW c \in Downloaders, NEW r \in PackReplicas, Handle(c, r) PROVE PackInv'
<1>1. UNCHANGED <<mirror, pindex, plock, broken, pk, pfaults>> BY DEF Handle
<1>2. dl \in [Downloaders -> PackDls] /\ dl[c] \in PackDls BY DownloadIs
<1>3. pk[r].layout \in SUBSET PackEntries /\ \A e \in pk[r].layout : Indexed(e) BY RefreshIs DEF Refreshes
<1>4. r \notin {"none", "broken", "done"} BY MapPackAssumption
<1>5. CASE Resumes(dl[c], pk[r].layout)
  <2> DEFINE d == [dl[c] EXCEPT !.at = r, !.etag = pk[r].layout]
  <2>1. dl' = [dl EXCEPT ![c] = d] BY <1>2, <1>5 DEF Handle
  <2>2. d \in PackDls /\ d.at = r /\ d.etag = pk[r].layout /\ d.left = dl[c].left /\ d.got = dl[c].got
      /\ d.mixed = dl[c].mixed
    BY <1>2, <1>3 DEF PackDls
  <2>3. dl[c].at = "broken" /\ dl[c].etag = pk[r].layout BY <1>5 DEF Resumes
  <2> HIDE DEF d
  <2>4. \A e \in d.etag \cup d.left : Indexed(e) BY <1>3, <2>2, DownloadIs
  <2>5. ~d.mixed => {g.entry : g \in d.got} \cup d.left = d.etag BY <2>2, <2>3, DownloadIs
  <2>6. \A g \in d.got : g.data = g.entry.crc \/ g.mtime > g.entry.mtime BY <2>2, DownloadIs
  <2> QED BY <1>1, <1>4, <2>1, <2>2, <2>4, <2>5, <2>6, DownloadMoves
<1>6. CASE ~Resumes(dl[c], pk[r].layout)
  <2> DEFINE d == [dl[c] EXCEPT !.at = r, !.etag = pk[r].layout, !.left = pk[r].layout, !.got = {}, !.mixed = FALSE]
  <2>1. dl' = [dl EXCEPT ![c] = d] BY <1>2, <1>6 DEF Handle
  <2>2. d \in PackDls /\ d.at = r /\ d.etag = pk[r].layout /\ d.left = pk[r].layout /\ d.got = {}
    BY <1>2, <1>3 DEF PackDls
  <2> HIDE DEF d
  <2>3. {g.entry : g \in d.got} \cup d.left = d.etag BY <2>2
  <2> QED BY <1>1, <1>3, <1>4, <2>1, <2>2, <2>3, DownloadMoves
<1> QED BY <1>5, <1>6

\* ... or is stitched to another layout, and is marked for it.
LEMMA RangeKeeps ==
  ASSUME PackInv, NEW c \in Downloaders, NEW r \in PackReplicas, HandleRange(c, r) PROVE PackInv'
<1>1. UNCHANGED <<mirror, pindex, plock, broken, pk, pfaults>> BY DEF HandleRange
<1>2. dl \in [Downloaders -> PackDls] /\ dl[c] \in PackDls BY DownloadIs
<1>3. pk[r].layout \in SUBSET PackEntries /\ \A e \in pk[r].layout : Indexed(e) BY RefreshIs DEF Refreshes
<1>4. r \notin {"none", "broken", "done"} BY MapPackAssumption
<1>5. PICK rest \in SUBSET pk[r].layout :
        dl' = [dl EXCEPT ![c] = [dl[c] EXCEPT !.at = r, !.etag = pk[r].layout, !.left = rest, !.mixed = TRUE]]
  BY DEF HandleRange
<1> DEFINE d == [dl[c] EXCEPT !.at = r, !.etag = pk[r].layout, !.left = rest, !.mixed = TRUE]
<1>6. d \in PackDls /\ d.at = r /\ d.etag = pk[r].layout /\ d.left = rest /\ d.got = dl[c].got /\ d.mixed
  BY <1>2, <1>3 DEF PackDls
<1>7. dl' = [dl EXCEPT ![c] = d] BY <1>5
<1> HIDE DEF d
<1>8. \A e \in d.etag \cup d.left : Indexed(e) BY <1>3, <1>6
<1>9. \A g \in d.got : g.data = g.entry.crc \/ g.mtime > g.entry.mtime BY <1>6, DownloadIs
<1> QED BY <1>1, <1>4, <1>6, <1>7, <1>8, <1>9, DownloadMoves

\* One pack of it is read: what the checksum is of, or a file replaced since.
LEMMA ReadKeeps == ASSUME PackInv, NEW c \in Downloaders, ReadRange(c) PROVE PackInv'
<1>1. dl[c].at \in PackReplicas /\ UNCHANGED <<mirror, pindex, plock, broken, pk, pfaults>> BY DEF ReadRange
<1>2. dl \in [Downloaders -> PackDls] /\ dl[c] \in PackDls BY DownloadIs
<1>3. PICK e \in dl[c].left :
        dl' = [dl EXCEPT ![c] =
                 IF ~mirror[e.name].there \/ Bytes(mirror[e.name].data) < e.size
                 THEN [dl[c] EXCEPT !.at = "broken"]
                 ELSE [dl[c] EXCEPT !.left = @ \ {e},
                                !.got = @ \cup {[entry |-> e, data |-> mirror[e.name].data,
                                                 mtime |-> mirror[e.name].mtime]}]]
  BY DEF ReadRange
<1>4. e \in PackEntries /\ Indexed(e) BY <1>2, DownloadIs DEF PackDls
<1>5. CASE ~mirror[e.name].there \/ Bytes(mirror[e.name].data) < e.size
  <2> DEFINE d == [dl[c] EXCEPT !.at = "broken"]
  <2>1. dl' = [dl EXCEPT ![c] = d] BY <1>2, <1>3, <1>5
  <2>2. d \in PackDls /\ d.at = "broken" /\ d.etag = dl[c].etag /\ d.left = dl[c].left /\ d.got = dl[c].got
        /\ d.mixed = dl[c].mixed
    BY <1>2 DEF PackDls
  <2> HIDE DEF d
  <2> QED BY <1>1, <2>1, <2>2, DownloadIs, DownloadMoves
<1>6. CASE ~(~mirror[e.name].there \/ Bytes(mirror[e.name].data) < e.size)
  <2> DEFINE g == [entry |-> e, data |-> mirror[e.name].data, mtime |-> mirror[e.name].mtime]
             d == [dl[c] EXCEPT !.left = dl[c].left \ {e}, !.got = dl[c].got \cup {g}]
  <2>1. dl' = [dl EXCEPT ![c] = d] BY <1>3, <1>6, Zenon
  <2>2. mirror \in [Packs -> MirrorFiles] /\ e.name \in Packs
    BY <1>4 DEF PackEntries, PackInv, PackTypeOK
  <2>3. mirror[e.name].mtime \in Nat /\ mirror[e.name].data \in Nat BY <2>2 DEF MirrorFiles
  <2>4. g \in PackPieces /\ g.entry = e /\ (g.data = e.crc \/ g.mtime > e.mtime)
    <3>1. g \in PackPieces BY <1>4, <2>3 DEF PackPieces
    <3> QED BY <1>4, <1>6, <3>1 DEF Indexed
  <2> HIDE DEF g
  <2>5. d \in PackDls /\ d.at = dl[c].at /\ d.etag = dl[c].etag /\ d.left = dl[c].left \ {e} /\ d.got = dl[c].got \cup {g}
        /\ d.mixed = dl[c].mixed
    BY <1>2, <2>4 DEF PackDls
  <2> HIDE DEF d
  <2>6. \A x \in d.etag \cup d.left : Indexed(x) BY <2>5, DownloadIs
  <2>7. \A x \in d.got : x.data = x.entry.crc \/ x.mtime > x.entry.mtime BY <2>4, <2>5, DownloadIs
  <2>8. ~d.mixed => {x.entry : x \in d.got} \cup d.left = d.etag
    <3> SUFFICES ASSUME ~dl[c].mixed PROVE {x.entry : x \in d.got} \cup d.left = d.etag BY <2>5
    <3>1. {x.entry : x \in dl[c].got} \cup dl[c].left = dl[c].etag BY <1>1, DownloadIs
    <3>2. {x.entry : x \in d.got} = {x.entry : x \in dl[c].got} \cup {e} BY <2>4, <2>5
    <3> QED BY <2>5, <3>1, <3>2
  <2>9. d.at \notin {"none", "done"} BY <1>1, <2>5, DownloadIs
  <2> QED BY <1>1, <2>1, <2>5, <2>6, <2>7, <2>8, <2>9, DownloadMoves
<1> QED BY <1>5, <1>6

\* A connection drops, or the last byte is sent.
LEMMA DropKeeps == ASSUME PackInv, NEW c \in Downloaders, Drops(c) \/ Finishes(c) PROVE PackInv'
<1>1. dl[c].at \in PackReplicas /\ UNCHANGED <<mirror, pindex, plock, broken, pk, pfaults>> BY DEF Drops, Finishes
<1>2. dl \in [Downloaders -> PackDls] /\ dl[c] \in PackDls BY DownloadIs
<1>3. CASE Drops(c)
  <2> DEFINE d == [dl[c] EXCEPT !.at = "broken", !.breaks = dl[c].breaks + 1]
  <2>1. dl' = [dl EXCEPT ![c] = d] BY <1>3, Zenon DEF Drops
  <2>3. dl[c].breaks + 1 \in Nat BY <1>2 DEF PackDls
  <2>2. d \in PackDls /\ d.at = "broken" /\ d.etag = dl[c].etag /\ d.left = dl[c].left /\ d.got = dl[c].got
        /\ d.mixed = dl[c].mixed
    BY <1>2, <2>3 DEF PackDls
  <2> HIDE DEF d
  <2> QED BY <1>1, <2>1, <2>2, DownloadIs, DownloadMoves
<1>4. CASE Finishes(c)
  <2> DEFINE d == [dl[c] EXCEPT !.at = "done"]
  <2>1. dl' = [dl EXCEPT ![c] = d] /\ dl[c].left = {} BY <1>2, <1>4 DEF Finishes
  <2>2. d \in PackDls /\ d.at = "done" /\ d.etag = dl[c].etag /\ d.left = dl[c].left /\ d.got = dl[c].got
        /\ d.mixed = dl[c].mixed
    BY <1>2 DEF PackDls
  <2> HIDE DEF d
  <2> QED BY <1>1, <2>1, <2>2, DownloadIs, DownloadMoves
<1> QED BY <1>3, <1>4

\* A replica dies: its downloads break off, its lock stays.
LEMMA PackCrashKeeps == ASSUME PackInv, NEW r \in PackReplicas, PackCrash(r) PROVE PackInv'
<1> DEFINE k == [pc |-> "idle", left |-> {}, known |-> {}, fresh |-> {}, todo |-> {}, held |-> FALSE,
                 layout |-> NoLayout]
<1>1. /\ pk' = [pk EXCEPT ![r] = k] /\ UNCHANGED <<mirror, pindex, plock, broken>> /\ pfaults' = pfaults + 1
      /\ dl' = [c \in Downloaders |-> IF dl[c].at = r THEN [dl[c] EXCEPT !.at = "broken"] ELSE dl[c]]
  BY DEF PackCrash, Done
<1>2. k \in Refreshes /\ k.known = {} /\ k.fresh = {} /\ k.todo = {} /\ ~k.held /\ k.pc = "idle" /\ k.layout = {}
  BY DEF Refreshes, NoLayout
<1> HIDE DEF k
<1>3. pk \in [PackReplicas -> Refreshes] /\ dl \in [Downloaders -> PackDls] BY DEF PackInv, PackTypeOK
<1>4. pk' \in [PackReplicas -> Refreshes] /\ \A q \in PackReplicas : pk'[q] = IF q = r THEN k ELSE pk[q]
  BY <1>1, <1>2, <1>3
<1>5. \A e : (Indexed(e)' <=> Indexed(e)) /\ (Stated(e)' <=> Stated(e)) BY <1>1 DEF Indexed, Stated
<1>6. \A c \in Downloaders :
        /\ dl'[c] \in PackDls /\ dl'[c].etag = dl[c].etag /\ dl'[c].left = dl[c].left /\ dl'[c].got = dl[c].got
        /\ dl'[c].mixed = dl[c].mixed
        /\ dl'[c].at = dl[c].at \/ (dl'[c].at = "broken" /\ dl[c].at \in PackReplicas)
  <2> SUFFICES ASSUME NEW c \in Downloaders
               PROVE  /\ dl'[c] \in PackDls /\ dl'[c].etag = dl[c].etag /\ dl'[c].left = dl[c].left
                      /\ dl'[c].got = dl[c].got /\ dl'[c].mixed = dl[c].mixed
                      /\ dl'[c].at = dl[c].at \/ (dl'[c].at = "broken" /\ dl[c].at \in PackReplicas)
    OBVIOUS
  <2>1. dl[c] \in PackDls BY <1>3
  <2>2. dl'[c] = IF dl[c].at = r THEN [dl[c] EXCEPT !.at = "broken"] ELSE dl[c] BY <1>1
  <2>3. CASE dl[c].at = r BY <2>1, <2>2, <2>3 DEF PackDls
  <2>4. CASE dl[c].at # r BY <2>1, <2>2, <2>4
  <2> QED BY <2>3, <2>4
<1>7. PackTypeOK'
  <2>1. dl' \in [Downloaders -> PackDls] BY <1>1, <1>6
  <2> QED BY <1>1, <1>4, <2>1 DEF PackInv, PackTypeOK
<1>8. LockInv' BY <1>1, <1>2, <1>4 DEF PackInv, LockInv
<1>9. IndexInv' BY <1>1, <1>2, <1>4, <1>5 DEF PackInv, IndexInv
<1>10. GotInv'
  <2> SUFFICES ASSUME NEW c \in Downloaders
               PROVE  /\ \A e \in dl'[c].etag \cup dl'[c].left : Indexed(e)'
                      /\ \A g \in dl'[c].got : g.data = g.entry.crc \/ g.mtime > g.entry.mtime
                      /\ dl'[c].at # "none" /\ ~dl'[c].mixed => {g.entry : g \in dl'[c].got} \cup dl'[c].left = dl'[c].etag
                      /\ dl'[c].at = "done" => dl'[c].left = {}
    BY DEF GotInv
  <2> QED BY <1>5, <1>6, DownloadIs
<1> QED BY <1>7, <1>8, <1>9, <1>10 DEF PackInv

\* A file changes: what was indexed under its old stamp is older now, unless the file is
\* merely removed.
LEMMA MirrorKeeps == ASSUME PackInv, NEW p \in Packs, MirrorChanges(p) PROVE PackInv'
<1>1. UNCHANGED <<pindex, plock, broken, pk, dl, pfaults>> BY DEF MirrorChanges
<1>2. mirror \in [Packs -> MirrorFiles] BY DEF PackInv, PackTypeOK
<1>3. PICK f \in MirrorFiles :
        /\ mirror' = [mirror EXCEPT ![p] = f]
        /\ f.mtime > mirror[p].mtime \/ (f.mtime = mirror[p].mtime /\ f.data = mirror[p].data)
  <2>1. mirror[p] \in MirrorFiles /\ mirror[p].mtime \in Nat /\ mirror[p].data \in Nat BY <1>2 DEF MirrorFiles
  <2>2. CASE \E d \in {mirror[p].data, mirror[p].data + 1} :
               mirror' = [mirror EXCEPT ![p] = [there |-> TRUE, mtime |-> @.mtime + 1, data |-> d]]
    <3>1. PICK d \in {mirror[p].data, mirror[p].data + 1} :
            mirror' = [mirror EXCEPT ![p] = [there |-> TRUE, mtime |-> mirror[p].mtime + 1, data |-> d]]
      BY <1>2, <2>2
    <3> DEFINE f == [there |-> TRUE, mtime |-> mirror[p].mtime + 1, data |-> d]
    <3>2. f \in MirrorFiles /\ f.mtime > mirror[p].mtime BY <2>1 DEF MirrorFiles
    <3> QED BY <3>1, <3>2
  <2>3. CASE mirror' = [mirror EXCEPT ![p].there = FALSE]
    <3> DEFINE f == [mirror[p] EXCEPT !.there = FALSE]
    <3>1. mirror' = [mirror EXCEPT ![p] = f] BY <2>3, Zenon
    <3>2. f \in MirrorFiles /\ f.mtime = mirror[p].mtime /\ f.data = mirror[p].data BY <2>1 DEF MirrorFiles
    <3> QED BY <3>1, <3>2
  <2> QED BY <2>2, <2>3 DEF MirrorChanges
<1>4. mirror' \in [Packs -> MirrorFiles] /\ \A q \in Packs : mirror'[q] = IF q = p THEN f ELSE mirror[q]
  BY <1>2, <1>3
<1>5. ASSUME NEW e \in PackEntries PROVE (Indexed(e) => Indexed(e)') /\ (Stated(e) => Stated(e)')
  <2>1. e.name \in Packs /\ e.mtime \in Nat BY DEF PackEntries
  <2>2. mirror[e.name].mtime \in Nat /\ f.mtime \in Nat BY <1>2, <2>1 DEF MirrorFiles
  <2>3. CASE e.name # p BY <1>4, <2>1, <2>3 DEF Indexed, Stated
  <2>4. CASE e.name = p
    <3>1. mirror'[e.name] = f BY <1>4, <2>1, <2>4
    <3> QED BY <1>3, <2>1, <2>2, <2>4, <3>1 DEF Indexed, Stated
  <2> QED BY <2>3, <2>4
<1>6. PackTypeOK' BY <1>1, <1>4 DEF PackInv, PackTypeOK
<1>7. LockInv' BY <1>1 DEF PackInv, LockInv
<1>8. IndexInv'
  <2>1. \A r \in PackReplicas : pk[r] \in Refreshes BY DEF PackInv, PackTypeOK
  <2>2. \A e \in pindex : Indexed(e)' BY <1>5 DEF PackInv, PackTypeOK, IndexInv
  <2>3. ASSUME NEW r \in PackReplicas
        PROVE  /\ \A e \in pk[r].known \cup pk[r].fresh \cup pk[r].layout : Indexed(e)'
               /\ \A e \in pk[r].todo : Stated(e)'
    <3>1. /\ pk[r].known \subseteq PackEntries /\ pk[r].fresh \subseteq PackEntries
          /\ pk[r].layout \subseteq PackEntries /\ pk[r].todo \subseteq PackEntries
      BY <2>1 DEF Refreshes
    <3> QED BY <1>5, <3>1, RefreshIs
  <2> QED BY <1>1, <2>2, <2>3 DEF IndexInv
<1>9. GotInv'
  <2>1. ASSUME NEW c \in Downloaders PROVE \A e \in dl[c].etag \cup dl[c].left : Indexed(e)'
    <3>1. dl[c].etag \subseteq PackEntries /\ dl[c].left \subseteq PackEntries BY DownloadIs DEF PackDls
    <3> QED BY <1>5, <3>1, DownloadIs
  <2> QED BY <1>1, <2>1 DEF PackInv, GotInv
<1> QED BY <1>6, <1>7, <1>8, <1>9 DEF PackInv

\* The lock grows old, or nothing happens.
LEMMA AgesKeep == ASSUME PackInv, LockAges \/ UNCHANGED packVars PROVE PackInv'
<1>1. UNCHANGED <<mirror, pindex, broken, pk, dl, pfaults>> BY DEF LockAges, packVars
<1>2. plock' \in {"none", "fresh", "stale"} /\ (plock # "none" => plock' # "none")
  BY DEF LockAges, packVars, PackInv, PackTypeOK
<1>3. \A e : (Indexed(e)' <=> Indexed(e)) /\ (Stated(e)' <=> Stated(e)) BY <1>1 DEF Indexed, Stated
<1>4. PackTypeOK' BY <1>1, <1>2 DEF PackInv, PackTypeOK
<1>5. LockInv' BY <1>1, <1>2 DEF PackInv, LockInv
<1>6. IndexInv' /\ GotInv' BY <1>1, <1>3 DEF PackInv, IndexInv, GotInv
<1> QED BY <1>4, <1>5, <1>6 DEF PackInv

\* The mirror is as the index says at first, or there is no index.
LEMMA PackAtFirst == PackInit => PackInv
<1> SUFFICES ASSUME PackInit PROVE PackInv OBVIOUS
<1>1. mirror = [p \in Packs |-> [there |-> TRUE, mtime |-> 1, data |-> 1]] /\ plock = "none" /\ broken = FALSE /\ pfaults = 0
  BY DEF PackInit
<1> DEFINE k == [pc |-> "idle", left |-> {}, known |-> {}, fresh |-> {}, todo |-> {}, held |-> FALSE,
                 layout |-> NoLayout]
           e1(p) == [name |-> p, size |-> Bytes(1), mtime |-> 1, crc |-> 1, maps |-> FALSE]
<1>2. pk = [r \in PackReplicas |-> k] /\ dl = [c \in Downloaders |-> NoDownload] BY DEF PackInit
<1>3. k \in Refreshes /\ k.known = {} /\ k.fresh = {} /\ k.todo = {} /\ ~k.held /\ k.pc = "idle" /\ k.layout = {}
  BY DEF Refreshes, NoLayout
<1>4. NoDownload \in PackDls /\ NoDownload.at = "none" /\ NoDownload.etag = {} /\ NoDownload.left = {}
      /\ NoDownload.got = {}
  BY DEF NoDownload, PackDls, NoLayout
<1>5. \A p \in Packs : e1(p) \in PackEntries /\ e1(p).name = p /\ e1(p).mtime = 1 /\ e1(p).crc = 1
  BY DEF PackEntries, Bytes
<1>6. pindex \in {{}, {e1(p) : p \in Packs}} BY DEF PackInit
<1> HIDE DEF k, e1
<1>7. pindex \in SUBSET PackEntries BY <1>5, <1>6
<1>8. \A e \in pindex : Indexed(e)
  <2> SUFFICES ASSUME NEW e \in pindex PROVE Indexed(e) OBVIOUS
  <2>1. PICK p \in Packs : e = e1(p) BY <1>6
  <2>2. e.name = p /\ e.mtime = 1 /\ e.crc = 1 BY <1>5, <2>1
  <2>3. mirror[p].mtime = 1 /\ mirror[p].data = 1 BY <1>1
  <2> QED BY <2>2, <2>3 DEF Indexed
<1>9. \A r \in PackReplicas : pk[r] = k BY <1>2
<1>10. \A c \in Downloaders : dl[c] = NoDownload BY <1>2
<1>11. PackTypeOK
  <2>1. mirror \in [Packs -> MirrorFiles] BY <1>1 DEF MirrorFiles
  <2>2. broken \in BOOLEAN BY <1>1, Zenon
  <2>3. pk \in [PackReplicas -> Refreshes] /\ dl \in [Downloaders -> PackDls] BY <1>2, <1>3, <1>4
  <2> QED BY <1>1, <1>7, <2>1, <2>2, <2>3 DEF PackTypeOK
<1>12. LockInv BY <1>3, <1>9 DEF LockInv
<1>13. IndexInv BY <1>3, <1>8, <1>9 DEF IndexInv
<1>14. GotInv BY <1>4, <1>10 DEF GotInv
<1> QED BY <1>11, <1>12, <1>13, <1>14 DEF PackInv

\* Every step of the map pack keeps its invariant.
LEMMA PackKeeps == ASSUME PackInv, [PackNext]_packVars PROVE PackInv'
<1>1. ASSUME NEW r \in PackReplicas, PackRefresh(r) PROVE PackInv'
  BY <1>1, RefreshKeeps, StatKeeps, EndsKeep, TakeKeeps, BreakKeeps, HashKeeps, IndexKeeps DEF PackRefresh
<1>2. CASE PackFaults BY <1>2, EndsKeep, PackCrashKeeps, AgesKeep DEF PackFaults
<1>3. CASE PackDownloads BY <1>3, HandleKeeps, RangeKeeps, ReadKeeps, DropKeeps DEF PackDownloads
<1> QED BY <1>1, <1>2, <1>3, MirrorKeeps, AgesKeep DEF PackNext

\* One replica hashes the mirror at a time, unless a lock was taken from a holder
\* at work; a finished download is one archive, each pack of it what its checksum
\* is of or replaced since, from whichever replicas and over however many breaks - but
\* for a client that resumed another layout without If-Range.
LEMMA PackAlways == PackSpec => []PackSound
<1>1. PackInv => PackSound
  <2> SUFFICES ASSUME PackInv PROVE PackSound OBVIOUS
  <2>1. ASSUME ~broken PROVE Cardinality({r \in PackReplicas : pk[r].held}) <= 1
    <3> DEFINE H == {r \in PackReplicas : pk[r].held}
    <3>1. CASE H = {}
      <4>1. Cardinality({}) = 0 BY FS_EmptySet
      <4> QED BY <3>1, <4>1
    <3>2. CASE H # {}
      <4>1. PICK r \in H : TRUE BY <3>2
      <4>2. H = {r} BY <2>1, <4>1 DEF PackInv, LockInv
      <4>3. Cardinality({r}) = 1 BY FS_Singleton
      <4> QED BY <4>2, <4>3
    <3> QED BY <3>1, <3>2
  <2>2. ASSUME NEW c \in Downloaders, dl[c].at = "done"
        PROVE  /\ ~dl[c].mixed => {g.entry : g \in dl[c].got} = dl[c].etag
               /\ \A g \in dl[c].got : g.data = g.entry.crc \/ g.mtime > g.entry.mtime
    <3>1. (~dl[c].mixed => {g.entry : g \in dl[c].got} \cup dl[c].left = dl[c].etag) /\ dl[c].left = {}
      BY <2>2, DownloadIs
    <3> QED BY <3>1, DownloadIs
  <2> QED BY <2>1, <2>2 DEF PackSound, OneIndexer, ArchiveWhole
<1> QED BY <1>1, PackAtFirst, PackKeeps, PTL DEF PackSpec


-----------------------------------------------------------------------------
(* The collector.                                                          *)

\* What the invariant says of the log, the saved states and the tick.
LEMMA FeedIs ==
  ASSUME ColInv
  PROVE  /\ rlog \in [ino : Nat \ {0}, lines : Seq(Nat), part : BOOLEAN] /\ Len(rlog.lines) \in Nat
         /\ written \in Nat /\ cut \in BOOLEAN /\ tops \in [TopFiles -> Nat]
         /\ got \in SUBSET Nat /\ dropped \in SUBSET Nat
         /\ cst \in ColStates /\ cdisk \in ColStates /\ col \in ColTicks
         /\ SavedInv(cst) /\ SavedInv(cdisk) /\ ToPost
BY DEF ColInv, ColTypeOK

\* While the game is quiet a step that only adds to what the web has answered, that keeps or
\* saves a state whose offset was posted, and whose tick is in order keeps the invariant.
LEMMA TickStepKeeps ==
  ASSUME ColInv, UNCHANGED gameVars, NEW s \in ColStates, SavedInv(s), cst' = s, cdisk' \in {s, cdisk},
         got \subseteq got', got' \in SUBSET Nat, dropped \subseteq dropped', dropped' \in SUBSET Nat,
         col' \in ColTicks, ToPost'
  PROVE  ColInv'
<1>1. rlog' = rlog /\ written' = written /\ tops' = tops /\ cut' = cut BY DEF gameVars
<1>2. \A k : Reached(k) => Reached(k)' BY <1>1 DEF Reached
<1>3. ASSUME NEW x \in ColStates, SavedInv(x) PROVE SavedInv(x)'
  BY <1>1, <1>2, <1>3 DEF SavedInv
<1>4. cst' \in ColStates /\ SavedInv(cst)' BY <1>3 DEF SavedInv, Reached
<1>5. cdisk' \in ColStates /\ SavedInv(cdisk)'
  <2>1. CASE cdisk' = s BY <1>3, <2>1 DEF SavedInv, Reached
  <2>2. CASE cdisk' = cdisk
    <3>1. SavedInv(cdisk) /\ cdisk \in ColStates BY FeedIs
    <3> QED BY <1>1, <1>2, <2>2, <3>1 DEF SavedInv
  <2> QED BY <2>1, <2>2
<1>6. ColTypeOK' BY <1>1, <1>4, <1>5, FeedIs DEF ColTypeOK
<1> QED BY <1>4, <1>5, <1>6 DEF ColInv

\* The game finishes a line or begins one: what was reached stays reached.
LEMMA WriteKeeps == ASSUME ColInv, WriteLine PROVE ColInv'
<1>1. UNCHANGED <<cst, cdisk, got, dropped, col, tops, cut>> BY DEF WriteLine, webVars
<1>2. rlog \in [ino : Nat \ {0}, lines : Seq(Nat), part : BOOLEAN] /\ written \in Nat /\ Len(rlog.lines) \in Nat
  BY FeedIs
<1>3. /\ rlog' \in [ino : Nat \ {0}, lines : Seq(Nat), part : BOOLEAN] /\ written' \in Nat /\ rlog'.ino = rlog.ino
      /\ Len(rlog'.lines) >= Len(rlog.lines) /\ \A k \in 1..Len(rlog.lines) : rlog'.lines[k] = rlog.lines[k]
  <2>1. CASE rlog.part
    <3> DEFINE l == Append(rlog.lines, written)
    <3>1. rlog' = [rlog EXCEPT !.part = FALSE, !.lines = l] /\ written' = written BY <2>1 DEF WriteLine
    <3>2. l \in Seq(Nat) /\ Len(l) = Len(rlog.lines) + 1 /\ \A k \in 1..Len(rlog.lines) : l[k] = rlog.lines[k]
      BY <1>2
    <3> HIDE DEF l
    <3>3. rlog' \in [ino : Nat \ {0}, lines : Seq(Nat), part : BOOLEAN] /\ rlog'.lines = l /\ rlog'.ino = rlog.ino
      BY <1>2, <3>1, <3>2
    <3> QED BY <1>2, <3>1, <3>2, <3>3
  <2>2. CASE ~rlog.part
    <3>1. rlog' = [rlog EXCEPT !.part = TRUE] /\ written' = written + 1 BY <2>2 DEF WriteLine
    <3>2. rlog' \in [ino : Nat \ {0}, lines : Seq(Nat), part : BOOLEAN] /\ rlog'.lines = rlog.lines
          /\ rlog'.ino = rlog.ino
      BY <1>2, <3>1
    <3> QED BY <1>2, <3>1, <3>2
  <2> QED BY <2>1, <2>2
<1>4. Len(rlog'.lines) \in Nat BY <1>3
<1>5. \A k \in 1..Len(rlog.lines) : Reached(k) => Reached(k)' BY <1>1, <1>3 DEF Reached
<1>6. ASSUME NEW x \in ColStates, SavedInv(x)
      PROVE  /\ x.ino <= rlog'.ino /\ (x.ino = 0 => x.off = 0)
             /\ ~cut' /\ x.ino = rlog'.ino => x.off <= Len(rlog'.lines) /\ \A k \in 1..x.off : Reached(k)'
  <2>1. x.off \in Nat /\ x.ino \in Nat BY DEF ColStates
  <2> QED BY <1>1, <1>2, <1>3, <1>4, <1>5, <1>6, <2>1 DEF SavedInv
<1>7. SavedInv(cst)' /\ SavedInv(cdisk)' BY <1>1, <1>6, FeedIs DEF SavedInv
<1>8. ToPost'
  <2>1. col.upto \in Nat BY FeedIs DEF ColTicks
  <2>2. ToPost BY FeedIs
  <2>3. col.pc' \in {"open", "post"} => cst'.ino # 0 BY <1>1, <2>2 DEF ToPost
  <2>4. ASSUME col.pc = "post", ~cut, cst.ino = rlog.ino
        PROVE  /\ col.upto <= Len(rlog'.lines)
               /\ \A k \in 1..col.upto : Reached(k)' \/ rlog'.lines[k] \in col.todo
    <3>1. col.upto <= Len(rlog.lines) /\ \A k \in 1..col.upto : Reached(k) \/ rlog.lines[k] \in col.todo
      BY <2>2, <2>4 DEF ToPost
    <3>2. ASSUME NEW k \in 1..col.upto PROVE Reached(k)' \/ rlog'.lines[k] \in col.todo
      <4>1. k \in 1..Len(rlog.lines) BY <1>2, <2>1, <3>1
      <4>2. rlog'.lines[k] = rlog.lines[k] BY <1>3, <4>1
      <4> QED BY <1>5, <3>1, <4>1, <4>2
    <3>3. col.upto <= Len(rlog'.lines) BY <1>2, <1>3, <1>4, <2>1, <3>1
    <3> QED BY <3>2, <3>3
  <2> QED BY <1>1, <1>3, <2>3, <2>4 DEF ToPost
<1>9. ColTypeOK' BY <1>1, <1>3, FeedIs DEF ColTypeOK
<1> QED BY <1>7, <1>8, <1>9 DEF ColInv

\* A rotated log has an inode of its own; a truncated one is on record.
LEMMA RotateKeeps == ASSUME ColInv, Rotate PROVE ColInv'
<1>1. UNCHANGED <<written, cst, cdisk, got, dropped, col, tops>> BY DEF Rotate, webVars
<1>2. rlog \in [ino : Nat \ {0}, lines : Seq(Nat), part : BOOLEAN] BY FeedIs
<1>3. PICK truncated \in BOOLEAN :
        /\ rlog' = [rlog EXCEPT !.lines = <<>>, !.ino = IF truncated THEN rlog.ino ELSE rlog.ino + 1]
        /\ cut' = (cut \/ truncated)
  BY DEF Rotate
<1> DEFINE i == IF truncated THEN rlog.ino ELSE rlog.ino + 1
<1>4. i \in Nat \ {0} /\ i >= rlog.ino /\ (~truncated => i > rlog.ino) BY <1>2
<1>5. rlog' = [rlog EXCEPT !.lines = <<>>, !.ino = i] BY <1>3
<1> HIDE DEF i
<1>6. <<>> \in Seq(Nat) OBVIOUS
<1>7. rlog' \in [ino : Nat \ {0}, lines : Seq(Nat), part : BOOLEAN] /\ rlog'.ino = i BY <1>2, <1>4, <1>5, <1>6
<1>8. cut' \in BOOLEAN BY <1>3
<1>9. ~cut' => i > rlog.ino BY <1>3, <1>4
<1>10. ASSUME NEW x \in ColStates, SavedInv(x)
       PROVE  x.ino <= rlog'.ino /\ (x.ino = 0 => x.off = 0) /\ (~cut' => x.ino # rlog'.ino)
  <2>1. x.ino \in Nat /\ rlog.ino \in Nat BY <1>2 DEF ColStates
  <2> QED BY <1>4, <1>7, <1>9, <1>10, <2>1 DEF SavedInv
<1>11. SavedInv(cst)' /\ SavedInv(cdisk)' BY <1>1, <1>10, FeedIs DEF SavedInv
<1>12. ToPost'
  <2>1. ~cut' => cst.ino # rlog'.ino BY <1>10, FeedIs
  <2> QED BY <1>1, <2>1, FeedIs DEF ToPost
<1>13. ColTypeOK' BY <1>1, <1>7, <1>8, FeedIs DEF ColTypeOK
<1> QED BY <1>11, <1>12, <1>13 DEF ColInv

\* A rewritten top-score file, or nothing at all.
LEMMA TopsKeep ==
  ASSUME ColInv, (\E f \in TopFiles : RewriteTop(f)) \/ UNCHANGED colVars PROVE ColInv'
<1>1. UNCHANGED <<rlog, written, cst, cdisk, got, dropped, col, cut>>
  BY DEF RewriteTop, colVars, gameVars, webVars
<1>2. tops' \in [TopFiles -> Nat]
  <2>1. tops \in [TopFiles -> Nat] BY FeedIs
  <2> QED BY <2>1 DEF RewriteTop, colVars, gameVars
<1>3. SavedInv(cst)' /\ SavedInv(cdisk)' /\ ToPost' BY <1>1, FeedIs DEF SavedInv, ToPost, Reached
<1>4. ColTypeOK' BY <1>1, <1>2, FeedIs DEF ColTypeOK
<1> QED BY <1>3, <1>4 DEF ColInv

\* The tick that looks at the log: an offset of another file, or past this one's end, is
\* zero, and one of this file was posted.
LEMMA LogStatKeeps == ASSUME ColInv, StatRacelog PROVE ColInv'
<1> DEFINE off == ResetOffset(cst)
           upto == IF Len(rlog.lines) > off + ReadCap THEN off + ReadCap ELSE Len(rlog.lines)
           s == [cst EXCEPT !.off = off, !.ino = rlog.ino]
<1>1. /\ cst' = s /\ cdisk' \in {s, cdisk} /\ UNCHANGED <<gameVars, got, dropped>>
      /\ col' = [AtRest EXCEPT !.pc = "scan"] \/ col' = [AtRest EXCEPT !.pc = "open", !.upto = upto]
  BY DEF StatRacelog, SaveState, webVars
<1>2. /\ rlog \in [ino : Nat \ {0}, lines : Seq(Nat), part : BOOLEAN] /\ Len(rlog.lines) \in Nat
      /\ cst \in ColStates /\ SavedInv(cst) /\ got \in SUBSET Nat /\ dropped \in SUBSET Nat
  BY FeedIs
<1>3. /\ off \in Nat /\ off <= Len(rlog.lines)
      /\ ~cut => \A k \in 1..off : Reached(k)
  <2>1. cst.off \in Nat /\ cst.ino \in Nat BY <1>2 DEF ColStates
  <2>2. CASE off = 0 BY <1>2, <2>2
  <2>3. CASE off # 0
    <3>1. off = cst.off /\ (cst.ino = 0 \/ cst.ino = rlog.ino) /\ ~(Len(rlog.lines) < cst.off)
      BY <2>3 DEF ResetOffset
    <3>2. cst.ino = rlog.ino BY <1>2, <2>3, <3>1 DEF SavedInv
    <3> HIDE DEF off
    <3> QED BY <1>2, <2>1, <3>1, <3>2 DEF SavedInv
  <2> QED BY <2>2, <2>3
<1> HIDE DEF off
<1>4. upto \in Nat BY <1>2, <1>3, FeedAssumption
<1> HIDE DEF upto
<1>5. s \in ColStates /\ s.off = off /\ s.ino = rlog.ino BY <1>2, <1>3 DEF ColStates
<1> HIDE DEF s
<1>6. s.ino # 0 /\ SavedInv(s)
  <2>1. s.ino # 0 /\ s.ino <= rlog.ino BY <1>2, <1>5
  <2> QED BY <1>3, <1>5, <2>1 DEF SavedInv
<1>7. col' \in ColTicks /\ col'.pc # "post"
  <2>1. CASE col' = [AtRest EXCEPT !.pc = "scan"] BY <2>1 DEF AtRest, ColTicks
  <2>2. CASE col' = [AtRest EXCEPT !.pc = "open", !.upto = upto]
    <3>1. col' = [pc |-> "open", todo |-> {}, upto |-> upto, files |-> {}, cur |-> {}, mtime |-> 0, content |-> 0]
      BY <2>2 DEF AtRest
    <3> QED BY <1>4, <3>1 DEF ColTicks
  <2> QED BY <1>1, <2>1, <2>2
<1>8. ToPost' BY <1>1, <1>6, <1>7 DEF ToPost
<1> QED BY <1>1, <1>2, <1>5, <1>6, <1>7, <1>8, TickStepKeeps

\* The tick that reads: every line between the offset and the end read is to be posted.
LEMMA LogOpenKeeps == ASSUME ColInv, OpenRacelog PROVE ColInv'
<1> DEFINE upto == IF Len(rlog.lines) < col.upto THEN Len(rlog.lines) ELSE col.upto
           todo == {rlog.lines[k] : k \in (cst.off + 1)..upto}
<1>1. /\ col.pc = "open" /\ UNCHANGED <<gameVars, cst, cdisk, got, dropped>>
      /\ \/ col' = [AtRest EXCEPT !.pc = "scan"]
         \/ ~(upto <= cst.off) /\ col' = [AtRest EXCEPT !.pc = "post", !.upto = upto, !.todo = todo]
  BY DEF OpenRacelog, webVars
<1>2. /\ rlog \in [ino : Nat \ {0}, lines : Seq(Nat), part : BOOLEAN] /\ Len(rlog.lines) \in Nat
      /\ cst \in ColStates /\ SavedInv(cst) /\ got \in SUBSET Nat /\ dropped \in SUBSET Nat
      /\ col \in ColTicks /\ ToPost
  BY FeedIs
<1>3. cst.off \in Nat /\ col.upto \in Nat /\ cst.ino # 0 BY <1>1, <1>2 DEF ColStates, ColTicks, ToPost
<1>4. upto \in Nat /\ upto <= Len(rlog.lines) BY <1>2, <1>3
<1> HIDE DEF upto
<1>5. todo \in SUBSET Nat
  <2>1. \A k \in (cst.off + 1)..upto : k \in 1..Len(rlog.lines) BY <1>2, <1>3, <1>4
  <2>2. \A k \in 1..Len(rlog.lines) : rlog.lines[k] \in Nat BY <1>2
  <2> QED BY <2>1, <2>2
<1>6. \A k \in (cst.off + 1)..upto : rlog.lines[k] \in todo OBVIOUS
<1> HIDE DEF todo
<1>7. CASE col' = [AtRest EXCEPT !.pc = "scan"]
  <2>1. col' \in ColTicks /\ col'.pc = "scan" BY <1>7 DEF AtRest, ColTicks
  <2>2. ToPost' BY <2>1 DEF ToPost
  <2> QED BY <1>1, <1>2, <2>1, <2>2, TickStepKeeps
<1>8. CASE col' = [AtRest EXCEPT !.pc = "post", !.upto = upto, !.todo = todo]
  <2>1. col' \in ColTicks /\ col'.pc = "post" /\ col'.upto = upto /\ col'.todo = todo
    BY <1>4, <1>5, <1>8 DEF AtRest, ColTicks
  <2>2. rlog' = rlog /\ cut' = cut /\ got' = got /\ dropped' = dropped /\ cst' = cst BY <1>1 DEF gameVars
  <2>3. ASSUME ~cut, cst.ino = rlog.ino, NEW k \in 1..upto PROVE Reached(k)' \/ rlog.lines[k] \in todo
    <3>1. CASE k \in 1..cst.off
      <4>1. Reached(k) BY <1>2, <2>3, <3>1 DEF SavedInv
      <4> QED BY <2>2, <4>1 DEF Reached
    <3>2. CASE k \notin 1..cst.off
      <4>1. k \in (cst.off + 1)..upto BY <1>3, <1>4, <3>2
      <4> QED BY <1>6, <4>1
    <3> QED BY <3>1, <3>2
  <2>4. ToPost' BY <1>3, <1>4, <2>1, <2>2, <2>3 DEF ToPost
  <2> QED BY <1>1, <1>2, <2>1, <2>4, TickStepKeeps
<1> QED BY <1>1, <1>7, <1>8

\* A chunk is posted: it is stored or refused for good.
LEMMA PostKeeps == ASSUME ColInv, PostRecords PROVE ColInv'
<1>1. UNCHANGED <<gameVars, cst, cdisk>> /\ col.pc = "post" BY DEF PostRecords
<1>2. PICK c \in Chunks :
        /\ (got' = got \cup c /\ dropped' = dropped) \/ (dropped' = dropped \cup c /\ got' = got)
        /\ col' = [col EXCEPT !.todo = col.todo \ c]
  BY DEF PostRecords
<1>3. /\ col \in ColTicks /\ got \in SUBSET Nat /\ dropped \in SUBSET Nat
      /\ cst \in ColStates /\ SavedInv(cst) /\ ToPost
  BY FeedIs
<1>4. c \in SUBSET Nat BY <1>3 DEF Chunks, ColTicks
<1>5. /\ got \subseteq got' /\ got' \in SUBSET Nat /\ dropped \subseteq dropped' /\ dropped' \in SUBSET Nat
      /\ c \subseteq got' \cup dropped'
  BY <1>2, <1>3, <1>4
<1>6. col' \in ColTicks /\ col'.upto = col.upto /\ col'.todo = col.todo \ c BY <1>2, <1>3 DEF ColTicks
<1>7. ToPost' BY <1>1, <1>3, <1>5, <1>6 DEF ToPost, Reached, gameVars
<1> QED BY <1>1, <1>3, <1>5, <1>6, <1>7, TickStepKeeps

\* Everything read is posted: the offset may move there.
LEMMA AdvanceKeeps == ASSUME ColInv, AdvanceOffset PROVE ColInv'
<1> DEFINE s == [cst EXCEPT !.off = col.upto]
<1>1. /\ col.pc = "post" /\ col.todo = {} /\ UNCHANGED <<gameVars, got, dropped>>
      /\ cst' = s /\ cdisk' \in {s, cdisk} /\ col' = [AtRest EXCEPT !.pc = "scan"]
  BY DEF AdvanceOffset, MayAdvance, SaveState, webVars
<1>2. /\ col \in ColTicks /\ cst \in ColStates /\ SavedInv(cst) /\ ToPost
      /\ got \in SUBSET Nat /\ dropped \in SUBSET Nat
  BY FeedIs
<1>3. s \in ColStates /\ s.off = col.upto /\ s.ino = cst.ino BY <1>2 DEF ColStates, ColTicks
<1> HIDE DEF s
<1>4. SavedInv(s) BY <1>1, <1>2, <1>3 DEF SavedInv, ToPost
<1>5. col' \in ColTicks /\ col'.pc = "scan" BY <1>1 DEF AtRest, ColTicks
<1>6. ToPost' BY <1>5 DEF ToPost
<1> QED BY <1>1, <1>2, <1>3, <1>4, <1>5, <1>6, TickStepKeeps

\* The rest of a tick, and a failed post: the offset stays, nothing is to be posted.
LEMMA ScanKeeps ==
  ASSUME ColInv, NoScan \/ ScanTopscores \/ StatTop \/ ReadTop \/ TopFails \/ PostRecordsFail PROVE ColInv'
<1>1. /\ col \in ColTicks /\ cst \in ColStates /\ SavedInv(cst) /\ got \in SUBSET Nat
      /\ dropped \in SUBSET Nat /\ tops \in [TopFiles -> Nat]
  BY FeedIs
<1>2. UNCHANGED <<gameVars, cst, cdisk, dropped>>
  BY DEF webVars, NoScan, ScanTopscores, StatTop, ReadTop, TopFails, PostRecordsFail
<1>3. got \subseteq got' /\ got' \in SUBSET Nat
  <2>1. CASE got' = got BY <1>1, <2>1
  <2>2. CASE PostRecordsFail
    <3>1. PICK c \in Chunks : got' \in {got, got \cup c} BY <2>2 DEF PostRecordsFail
    <3>2. c \in SUBSET Nat BY <1>1 DEF Chunks, ColTicks
    <3> QED BY <1>1, <3>1, <3>2
  <2> QED BY <2>1, <2>2 DEF NoScan, ScanTopscores, StatTop, ReadTop, TopFails, webVars
<1>4. AtRest \in ColTicks /\ AtRest.pc = "wait" BY DEF AtRest, ColTicks
<1>5. col' \in ColTicks /\ col'.pc \notin {"open", "post"}
  <2>1. CASE NoScan BY <1>4, <2>1 DEF NoScan
  <2>2. CASE ScanTopscores
    <3>1. Changed \in SUBSET TopFiles BY DEF Changed
    <3> QED BY <2>2, <3>1 DEF ScanTopscores, AtRest, ColTicks
  <2>3. CASE StatTop
    <3>1. PICK f \in col.files :
            col' = [col EXCEPT !.pc = "read", !.files = col.files \ {f}, !.cur = {f}, !.mtime = tops[f]]
      BY <2>3 DEF StatTop
    <3>2. f \in TopFiles BY <1>1 DEF ColTicks
    <3>3. tops[f] \in Nat BY <1>1, <3>2
    <3> QED BY <1>1, <3>1, <3>2, <3>3 DEF ColTicks
  <2>4. CASE ReadTop
    <3>1. PICK f \in col.cur : col' = [col EXCEPT !.pc = "send", !.content = tops[f]] BY <2>4 DEF ReadTop
    <3>2. f \in TopFiles BY <1>1 DEF ColTicks
    <3>3. tops[f] \in Nat BY <1>1, <3>2
    <3> QED BY <1>1, <3>1, <3>3 DEF ColTicks
  <2>5. CASE TopFails
    <3>1. col' = NextFile BY <2>5 DEF TopFails
    <3>2. col.files \in SUBSET TopFiles BY <1>1 DEF ColTicks
    <3> QED BY <1>4, <3>1, <3>2 DEF NextFile, AtRest, ColTicks
  <2>6. CASE PostRecordsFail BY <2>6 DEF PostRecordsFail, AtRest, ColTicks
  <2> QED BY <2>1, <2>2, <2>3, <2>4, <2>5, <2>6
<1>6. ToPost' BY <1>5 DEF ToPost
<1> QED BY <1>1, <1>2, <1>3, <1>5, <1>6, TickStepKeeps

\* A file posted is remembered under the stamp taken before it was read.
LEMMA TopKeeps == ASSUME ColInv, PostTop PROVE ColInv'
<1>1. PICK f \in col.cur : SaveState([cst EXCEPT !.tops[f] = TopStamp(f)]) BY DEF PostTop
<1> DEFINE s == [cst EXCEPT !.tops[f] = col.mtime]
<1>2. cst' = s /\ cdisk' \in {s, cdisk} BY <1>1 DEF SaveState, TopStamp
<1>3. UNCHANGED <<gameVars, got, dropped>> /\ col' = NextFile BY DEF PostTop
<1>4. /\ col \in ColTicks /\ cst \in ColStates /\ SavedInv(cst) /\ got \in SUBSET Nat
      /\ dropped \in SUBSET Nat
  BY FeedIs
<1>5. s \in ColStates /\ s.off = cst.off /\ s.ino = cst.ino BY <1>4 DEF ColStates, ColTicks
<1> HIDE DEF s
<1>6. SavedInv(s) BY <1>4, <1>5 DEF SavedInv
<1>7. col' \in ColTicks /\ col'.pc \notin {"open", "post"}
  <2>1. col.files \in SUBSET TopFiles BY <1>4 DEF ColTicks
  <2> QED BY <1>3, <2>1 DEF NextFile, AtRest, ColTicks
<1>8. ToPost' BY <1>7 DEF ToPost
<1> QED BY <1>2, <1>3, <1>4, <1>5, <1>6, <1>7, <1>8, TickStepKeeps

\* A collector that dies goes on from its state file.
LEMMA DeathKeeps == ASSUME ColInv, CollectorDies PROVE ColInv'
<1>1. cst' = cdisk /\ col' = AtRest /\ UNCHANGED <<gameVars, cdisk, got, dropped>>
  BY DEF CollectorDies, webVars
<1>2. cdisk \in ColStates /\ SavedInv(cdisk) /\ got \in SUBSET Nat /\ dropped \in SUBSET Nat BY FeedIs
<1>3. AtRest \in ColTicks /\ AtRest.pc = "wait" BY DEF AtRest, ColTicks
<1>4. ToPost' BY <1>1, <1>3 DEF ToPost
<1> QED BY <1>1, <1>2, <1>3, <1>4, TickStepKeeps

\* At the start nothing is written or read.
LEMMA ColAtFirst == ColInit => ColInv
<1> SUFFICES ASSUME ColInit PROVE ColInv OBVIOUS
<1>1. NewState \in ColStates /\ NewState.off = 0 /\ NewState.ino = 0 BY DEF NewState, ColStates
<1>2. AtRest \in ColTicks /\ AtRest.pc = "wait" BY DEF AtRest, ColTicks
<1>3. /\ rlog = [ino |-> 1, lines |-> <<>>, part |-> FALSE] /\ written = 0 /\ cst = NewState /\ cdisk = NewState
      /\ got = {} /\ dropped = {} /\ col = AtRest /\ tops = [f \in TopFiles |-> 0] /\ cut = FALSE
  BY DEF ColInit
<1>4. <<>> \in Seq(Nat) OBVIOUS
<1>5. rlog \in [ino : Nat \ {0}, lines : Seq(Nat), part : BOOLEAN] /\ rlog.ino = 1 BY <1>3, <1>4
<1>6. cut \in BOOLEAN BY <1>3, Zenon
<1>7. ColTypeOK BY <1>1, <1>2, <1>3, <1>5, <1>6 DEF ColTypeOK
<1>8. SavedInv(NewState) BY <1>1, <1>5 DEF SavedInv
<1> QED BY <1>2, <1>3, <1>7, <1>8 DEF ColInv, ToPost

\* Every step of the collector and its log keeps its invariant.
LEMMA ColKeeps == ASSUME ColInv, [ColNext]_colVars PROVE ColInv'
BY WriteKeeps, RotateKeeps, TopsKeep, LogStatKeeps, LogOpenKeeps, PostKeeps, AdvanceKeeps, ScanKeeps, TopKeeps, DeathKeeps
DEF ColNext, ColStep

\* The saved offset, in memory and on disk, never passes a line of the present log that
\* the web has neither stored nor refused.
LEMMA OffsetAlways == ColSpec => []OffsetPosted
<1>1. ColInv => OffsetPosted
  <2> SUFFICES ASSUME ColInv, NEW s \in {cst, cdisk}, ~cut, s.ino = rlog.ino, NEW k \in 1..s.off
               PROVE  rlog.lines[k] \in got \cup dropped
    BY DEF OffsetPosted
  <2>1. SavedInv(s) BY FeedIs
  <2> QED BY <2>1 DEF SavedInv, Reached
<1> QED BY <1>1, ColAtFirst, ColKeeps, PTL DEF ColSpec

-----------------------------------------------------------------------------
(* The parts together.                                                     *)

\* Whichever part is at work, each takes its own steps or rests.
LEMMA PollersHaveParts == PollersSpec => OpsSpec /\ PackSpec /\ ColSpec /\ ModSpec /\ Spec
<1>1. PollersInit => OpsInit /\ PackInit /\ ColInit /\ ModInit /\ Init BY DEF PollersInit
<1>2. ASSUME [PollersNext]_pollersVars
      PROVE  /\ [OpsNext]_opsVars /\ [PackNext]_packVars /\ [ColNext]_colVars /\ [ModNext]_modVars
             /\ [Next]_vars
  <2>1. CASE UNCHANGED pollersVars BY <2>1 DEF pollersVars
  <2>2. CASE OperatorNext /\ UNCHANGED <<packVars, colVars, pollVars, modVars, vars>>
    BY <2>2 DEF OperatorNext, OpsNext
  <2>3. CASE MapPackNext /\ UNCHANGED <<opsVars, colVars, pollVars, modVars, vars>>
    BY <2>3 DEF MapPackNext, PackNext
  <2>4. CASE FeedsNext /\ UNCHANGED <<opsVars, packVars, vars>> BY <2>4 DEF FeedsNext, ModNext, modVars
  <2>5. CASE Next /\ UNCHANGED <<opsVars, packVars, colVars, pollVars, modVars>> BY <2>5
  <2> QED BY <1>2, <2>1, <2>2, <2>3, <2>4, <2>5 DEF PollersNext
<1> QED BY <1>1, <1>2, PTL DEF PollersSpec, OpsSpec, PackSpec, ColSpec, ModSpec, Spec

\* Every request to restart ends in one place; repeated notices are an interval
\* apart and what a lone toggle leaves is whole; a report under its rate is never
\* refused and a window lets no more than twice the rate through.  For any number
\* of replicas and tokens, and any rates and intervals.
THEOREM OperatorsSideIsSound == PollersSpec => []OpsSound
BY OpsAlways, PollersHaveParts, PTL

\* No pruning of the operator log takes its newest rows, however the replicas'
\* inserts and prunings cross.
THEOREM NewestRowsStay == PollersSpec => NewestKept
BY NewestAlways, PollersHaveParts, PTL

\* The collector's offset passes no line the web has not answered, through crashes,
\* failed posts, lost answers and failed saves; the replica that took an edit of
\* the name filter applies it; one replica hashes the mirror at a time, and a
\* finished download is one archive from whichever replicas and over however many
\* breaks, ranges asked for without If-Range excepted.  For any number of replicas, lines, packs, clients and faults.
THEOREM FilesAreSound == PollersSpec => []FilesSound
<1>1. OffsetPosted /\ EditApplied /\ PackSound => FilesSound BY DEF FilesSound
<1> QED BY <1>1, OffsetAlways, EditsApplied, PackAlways, PollersHaveParts, PTL

=============================================================================
