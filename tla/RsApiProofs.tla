---------------------------- MODULE RsApiProofs ----------------------------
(***************************************************************************)
(* What RsApi promises for every number of reports, slots and boots, and   *)
(* every value of QUEUE_MAX, SPOOL_LOAD_MAX and MAX_ATTEMPTS.              *)
(***************************************************************************)
EXTENDS RsApi, TLAPS, SequenceTheorems, WellFoundedInduction

----------------------------------------------------------------------------
(* The sequence operations the queue and the spool are built from.         *)

\* Erasing an element of a deque leaves a deque one shorter, with the other
\* elements in their order.
LEMMA RemoveAtProperties ==
    ASSUME NEW S, NEW q \in Seq(S), NEW i \in DOMAIN q
    PROVE  /\ RemoveAt(q, i) \in Seq(S)
           /\ Len(RemoveAt(q, i)) = Len(q) - 1
           /\ \A k \in 1..(Len(q) - 1) :
                  RemoveAt(q, i)[k] = IF k < i THEN q[k] ELSE q[k+1]
<1> DEFINE a == SubSeq(q, 1, i-1)
           b == SubSeq(q, i+1, Len(q))
<1>1. i \in 1..Len(q) /\ Len(q) \in Nat
  BY LenProperties
<1>2. \A k \in 1..Len(q) : q[k] \in S
  BY ElementOfSeq
<1>3. /\ a \in Seq(S) /\ Len(a) = i - 1
      /\ \A k \in 1..(i-1) : a[k] = q[k]
  <2>1. \A k \in 1..(i-1) : q[k] \in S
    BY <1>1, <1>2
  <2> QED
    BY <1>1, <2>1, SubSeqProperties
<1>4. /\ b \in Seq(S) /\ Len(b) = Len(q) - i
      /\ \A k \in 1..(Len(q) - i) : b[k] = q[i+k]
  <2>1. \A k \in (i+1)..Len(q) : q[k] \in S
    BY <1>1, <1>2
  <2> QED
    BY <1>1, <2>1, SubSeqProperties
<1>5. /\ a \o b \in Seq(S)
      /\ Len(a \o b) = Len(a) + Len(b)
      /\ \A k \in 1..(Len(a) + Len(b)) :
             (a \o b)[k] = IF k <= Len(a) THEN a[k] ELSE b[k - Len(a)]
  BY <1>3, <1>4, ConcatProperties
<1>6. RemoveAt(q, i) = a \o b
  BY DEF RemoveAt
<1> HIDE DEF a, b
<1>7. ASSUME NEW k \in 1..(Len(q) - 1)
      PROVE  RemoveAt(q, i)[k] = IF k < i THEN q[k] ELSE q[k+1]
  <2>1. CASE k < i
    <3>1. k \in 1..(Len(a) + Len(b)) /\ k <= Len(a) /\ k \in 1..(i - 1)
      BY <1>1, <1>3, <1>4, <2>1
    <3>2. (a \o b)[k] = a[k]
      BY <1>5, <3>1
    <3>3. a[k] = q[k]
      BY <1>3, <3>1
    <3> QED
      BY <1>6, <2>1, <3>2, <3>3
  <2>2. CASE k >= i
    <3>1. k - (i - 1) \in 1..(Len(q) - i)
      BY <1>1, <2>2
    <3>2. b[k - (i - 1)] = q[i + (k - (i - 1))]
      BY <1>4, <3>1
    <3>3. k \in 1..(Len(a) + Len(b)) /\ ~(k <= Len(a)) /\ k - Len(a) = k - (i - 1)
      BY <1>1, <1>3, <1>4, <2>2
    <3>4. (a \o b)[k] = b[k - (i - 1)]
      BY <1>5, <3>3
    <3>5. i + (k - (i - 1)) = k + 1 /\ ~(k < i)
      BY <1>1, <2>2
    <3> QED
      BY <1>6, <3>2, <3>4, <3>5
  <2> QED
    BY <1>1, <2>1, <2>2
<1>8. Len(a) + Len(b) = Len(q) - 1
  BY <1>1, <1>3, <1>4
<1> QED
  BY <1>5, <1>6, <1>7, <1>8

\* A nonempty set of queue positions has a first one.
LEMMA FirstExists ==
    ASSUME NEW S \in SUBSET Nat, S # {}
    PROVE  First(S) \in S /\ \A j \in S : First(S) <= j
<1>1. PICK k \in S : \A j \in S : ~(<<j, k>> \in OpToRel(<, Nat))
  BY WFMin, NatLessThanWellFounded
<1>2. \A j \in S : k <= j
  <2> SUFFICES ASSUME NEW j \in S, j < k PROVE FALSE
    OBVIOUS
  <2> QED
    BY <1>1 DEF OpToRel
<1> QED
  BY <1>2 DEF First

----------------------------------------------------------------------------
(* Type correctness.                                                       *)

TypeInv == TypeOK /\ Phases

\* The position makeRoomLocked evicts is one of the queue, or there is room.
LEMMA EvicteeInQueue ==
    ASSUME TypeOK
    PROVE  /\ Evictee \in 0..Len(queue)
           /\ Evictee = 0 <=> Len(queue) < QueueMax
<1>1. Len(queue) \in Nat /\ DOMAIN queue = 1..Len(queue)
  BY LenProperties DEF TypeOK
<1>2. ASSUME NEW type, At(type) # {}
      PROVE  First(At(type)) \in 1..Len(queue)
  <2>1. At(type) \subseteq 1..Len(queue)
    BY <1>1 DEF At
  <2>2. At(type) \in SUBSET Nat
    BY <1>1, <2>1
  <2>3. First(At(type)) \in At(type)
    BY <1>2, <2>2, FirstExists
  <2> QED
    BY <2>1, <2>3
<1>3. At("get") # {} => First(At("get")) \in 1..Len(queue)
  BY <1>2
<1>4. At("report") # {} => First(At("report")) \in 1..Len(queue)
  BY <1>2
<1>5. QueueMax \in Nat \ {0}
  BY RsApiAssumption
<1> QED
  BY <1>1, <1>3, <1>4, <1>5 DEF Evictee

\* spoolReport keeps the file and the fates typed.
LEMMA SpoolType ==
    ASSUME TypeOK,
           NEW r \in Reports,
           NEW fates \in [Reports -> Fates],
           SpoolReport(r, fates)
    PROVE  spool' \in Seq(Reports) /\ fate' \in [Reports -> Fates]
<1>1. PICK o \in {"oversized", "pending", "unwritable"} :
          /\ fate' = [fates EXCEPT ![r] = o]
          /\ spool' = IF o = "pending" THEN Append(spool, r) ELSE spool
  BY DEF SpoolReport
<1> QED
  BY <1>1 DEF TypeOK, Fates, Lost

\* makeRoomLocked and push_back keep the queue, the spool and the fates typed.
LEMMA PushType ==
    ASSUME TypeOK,
           NEW req \in Requests,
           NEW fates \in [Reports -> Fates],
           Push(req, fates)
    PROVE  /\ queue' \in Seq(Requests)
           /\ spool' \in Seq(Reports)
           /\ fate' \in [Reports -> Fates]
<1> DEFINE i == Evictee
<1>1. i \in 0..Len(queue) /\ Len(queue) \in Nat /\ DOMAIN queue = 1..Len(queue)
  BY EvicteeInQueue, LenProperties DEF TypeOK
<1>2. queue' \in Seq(Requests)
  <2>1. CASE i = 0
    BY <2>1 DEF Push, TypeOK
  <2>2. CASE i # 0
    BY <1>1, <2>2, RemoveAtProperties DEF Push, TypeOK
  <2> QED
    BY <2>1, <2>2
<1>3. spool' \in Seq(Reports) /\ fate' \in [Reports -> Fates]
  <2>1. CASE i # 0 /\ queue[i].type = "report"
    <3>1. queue[i] \in Requests
      BY <1>1, <2>1, ElementOfSeq DEF TypeOK
    <3>2. queue[i].id \in Reports
      BY <2>1, <3>1 DEF Requests
    <3> QED
      BY <2>1, <3>2, SpoolType DEF Push
  <2>2. CASE ~(i # 0 /\ queue[i].type = "report")
    BY <2>2 DEF Push, TypeOK
  <2> QED
    BY <2>1, <2>2
<1> QED
  BY <1>2, <1>3

\* The worker's request is a real one wherever it is looked into.
LEMMA HandType ==
    ASSUME TypeInv,
           wpc \in {"send", "replied", "text", "signal", "fail", "requeue"}
    PROVE  /\ cur \in Requests
           /\ cur.type = "report" => cur.id \in Reports
           /\ cur.type # "report" => cur.id \in Chans /\ cur.gen \in Nat
BY DEF TypeInv, TypeOK, Phases, Requests, Chans

\* A process that ends leaves a typed, empty memory behind.
LEMMA WipeType ==
    ASSUME Wipe,
           spool' \in Seq(Reports), fate' \in [Reports -> Fates],
           crashes' \in Nat, boots' \in Nat
    PROVE  TypeInv'
<1>1. queue' \in Seq(Requests) /\ loaded' \in Seq(Reports)
  BY EmptySeq DEF Wipe
<1>2. /\ gen' \in [Chans -> Nat]
      /\ result' \in [Chans -> {-1, 0, 1}]
      /\ text' \in [Chans -> Nat]
      /\ pending' \in [Chans -> BOOLEAN]
      /\ answers' \in [Chans -> Nat]
      /\ raced' \in [Chans -> BOOLEAN]
  BY DEF Wipe
<1>3. TypeOK'
  BY <1>1, <1>2 DEF Wipe, TypeOK
<1>4. Phases'
  BY DEF Wipe, Phases
<1> QED
  BY <1>3, <1>4 DEF TypeInv

\* The state at start is of its type.
LEMMA TypeInit == Init => TypeInv
<1> SUFFICES ASSUME Init PROVE TypeInv
  OBVIOUS
<1>1. /\ queue \in Seq(Requests) /\ loaded \in Seq(Reports) /\ spool \in Seq(Reports)
  BY EmptySeq DEF Init
<1>3. /\ gen \in [Chans -> Nat]
      /\ result \in [Chans -> {-1, 0, 1}]
      /\ text \in [Chans -> Nat]
      /\ pending \in [Chans -> BOOLEAN]
      /\ answers \in [Chans -> Nat]
      /\ raced \in [Chans -> BOOLEAN]
      /\ fate \in [Reports -> Fates]
  BY DEF Init, Fates
<1>4. TypeOK
  BY <1>1, <1>3 DEF Init, TypeOK
<1>2. Phases
  BY DEF Init, Phases, NoRequest
<1> QED
  BY <1>2, <1>4 DEF TypeInv

\* Every step of the script and the worker keeps the types.
LEMMA TypeNext == TypeInv /\ [Next]_vars => TypeInv'
<1> SUFFICES ASSUME TypeInv, [Next]_vars PROVE TypeInv'
  OBVIOUS
<1> USE DEF TypeInv
<1>1. CASE EnsureStarted
  BY <1>1 DEF EnsureStarted, TypeOK, Phases, scriptVars, shareVars, reportVars, lifeVars
<1>2. ASSUME NEW r \in Reports, ReportRace(r) PROVE TypeInv'
  <2>1. ReportReq(r) \in Requests /\ [fate EXCEPT ![r] = "pending"] \in [Reports -> Fates]
    BY DEF ReportReq, Requests, TypeOK, Fates
  <2>2. /\ queue' \in Seq(Requests)
        /\ spool' \in Seq(Reports)
        /\ fate' \in [Reports -> Fates]
    BY <1>2, <2>1, PushType DEF ReportRace
  <2> QED
    BY <1>2, <2>2 DEF ReportRace, TypeOK, Phases, scriptVars, workerVars,
                      shareVars, lifeVars
<1>3. ASSUME NEW c \in Chans, FetchBump(c) PROVE TypeInv'
  BY <1>3 DEF FetchBump, TypeOK, Phases, workerVars, shareVars, reportVars, lifeVars
<1>4. ASSUME NEW c \in Chans, Poll(c) PROVE TypeInv'
  BY <1>4, ZenonT(60) DEF Poll, TypeOK, Phases, workerVars, reportVars, lifeVars
<1>5. ASSUME NEW c \in Chans, Forget(c) PROVE TypeInv'
  BY <1>5 DEF Forget, TypeOK, Phases, workerVars, shareVars, reportVars, lifeVars
<1>6. CASE FetchClear
  BY <1>6 DEF FetchClear, TypeOK, Phases, workerVars, reportVars, lifeVars, InStoreWindow
<1>7. CASE FetchPush
  <2> DEFINE req == IF chan \in Slots THEN GetReq(chan, gen[chan])
                                      ELSE JoinReq(chan, gen[chan])
  <2>1. req \in Requests
    BY <1>7 DEF FetchPush, GetReq, JoinReq, Requests, TypeOK, Phases, Chans
  <2>2. /\ queue' \in Seq(Requests)
        /\ spool' \in Seq(Reports)
        /\ fate' \in [Reports -> Fates]
    BY <1>7, <2>1, PushType DEF FetchPush, TypeOK
  <2>3. wpc = "none" => FALSE
    BY <1>7 DEF FetchPush, Phases
  <2> QED
    BY <1>7, <2>2, <2>3 DEF FetchPush, TypeOK, Phases, workerVars, shareVars, lifeVars
<1>8. CASE ReadText
  BY <1>8 DEF ReadText, TypeOK, Phases, workerVars, shareVars, reportVars, lifeVars
<1>9. CASE Shutdown
  BY <1>9 DEF Shutdown, TypeOK, Phases, workerVars, shareVars, reportVars
<1>10. CASE Exit
  BY <1>10, WipeType DEF Exit, TypeOK, reportVars
<1>11. CASE LoadSpool
  <2>1. KeptLines \in Seq(Reports)
    BY RsApiAssumption DEF KeptLines, TypeOK
  <2> QED
    BY <1>11, <2>1 DEF LoadSpool, TypeOK, Phases, scriptVars, shareVars,
                       reportVars, lifeVars
<1>12. CASE RemoveSpool
  BY <1>12 DEF RemoveSpool, TypeOK, Phases, scriptVars, shareVars, lifeVars, Fates, Lost
<1>13. CASE PushLoaded
  <2>1. [i \in DOMAIN loaded |-> ReportReq(loaded[i])] \in Seq(Requests)
    <3>1. DOMAIN loaded = 1..Len(loaded) /\ Len(loaded) \in Nat
      BY LenProperties DEF TypeOK
    <3>2. \A i \in 1..Len(loaded) : ReportReq(loaded[i]) \in Requests
      BY <3>1, ElementOfSeq DEF TypeOK, ReportReq, Requests
    <3> QED
      BY <3>1, <3>2
  <2> QED
    BY <1>13, <2>1, ConcatProperties
       DEF PushLoaded, TypeOK, Phases, scriptVars, shareVars, reportVars, lifeVars
<1>14. CASE Take
  <2>1. Head(queue) \in Requests /\ Tail(queue) \in Seq(Requests)
    BY <1>14, HeadTailProperties DEF Take, TypeOK
  <2>2. \A q \in Requests : q # NoRequest
    BY DEF Requests, NoRequest
  <2> QED
    BY <1>14, <2>1, <2>2 DEF Take, TypeOK, Phases, scriptVars, shareVars,
                             reportVars, lifeVars
<1>15. CASE Return
  BY <1>15 DEF Return, TypeOK, Phases, scriptVars, shareVars, reportVars, lifeVars
<1>16. CASE SkipDraining
  <2>1. spool' \in Seq(Reports) /\ fate' \in [Reports -> Fates]
    <3>1. CASE cur.type = "report"
      BY <1>16, <3>1, HandType, SpoolType DEF SkipDraining, TypeOK
    <3>2. CASE cur.type # "report"
      BY <1>16, <3>2 DEF SkipDraining, TypeOK
    <3> QED
      BY <3>1, <3>2
  <2> QED
    BY <1>16, <2>1 DEF SkipDraining, Finish, TypeOK, Phases, scriptVars,
                       shareVars, lifeVars
<1>17. ASSUME NEW s \in Statuses, Send(s) PROVE TypeInv'
  BY <1>17, HandType DEF Send, TypeOK, Phases, scriptVars, shareVars,
                         reportVars, lifeVars
<1>18. CASE ReportAnswered
  BY <1>18, HandType DEF ReportAnswered, Finish, TypeOK, Phases, scriptVars,
                         shareVars, lifeVars, Fates
<1>19. CASE ReportDrained
  <2>1. spool' \in Seq(Reports) /\ fate' \in [Reports -> Fates]
    BY <1>19, HandType, SpoolType DEF ReportDrained, TypeOK
  <2> QED
    BY <1>19, <2>1 DEF ReportDrained, Finish, TypeOK, Phases, scriptVars,
                       shareVars, lifeVars
<1>20. CASE ReportRetried
  BY <1>20 DEF ReportRetried, TypeOK, Phases, scriptVars, shareVars, reportVars, lifeVars
<1>21. CASE FetchStale
  BY <1>21 DEF FetchStale, Finish, CountDrain, TypeOK, Phases, scriptVars, shareVars, reportVars, lifeVars
<1>22. CASE FetchLanded
  BY <1>22 DEF FetchLanded, CountDrain, TypeOK, Phases, scriptVars, shareVars, reportVars, lifeVars
<1>23. CASE FetchRetried
  <2>1. cur.type = "get" /\ cur \in Requests /\ cur' \in Requests
    BY <1>23, HandType DEF FetchRetried, Retryable, Requests
  <2>2. cur' # NoRequest /\ cur'.type = "get"
    BY <1>23, <2>1 DEF FetchRetried, Requests, NoRequest
  <2> QED
    BY <1>23, <2>1, <2>2 DEF FetchRetried, CountDrain, TypeOK, Phases, scriptVars,
                             shareVars, reportVars, lifeVars
<1>24. CASE StoreText
  BY <1>24, HandType DEF StoreText, TypeOK, Phases, scriptVars, reportVars, lifeVars
<1>25. CASE StoreResult
  BY <1>25, HandType DEF StoreResult, Finish, TypeOK, Phases, scriptVars, reportVars, lifeVars
<1>26. CASE Requeue
  BY <1>26, HandType DEF Requeue, Finish, TypeOK, Phases, scriptVars, shareVars, reportVars, lifeVars
<1>27. CASE Crash
  <2>1. fate' \in [Reports -> Fates]
    BY <1>27 DEF Crash, TypeOK, Fates, Lost
  <2> QED
    BY <1>27, <2>1, WipeType, SMTT(60) DEF Crash, TypeOK
<1>28. CASE Boot
  BY <1>28 DEF Boot, TypeOK, Phases, workerVars, shareVars, reportVars
<1>29. CASE UNCHANGED vars
  BY <1>29 DEF vars, TypeOK, Phases, scriptVars, workerVars, shareVars,
               reportVars, lifeVars
<1> QED
  BY <1>1, <1>2, <1>3, <1>4, <1>5, <1>6, <1>7, <1>8, <1>9, <1>10, <1>11, <1>12,
     <1>13, <1>14, <1>15, <1>16, <1>17, <1>18, <1>19, <1>20, <1>21, <1>22,
     <1>23, <1>24, <1>25, <1>26, <1>27, <1>28, <1>29
     DEF Next, Script, Worker

\* RsApi is type correct: whatever the API answers and whenever the process
\* stops, crashes or restarts, queue, spool, generations and results keep their
\* types, and each thread's locals fit its place in the code.
THEOREM TypeCorrect == Spec => []TypeOK
<1>1. Spec => []TypeInv
  BY TypeInit, TypeNext, PTL DEF Spec
<1>2. TypeInv => TypeOK
  BY DEF TypeInv
<1> QED
  BY <1>1, <1>2, PTL

----------------------------------------------------------------------------
(* The bound of the queue.                                                 *)

\* A push through makeRoomLocked grows the queue only while it has room.
LEMMA PushLength ==
    ASSUME TypeOK, NEW req \in Requests, NEW fates, Push(req, fates)
    PROVE  Len(queue') = IF Len(queue) < QueueMax THEN Len(queue) + 1 ELSE Len(queue)
<1>1. Len(queue) \in Nat /\ DOMAIN queue = 1..Len(queue)
  BY LenProperties DEF TypeOK
<1>2. CASE Evictee = 0
  BY <1>1, <1>2, EvicteeInQueue, AppendProperties DEF Push, TypeOK
<1>3. CASE Evictee # 0
  <2>1. Evictee \in DOMAIN queue /\ ~(Len(queue) < QueueMax)
    BY <1>1, <1>3, EvicteeInQueue
  <2>2. /\ RemoveAt(queue, Evictee) \in Seq(Requests)
        /\ Len(RemoveAt(queue, Evictee)) = Len(queue) - 1
    BY <2>1, RemoveAtProperties DEF TypeOK
  <2>3. queue' = Append(RemoveAt(queue, Evictee), req)
    BY <1>3 DEF Push
  <2>4. Len(Append(RemoveAt(queue, Evictee), req)) = Len(RemoveAt(queue, Evictee)) + 1
    BY <2>2, AppendProperties
  <2> QED
    BY <1>1, <2>1, <2>2, <2>3, <2>4
<1> QED
  BY <1>2, <1>3

\* Every step keeps the queue within its bound.
LEMMA BoundNext == TypeInv /\ BoundInv /\ [Next]_vars => BoundInv'
<1> SUFFICES ASSUME TypeInv, BoundInv, [Next]_vars PROVE BoundInv'
  OBVIOUS
<1> USE DEF TypeInv, BoundInv, QueueBound
<1>a. Len(queue) \in Nat /\ Len(loaded) \in Nat
  BY LenProperties DEF TypeOK
<1>b. (cur.type = "none") <=> (cur = NoRequest)
  BY DEF TypeOK, Requests, NoRequest
<1>c. SpoolLoadMax \in Nat /\ QueueMax \in Nat \ {0}
  BY RsApiAssumption
<1>d. loaded # <<>> => wpc \in {"remove", "push"} /\ cur = NoRequest
  BY DEF Phases
<1>e. loaded = <<>> => Len(loaded) = 0
  OBVIOUS
<1>f. Overshoot \in Nat /\ Overshoot >= 1 /\ Overshoot >= SpoolLoadMax
  BY <1>c DEF Overshoot
<1>1. ASSUME NEW req \in Requests, NEW fates, Push(req, fates), wpc # "none",
             UNCHANGED workerVars
      PROVE  BoundInv'
  <2>1. Len(queue') = IF Len(queue) < QueueMax THEN Len(queue) + 1 ELSE Len(queue)
    BY <1>1, PushLength
  <2> QED
    <3>1. wpc' = wpc /\ loaded' = loaded /\ cur' = cur
      BY <1>1 DEF workerVars
    <3>2. /\ Len(queue') \in Nat
          /\ Len(queue') <= QueueMax \/ Len(queue') = Len(queue)
      BY <1>a, <1>c, <2>1
    <3>3. Len(loaded') \in Nat /\ Len(loaded') = Len(loaded)
      BY <1>a, <3>1
    <3>4. Len(queue') + (IF cur.type = "none" THEN 0 ELSE 1) + Len(loaded)
              <= QueueMax + Overshoot
      <4>1. CASE loaded = <<>>
        BY <1>a, <1>c, <1>e, <1>f, <3>2, <4>1
      <4>2. CASE loaded # <<>>
        BY <1>a, <1>b, <1>c, <1>d, <1>f, <3>2, <4>2
      <4> QED
        BY <4>1, <4>2
    <3> QED
      BY <1>a, <1>c, <3>1, <3>2, <3>3, <3>4
<1>2. ASSUME NEW r \in Reports, ReportRace(r) PROVE BoundInv'
  <2>1. ReportReq(r) \in Requests
    BY DEF ReportReq, Requests
  <2> QED
    BY <1>1, <1>2, <2>1 DEF ReportRace
<1>3. CASE FetchPush
  <2>1. wpc # "none"
    BY <1>3 DEF FetchPush, Phases
  <2>2. (IF chan \in Slots THEN GetReq(chan, gen[chan]) ELSE JoinReq(chan, gen[chan]))
            \in Requests
    BY <1>3 DEF FetchPush, GetReq, JoinReq, Requests, TypeOK, Phases, Chans
  <2> QED
    BY <1>1, <1>3, <2>1, <2>2 DEF FetchPush
<1>4. CASE LoadSpool
  <2>1. Len(KeptLines) <= SpoolLoadMax /\ Len(KeptLines) \in Nat
    BY <1>c, LenProperties DEF KeptLines, TypeOK
  <2> QED
    BY <1>4, <1>a, <1>b, <1>c, <1>f, <2>1 DEF LoadSpool, Phases
<1>5. CASE PushLoaded
  <2>1. Len(queue') = Len(queue) + Len(loaded) /\ Len(loaded') = 0
    <3> DEFINE new == [i \in DOMAIN loaded |-> ReportReq(loaded[i])]
    <3>1. new \in Seq(Requests) /\ Len(new) = Len(loaded)
      <4>1. DOMAIN loaded = 1..Len(loaded) /\ Len(loaded) \in Nat
        BY LenProperties DEF TypeOK
      <4>2. \A i \in 1..Len(loaded) : ReportReq(loaded[i]) \in Requests
        BY <4>1, ElementOfSeq DEF TypeOK, ReportReq, Requests
      <4> QED
        BY <4>1, <4>2
    <3> HIDE DEF new
    <3>2. Len(queue \o new) = Len(queue) + Len(new)
      BY <3>1, ConcatProperties DEF TypeOK
    <3> QED
      BY <1>5, <3>1, <3>2 DEF PushLoaded, new
  <2> QED
    BY <1>5, <1>a, <1>b, <1>c, <1>f, <2>1 DEF PushLoaded, Phases
<1>6. CASE Take
  <2>1. Len(queue') = Len(queue) - 1 /\ cur'.type # "none" /\ cur.type = "none"
    <3>1. Head(queue) \in Requests /\ Len(Tail(queue)) = Len(queue) - 1
      BY <1>6, HeadTailProperties DEF Take, TypeOK
    <3>2. \A q \in Requests : q.type # "none"
      BY DEF Requests
    <3>3. wpc = "wait"
      BY <1>6 DEF Take
    <3>4. cur = NoRequest
      BY <3>3 DEF Phases
    <3> QED
      BY <1>6, <1>b, <3>1, <3>2, <3>4 DEF Take
  <2> QED
    BY <1>6, <1>a, <1>c, <1>f, <2>1 DEF Take
<1>7. CASE Requeue
  <2>1. Len(queue') = Len(queue) + 1 /\ cur.type # "none" /\ cur'.type = "none"
    BY <1>7, <1>b, HandType, AppendProperties DEF Requeue, Finish, NoRequest, TypeOK, Phases
  <2> QED
    BY <1>7, <1>a, <1>c, <1>f, <2>1 DEF Requeue, Finish
<1>8. CASE Exit \/ Crash
  <2>1. Len(queue') = 0 /\ Len(loaded') = 0 /\ cur'.type = "none"
    BY <1>8 DEF Exit, Crash, Wipe, NoRequest
  <2> QED
    BY <1>8, <1>c, <1>f, <2>1
<1>9. ASSUME UNCHANGED <<queue, loaded>>, cur' = NoRequest \/ cur'.type = cur.type,
             wpc' \in {"none", "load", "remove", "push"}
                 => wpc \in {"none", "load", "remove", "push"}
      PROVE  BoundInv'
  BY <1>9, <1>a, <1>b, <1>c, <1>f DEF NoRequest
<1>10. CASE EnsureStarted \/ RemoveSpool \/ Return \/ SkipDraining
  BY <1>9, <1>10 DEF EnsureStarted, RemoveSpool, Return, SkipDraining, Finish
<1>11. ASSUME NEW c \in Chans, FetchBump(c) \/ Poll(c) \/ Forget(c) PROVE BoundInv'
  BY <1>9, <1>11 DEF FetchBump, Poll, Forget, workerVars
<1>12. CASE FetchClear \/ ReadText \/ Shutdown \/ Boot \/ UNCHANGED vars
  BY <1>9, <1>12 DEF FetchClear, ReadText, Shutdown, Boot, vars, workerVars
<1>13. ASSUME NEW s \in Statuses, Send(s) PROVE BoundInv'
  BY <1>9, <1>13 DEF Send
<1>14. CASE ReportAnswered \/ ReportDrained \/ ReportRetried
  BY <1>9, <1>14 DEF ReportAnswered, ReportDrained, ReportRetried, Finish
<1>15. CASE FetchStale \/ FetchLanded
  BY <1>9, <1>15 DEF FetchStale, FetchLanded, Finish
<1>16. CASE FetchRetried
  <2>1. cur'.type = cur.type
    BY <1>16, HandType DEF FetchRetried, Requests
  <2> QED
    BY <1>9, <1>16, <2>1 DEF FetchRetried
<1>17. CASE StoreText \/ StoreResult
  BY <1>9, <1>17 DEF StoreText, StoreResult, Finish
<1> QED
  BY <1>2, <1>3, <1>4, <1>5, <1>6, <1>7, <1>8, <1>10, <1>11, <1>12, <1>13,
     <1>14, <1>15, <1>16, <1>17 DEF Next, Script, Worker

\* For every QUEUE_MAX and SPOOL_LOAD_MAX, the loader's unchecked pushes and the
\* worker's unchecked requeue never stack up: queue, hand and loader together
\* stay within QUEUE_MAX plus the larger of SPOOL_LOAD_MAX and one.
THEOREM QueueBounded == Spec => []QueueBound
<1>1. Init => BoundInv
  <2> SUFFICES ASSUME Init PROVE BoundInv
    OBVIOUS
  <2>1. Len(queue) = 0 /\ Len(loaded) = 0 /\ cur.type = "none"
    BY DEF Init, NoRequest
  <2> QED
    BY <2>1, RsApiAssumption DEF BoundInv, QueueBound, Overshoot
<1>2. BoundInv => QueueBound
  BY DEF BoundInv
<1> QED
  BY <1>1, <1>2, TypeInit, TypeNext, BoundNext, PTL DEF Spec

----------------------------------------------------------------------------
(* The fetch handshake.                                                    *)

\* Every step keeps what the script reads fresh.
LEMMA FreshNext == TypeInv /\ FreshInv /\ [Next]_vars => FreshInv'
<1> SUFFICES ASSUME TypeInv, FreshInv, [Next]_vars PROVE FreshInv'
  OBVIOUS
<1> USE DEF FreshInv, FreshUnlessRaced
<1>1. ASSUME UNCHANGED <<spc, chan, gen, result, text, answers, raced>>,
             wpc' \in {"text", "signal", "fail"} => UNCHANGED <<wpc, cur>>
      PROVE  FreshInv'
  BY <1>1 DEF InStoreWindow
<1>2. CASE EnsureStarted \/ LoadSpool \/ RemoveSpool \/ PushLoaded \/ Take \/ Return
  BY <1>1, <1>2 DEF EnsureStarted, LoadSpool, RemoveSpool, PushLoaded, Take,
                    Return, scriptVars, shareVars
<1>3. ASSUME NEW r \in Reports, ReportRace(r) PROVE FreshInv'
  BY <1>1, <1>3 DEF ReportRace, scriptVars, workerVars, shareVars
<1>4. ASSUME NEW c \in Chans, FetchBump(c) PROVE FreshInv'
  BY <1>4 DEF FetchBump, workerVars, shareVars, InStoreWindow, TypeInv, TypeOK
<1>5. ASSUME NEW c \in Chans, Poll(c) PROVE FreshInv'
  BY <1>5 DEF Poll, workerVars, InStoreWindow, TypeInv, TypeOK
<1>6. ASSUME NEW c \in Chans, Forget(c) PROVE FreshInv'
  BY <1>1, <1>6 DEF Forget, workerVars, shareVars
<1>7. CASE FetchClear
  BY <1>7 DEF FetchClear, workerVars, InStoreWindow, TypeInv, TypeOK, Phases
<1>8. CASE FetchPush \/ ReadText \/ Shutdown \/ Boot
  BY <1>8 DEF FetchPush, ReadText, Shutdown, Boot, workerVars, shareVars,
              InStoreWindow
<1>9. CASE Exit \/ Crash
  BY <1>9 DEF Exit, Crash, Wipe, InStoreWindow
<1>10. ASSUME NEW s \in Statuses, Send(s) PROVE FreshInv'
  BY <1>1, <1>10 DEF Send, scriptVars, shareVars
<1>11. CASE SkipDraining \/ ReportAnswered \/ ReportDrained \/ ReportRetried
  BY <1>1, <1>11 DEF SkipDraining, ReportAnswered, ReportDrained, ReportRetried,
                     Finish, scriptVars, shareVars
<1>12. CASE FetchStale \/ FetchRetried \/ Requeue
  BY <1>1, <1>12 DEF FetchStale, FetchRetried, Requeue, Finish, scriptVars, shareVars
<1>13. CASE FetchLanded
  BY <1>13 DEF FetchLanded, IsCurrent, InStoreWindow, scriptVars, shareVars
<1>14. CASE StoreText
  BY <1>14, HandType DEF StoreText, InStoreWindow, scriptVars, TypeInv, TypeOK, Phases
<1>15. CASE StoreResult
  BY <1>15, HandType, SMTT(60) DEF StoreResult, Finish, InStoreWindow, scriptVars, TypeInv,
                         TypeOK, Phases
<1>16. CASE UNCHANGED vars
  BY <1>1, <1>16 DEF vars, scriptVars, workerVars, shareVars
<1> QED
  BY <1>2, <1>3, <1>4, <1>5, <1>6, <1>7, <1>8, <1>9, <1>10, <1>11, <1>12,
     <1>13, <1>14, <1>15, <1>16 DEF Next, Script, Worker

\* "gen first, result second" is enough but for one window: for any number of
\* slots, re-issues and restarts, an outcome the script can poll belongs to the
\* slot's latest fetch, unless that fetch was issued after the worker compared
\* generations and before it stored the result.
THEOREM Fresh == Spec => []FreshUnlessRaced
<1>1. Init => FreshInv
  BY DEF Init, FreshInv, FreshUnlessRaced, InStoreWindow
<1>2. FreshInv => FreshUnlessRaced
  BY DEF FreshInv
<1> QED
  BY <1>1, <1>2, TypeInit, TypeNext, FreshNext, PTL DEF Spec

----------------------------------------------------------------------------
(* Where a report is.                                                      *)

\* What a sequence of requests says of reports: their names, and that no two
\* positions carry the same one.
ReportIds(q) == {q[i].id : i \in {j \in DOMAIN q : q[j].type = "report"}}
Distinct(q) ==
    \A i, j \in DOMAIN q :
        q[i].type = "report" /\ q[j].type = "report" /\ q[i].id = q[j].id => i = j

\* The report a request carries, as a set.
Carried(req) == IF req.type = "report" THEN {req.id} ELSE {}

\* push_back adds the new request's report and no other.
LEMMA AppendIds ==
    ASSUME NEW q \in Seq(Requests), NEW req \in Requests
    PROVE  /\ ReportIds(Append(q, req)) = ReportIds(q) \cup Carried(req)
           /\ Distinct(q) /\ ReportIds(q) \cap Carried(req) = {}
                  => Distinct(Append(q, req))
<1> DEFINE a == Append(q, req)
<1>1. /\ Len(q) \in Nat /\ DOMAIN q = 1..Len(q) /\ DOMAIN a = 1..(Len(q) + 1)
      /\ \A i \in 1..Len(q) : a[i] = q[i]
      /\ a[Len(q) + 1] = req
  BY AppendProperties, LenProperties
<1> HIDE DEF a
<1>2. DOMAIN a = DOMAIN q \cup {Len(q) + 1} /\ Len(q) + 1 \notin DOMAIN q
  BY <1>1
<1>3. ReportIds(a) = ReportIds(q) \cup Carried(req)
  BY <1>1, <1>2 DEF ReportIds, Carried
<1>4. ASSUME Distinct(q), ReportIds(q) \cap Carried(req) = {}
      PROVE  Distinct(a)
  BY <1>1, <1>2, <1>4 DEF Distinct, ReportIds, Carried
<1> QED
  BY <1>3, <1>4 DEF a

\* Erasing a request takes its report out, and no other.
LEMMA RemoveIds ==
    ASSUME NEW q \in Seq(Requests), NEW i \in DOMAIN q, Distinct(q)
    PROVE  /\ RemoveAt(q, i) \in Seq(Requests)
           /\ ReportIds(RemoveAt(q, i)) = ReportIds(q) \ Carried(q[i])
           /\ Distinct(RemoveAt(q, i))
<1> DEFINE b == RemoveAt(q, i)
<1>1. Len(q) \in Nat /\ DOMAIN q = 1..Len(q) /\ i \in 1..Len(q)
  BY LenProperties
<1>2. /\ b \in Seq(Requests) /\ Len(b) = Len(q) - 1
      /\ \A k \in 1..(Len(q) - 1) : b[k] = IF k < i THEN q[k] ELSE q[k+1]
  BY RemoveAtProperties
<1>3. DOMAIN b = 1..(Len(q) - 1)
  BY <1>2, LenProperties
<1> HIDE DEF b
<1> DEFINE old(k) == IF k < i THEN k ELSE k + 1
<1>4. ASSUME NEW k \in DOMAIN b
      PROVE  old(k) \in DOMAIN q /\ old(k) # i /\ b[k] = q[old(k)]
  BY <1>1, <1>2, <1>3
<1>5. ASSUME NEW j \in DOMAIN q, j # i
      PROVE  \E k \in DOMAIN b : old(k) = j
  <2>1. CASE j < i
    BY <1>1, <1>3, <2>1
  <2>2. CASE j > i
    <3>1. j - 1 \in DOMAIN b /\ old(j - 1) = j
      BY <1>1, <1>3, <2>2
    <3> QED
      BY <3>1
  <2> QED
    BY <1>1, <1>5, <2>1, <2>2
<1>6. \A k, l \in DOMAIN b : old(k) = old(l) => k = l
  BY <1>1, <1>3
<1> HIDE DEF old
<1>7. ReportIds(b) = ReportIds(q) \ Carried(q[i])
  BY <1>4, <1>5 DEF ReportIds, Carried, Distinct
<1>8. Distinct(b)
  BY <1>4, <1>6 DEF Distinct
<1> QED
  BY <1>2, <1>7, <1>8 DEF b

\* Taking the front leaves the other reports.
LEMMA TailIds ==
    ASSUME NEW q \in Seq(Requests), q # <<>>, Distinct(q)
    PROVE  /\ ReportIds(Tail(q)) = ReportIds(q) \ Carried(Head(q))
           /\ Carried(Head(q)) \subseteq ReportIds(q)
           /\ Distinct(Tail(q))
<1> DEFINE t == Tail(q)
<1>1. /\ Len(q) \in Nat /\ Len(q) > 0 /\ DOMAIN q = 1..Len(q) /\ Head(q) = q[1]
      /\ t \in Seq(Requests) /\ Len(t) = Len(q) - 1
      /\ \A k \in 1..Len(t) : t[k] = q[k+1]
  BY LenProperties, EmptySeq, HeadTailProperties
<1>2. DOMAIN t = 1..(Len(q) - 1)
  BY <1>1, LenProperties
<1> HIDE DEF t
<1>3. \A k \in DOMAIN t : k + 1 \in DOMAIN q /\ k + 1 # 1 /\ t[k] = q[k+1]
  BY <1>1, <1>2
<1>4. \A j \in DOMAIN q : j # 1 => j - 1 \in DOMAIN t /\ t[j-1] = q[j]
  BY <1>1, <1>2
<1>5. 1 \in DOMAIN q
  BY <1>1
<1>6. ReportIds(t) = ReportIds(q) \ Carried(Head(q))
  <2>1. ASSUME NEW k \in DOMAIN t, t[k].type = "report"
        PROVE  t[k].id \in ReportIds(q) \ Carried(Head(q))
    BY <1>1, <1>3, <1>5, <2>1 DEF ReportIds, Carried, Distinct
  <2>2. ASSUME NEW j \in DOMAIN q, q[j].type = "report",
               q[j].id \notin Carried(Head(q))
        PROVE  q[j].id \in ReportIds(t)
    BY <1>1, <1>4, <2>2 DEF ReportIds, Carried
  <2> QED
    BY <2>1, <2>2 DEF ReportIds
<1>7. Distinct(t)
  <2> SUFFICES ASSUME NEW k \in DOMAIN t, NEW l \in DOMAIN t,
                      t[k].type = "report", t[l].type = "report", t[k].id = t[l].id
               PROVE  k = l
    BY DEF Distinct
  <2>1. k + 1 = l + 1
    BY <1>3 DEF Distinct
  <2> QED
    BY <1>1, <1>2, <2>1
<1>8. Carried(Head(q)) \subseteq ReportIds(q)
  BY <1>1, <1>5 DEF Carried, ReportIds
<1> QED
  BY <1>6, <1>7, <1>8 DEF t

\* The loader's push_back of its lines.
LEMMA LoadedIds ==
    ASSUME NEW q \in Seq(Requests), NEW lines \in Seq(Reports),
           Distinct(q), IsInjective(lines), ReportIds(q) \cap Range(lines) = {}
    PROVE  LET new == [i \in DOMAIN lines |-> ReportReq(lines[i])]
           IN  /\ ReportIds(q \o new) = ReportIds(q) \cup Range(lines)
               /\ Distinct(q \o new)
<1> DEFINE new == [i \in DOMAIN lines |-> ReportReq(lines[i])]
           c == q \o new
<1>1. /\ Len(q) \in Nat /\ DOMAIN q = 1..Len(q)
      /\ Len(lines) \in Nat /\ DOMAIN lines = 1..Len(lines)
  BY LenProperties
<1>2. new \in Seq(Requests) /\ Len(new) = Len(lines)
  <2>1. \A i \in 1..Len(lines) : ReportReq(lines[i]) \in Requests
    BY <1>1, ElementOfSeq DEF ReportReq, Requests
  <2> QED
    BY <1>1, <2>1
<1>3. \A i \in DOMAIN lines : new[i].type = "report" /\ new[i].id = lines[i]
  BY DEF ReportReq
<1> HIDE DEF new
<1>4. /\ c \in Seq(Requests) /\ Len(c) = Len(q) + Len(lines)
      /\ \A k \in 1..(Len(q) + Len(lines)) :
             c[k] = IF k <= Len(q) THEN q[k] ELSE new[k - Len(q)]
  BY <1>2, ConcatProperties, ZenonT(60)
<1>5. DOMAIN c = 1..(Len(q) + Len(lines))
  BY <1>4, LenProperties
<1> HIDE DEF c
<1>6. \A k \in DOMAIN q : k \in DOMAIN c /\ c[k] = q[k]
  BY <1>1, <1>4, <1>5
<1>7. \A i \in DOMAIN lines : /\ Len(q) + i \in DOMAIN c /\ Len(q) + i \notin DOMAIN q
                              /\ c[Len(q) + i] = new[i]
  <2> SUFFICES ASSUME NEW i \in DOMAIN lines
               PROVE  /\ Len(q) + i \in DOMAIN c /\ Len(q) + i \notin DOMAIN q
                      /\ c[Len(q) + i] = new[i]
    OBVIOUS
  <2>1. /\ Len(q) + i \in 1..(Len(q) + Len(lines)) /\ ~(Len(q) + i <= Len(q))
        /\ (Len(q) + i) - Len(q) = i
    BY <1>1
  <2> QED
    BY <1>1, <1>4, <1>5, <2>1
<1>8. ASSUME NEW k \in DOMAIN c, k \notin DOMAIN q
      PROVE  \E i \in DOMAIN lines : k = Len(q) + i
  <2>1. k - Len(q) \in DOMAIN lines /\ k = Len(q) + (k - Len(q))
    BY <1>1, <1>5, <1>8
  <2> QED
    BY <2>1
<1>9. ReportIds(c) = ReportIds(q) \cup Range(lines)
  <2>1. ReportIds(c) \subseteq ReportIds(q) \cup Range(lines)
    <3> SUFFICES ASSUME NEW k \in DOMAIN c, c[k].type = "report"
                 PROVE  c[k].id \in ReportIds(q) \cup Range(lines)
      BY DEF ReportIds
    <3>1. CASE k \in DOMAIN q
      BY <1>6, <3>1 DEF ReportIds
    <3>2. CASE k \notin DOMAIN q
      BY <1>3, <1>7, <1>8, <3>2 DEF Range
    <3> QED
      BY <3>1, <3>2
  <2>2. ReportIds(q) \subseteq ReportIds(c)
    BY <1>6 DEF ReportIds
  <2>3. Range(lines) \subseteq ReportIds(c)
    BY <1>3, <1>7 DEF ReportIds, Range
  <2> QED
    BY <2>1, <2>2, <2>3
<1>10. Distinct(c)
  <2> SUFFICES ASSUME NEW k \in DOMAIN c, NEW l \in DOMAIN c,
                      c[k].type = "report", c[l].type = "report", c[k].id = c[l].id
               PROVE  k = l
    BY DEF Distinct
  <2>1. CASE k \in DOMAIN q /\ l \in DOMAIN q
    BY <1>6, <2>1 DEF Distinct
  <2>2. CASE k \in DOMAIN q /\ l \notin DOMAIN q
    <3>1. c[k].id \in ReportIds(q)
      BY <1>6, <2>2 DEF ReportIds
    <3>2. c[l].id \in Range(lines)
      BY <1>3, <1>7, <1>8, <2>2 DEF Range
    <3> QED
      BY <3>1, <3>2
  <2>3. CASE k \notin DOMAIN q /\ l \in DOMAIN q
    <3>1. c[l].id \in ReportIds(q)
      BY <1>6, <2>3 DEF ReportIds
    <3>2. c[k].id \in Range(lines)
      BY <1>3, <1>7, <1>8, <2>3 DEF Range
    <3> QED
      BY <3>1, <3>2
  <2>4. CASE k \notin DOMAIN q /\ l \notin DOMAIN q
    <3>1. PICK i \in DOMAIN lines : k = Len(q) + i
      BY <1>8, <2>4
    <3>2. PICK j \in DOMAIN lines : l = Len(q) + j
      BY <1>8, <2>4
    <3>3. lines[i] = lines[j]
      BY <1>3, <1>7, <3>1, <3>2
    <3> QED
      BY <3>1, <3>2, <3>3 DEF IsInjective
  <2> QED
    BY <2>1, <2>2, <2>3, <2>4
<1> QED
  BY <1>9, <1>10 DEF c, new

\* An append to the file: its lines, and that they stay different.
LEMMA AppendLine ==
    ASSUME NEW S, NEW lines \in Seq(S), NEW x \in S
    PROVE  /\ Range(Append(lines, x)) = Range(lines) \cup {x}
           /\ IsInjective(lines) /\ x \notin Range(lines)
                  => IsInjective(Append(lines, x))
<1> DEFINE a == Append(lines, x)
<1>1. /\ Len(lines) \in Nat /\ DOMAIN lines = 1..Len(lines)
      /\ DOMAIN a = 1..(Len(lines) + 1)
      /\ \A i \in 1..Len(lines) : a[i] = lines[i]
      /\ a[Len(lines) + 1] = x
  BY AppendProperties, LenProperties
<1> HIDE DEF a
<1>2. DOMAIN a = DOMAIN lines \cup {Len(lines) + 1}
  BY <1>1
<1>3. Range(a) = Range(lines) \cup {x}
  BY <1>1, <1>2 DEF Range
<1>4. ASSUME IsInjective(lines), x \notin Range(lines)
      PROVE  IsInjective(a)
  BY <1>1, <1>2, <1>4 DEF IsInjective, Range
<1> QED
  BY <1>3, <1>4 DEF a

\* spoolReport: the report is on disk and still pending, or it is neither.
LEMMA SpoolCustody ==
    ASSUME TypeOK, NEW r \in Reports, NEW fates \in [Reports -> Fates],
           SpoolReport(r, fates), IsInjective(spool), r \notin Range(spool)
    PROVE  /\ IsInjective(spool')
           /\ \A x \in Reports \ {r} : /\ fate'[x] = fates[x]
                                       /\ x \in Range(spool') <=> x \in Range(spool)
           /\ fate'[r] = "pending" <=> r \in Range(spool')
           /\ Range(spool') \subseteq Range(spool) \cup {r}
<1>1. PICK o \in {"oversized", "pending", "unwritable"} :
          /\ fate' = [fates EXCEPT ![r] = o]
          /\ spool' = IF o = "pending" THEN Append(spool, r) ELSE spool
  BY DEF SpoolReport
<1>2. fate'[r] = o /\ \A x \in Reports \ {r} : fate'[x] = fates[x]
  BY <1>1
<1>3. CASE o = "pending"
  BY <1>1, <1>2, <1>3, AppendLine DEF TypeOK
<1>4. CASE o # "pending"
  BY <1>1, <1>2, <1>4
<1> QED
  BY <1>2, <1>3, <1>4

\* InQueue is what the queue says of reports.
LEMMA InQueueIds ==
    /\ InQueue = ReportIds(queue)
    /\ (\A i, j \in At("report") : queue[i].id = queue[j].id => i = j)
           <=> Distinct(queue)
BY DEF InQueue, ReportIds, At, Distinct

\* A push by the script thread: the evicted report moves to the file or is
\* lost, the others stay where they are.
LEMMA PushCustody ==
    ASSUME TypeOK, HeldOnce,
           NEW req \in Requests, NEW fates \in [Reports -> Fates],
           Push(req, fates),
           Carried(req) \cap (InQueue \cup InHand \cup Range(loaded) \cup Range(spool)) = {},
           \A r \in Reports :
               fates[r] = "pending" <=>
                   r \in InQueue \cup InHand \cup Range(loaded) \cup Range(spool)
                             \cup Carried(req),
           UNCHANGED workerVars
    PROVE  Accounted' /\ HeldOnce'
<1> DEFINE e == Evictee
           rest == IF e = 0 THEN queue ELSE RemoveAt(queue, e)
           out == IF e = 0 THEN {} ELSE Carried(queue[e])
<1>1. e \in 0..Len(queue) /\ Len(queue) \in Nat /\ DOMAIN queue = 1..Len(queue)
  BY EvicteeInQueue, LenProperties DEF TypeOK
<1>2. Distinct(queue) /\ InQueue = ReportIds(queue)
  BY InQueueIds DEF HeldOnce
<1>3. /\ rest \in Seq(Requests) /\ Distinct(rest)
      /\ ReportIds(rest) = ReportIds(queue) \ out
      /\ queue' = Append(rest, req)
      /\ out \subseteq ReportIds(queue)
  <2>1. CASE e = 0
    BY <1>2, <2>1 DEF Push, TypeOK
  <2>2. CASE e # 0
    <3>1. e \in DOMAIN queue
      BY <1>1, <2>2
    <3>2. Carried(queue[e]) \subseteq ReportIds(queue)
      BY <3>1 DEF Carried, ReportIds
    <3> QED
      BY <1>2, <2>2, <3>1, <3>2, RemoveIds DEF Push, TypeOK
  <2> QED
    BY <2>1, <2>2
<1>4. out \subseteq Reports
  <2>1. CASE e = 0
    BY <2>1
  <2>2. CASE e # 0
    <3>1. queue[e] \in Requests
      BY <1>1, <2>2, ElementOfSeq DEF TypeOK
    <3> QED
      BY <3>1 DEF Carried, Requests
  <2> QED
    BY <2>1, <2>2
<1>5. /\ \A x \in Reports \ out : fate'[x] = fates[x] /\ (x \in Range(spool') <=> x \in Range(spool))
      /\ \A x \in out : fate'[x] = "pending" <=> x \in Range(spool')
      /\ IsInjective(spool')
      /\ Range(spool') \subseteq Range(spool) \cup out
  <2>1. CASE e # 0 /\ queue[e].type = "report"
    <3>1. out = {queue[e].id} /\ queue[e].id \in Reports
      BY <1>4, <2>1 DEF Carried
    <3>2. SpoolReport(queue[e].id, fates)
      BY <2>1 DEF Push
    <3>3. IsInjective(spool) /\ queue[e].id \notin Range(spool)
      BY <1>2, <1>3, <3>1 DEF HeldOnce
    <3> HIDE DEF out
    <3> QED
      BY <3>1, <3>2, <3>3, SpoolCustody
  <2>2. CASE ~(e # 0 /\ queue[e].type = "report")
    <3>1. out = {} /\ fate' = fates /\ spool' = spool
      BY <2>2 DEF Push, Carried
    <3> QED
      BY <3>1 DEF HeldOnce
  <2> QED
    BY <2>1, <2>2
<1>6. out \cap (InHand \cup Range(loaded) \cup Range(spool)) = {}
  BY <1>2, <1>3 DEF HeldOnce
<1>7. /\ ReportIds(queue') = (ReportIds(queue) \ out) \cup Carried(req)
      /\ Distinct(queue')
  <2>1. ReportIds(rest) \cap Carried(req) = {}
    BY <1>2, <1>3
  <2> QED
    BY <1>3, <2>1, AppendIds
<1>8. InQueue' = ReportIds(queue') /\ InHand' = InHand /\ loaded' = loaded /\ wpc' = wpc
  BY InQueueIds DEF workerVars, InQueue, ReportIds, At, InHand
<1>9. Carried(req) \cap out = {} /\ Carried(req) \subseteq Reports
  BY <1>2, <1>3 DEF Carried, Requests
<1> HIDE DEF e, rest, out
<1>10. Accounted'
  <2> SUFFICES ASSUME NEW r \in Reports
               PROVE  fate'[r] = "pending" <=>
                         r \in ReportIds(queue') \cup InHand \cup Range(loaded) \cup Range(spool')
    BY <1>8 DEF Accounted
  <2>1. CASE r \in out
    BY <1>5, <1>6, <1>7, <1>9, <2>1
  <2>2. CASE r \notin out
    BY <1>2, <1>5, <1>7, <2>2
  <2> QED
    BY <2>1, <2>2
<1>11. HeldOnce'
  <2>1. \A i, j \in At("report")' : queue'[i].id = queue'[j].id => i = j
    BY <1>7 DEF Distinct, At
  <2>2. IsInjective(loaded')
    BY <1>8 DEF HeldOnce
  <2>3. InQueue' \cap InHand' = {}
    BY <1>2, <1>7, <1>8 DEF HeldOnce
  <2>4. (InQueue' \cup InHand') \cap (Range(loaded') \cup Range(spool')) = {}
    BY <1>2, <1>5, <1>6, <1>7, <1>8, <1>9 DEF HeldOnce
  <2>5. wpc' # "remove" => Range(loaded') \cap Range(spool') = {}
    BY <1>5, <1>6, <1>8 DEF HeldOnce
  <2> QED
    BY <1>5, <2>1, <2>2, <2>3, <2>4, <2>5 DEF HeldOnce
<1> QED
  BY <1>10, <1>11

\* The worker puts the report in its hand into the file.
LEMMA SpoolHand ==
    ASSUME TypeInv, Accounted, HeldOnce,
           wpc \in {"send", "replied"}, cur.type = "report",
           SpoolReport(cur.id, fate), Finish, UNCHANGED <<queue, loaded>>
    PROVE  Accounted' /\ HeldOnce'
<1>1. cur.id \in Reports /\ InHand = {cur.id} /\ fate \in [Reports -> Fates]
  BY HandType DEF InHand, TypeInv, TypeOK
<1>2. cur.id \notin Range(spool) /\ IsInjective(spool)
  BY <1>1 DEF HeldOnce
<1>3. /\ IsInjective(spool')
      /\ \A x \in Reports \ {cur.id} : /\ fate'[x] = fate[x]
                                       /\ x \in Range(spool') <=> x \in Range(spool)
      /\ fate'[cur.id] = "pending" <=> cur.id \in Range(spool')
      /\ Range(spool') \subseteq Range(spool) \cup {cur.id}
  BY <1>1, <1>2, SpoolCustody DEF TypeInv
<1>4. InQueue' = InQueue /\ InHand' = {} /\ At("report")' = At("report")
  BY DEF InQueue, At, InHand, Finish, NoRequest
<1>5. cur.id \notin InQueue \cup Range(loaded)
  BY <1>1 DEF HeldOnce
<1>6. Accounted'
  <2> SUFFICES ASSUME NEW r \in Reports
               PROVE  fate'[r] = "pending" <=>
                          r \in InQueue \cup Range(loaded) \cup Range(spool')
    BY <1>4 DEF Accounted
  <2> QED
    BY <1>1, <1>3, <1>5 DEF Accounted
<1>7. HeldOnce'
  <2>1. (InQueue' \cup InHand') \cap (Range(loaded') \cup Range(spool')) = {}
    BY <1>1, <1>3, <1>4, <1>5 DEF HeldOnce
  <2>2. Range(loaded') \cap Range(spool') = {}
    BY <1>3, <1>5 DEF HeldOnce
  <2> QED
    BY <1>3, <1>4, <2>1, <2>2 DEF HeldOnce
<1> QED
  BY <1>6, <1>7

\* Every step keeps each report in exactly one place.
LEMMA CustodyNext == TypeInv /\ CustodyInv /\ [Next]_vars => CustodyInv'
<1> SUFFICES ASSUME TypeInv, CustodyInv, [Next]_vars PROVE CustodyInv'
  OBVIOUS
<1> USE DEF CustodyInv
<1>a. loaded # <<>> => wpc \in {"remove", "push"}
  BY DEF TypeInv, Phases
<1>b. wpc \notin {"send", "replied", "text", "signal", "fail", "requeue"} => cur = NoRequest
  BY DEF TypeInv, Phases
\* Steps that move no report: the places and the fates stay.
<1>1. ASSUME UNCHANGED <<queue, loaded, reportVars>>,
             InHand' = InHand,
             wpc = "remove" => wpc' = "remove" \/ loaded = <<>>
      PROVE  Accounted' /\ HeldOnce'
  <2>1. InQueue' = InQueue /\ At("report")' = At("report")
    BY <1>1 DEF InQueue, At
  <2>2. Range(loaded') \cap Range(spool') = {} \/ wpc' = "remove"
    BY <1>1, <1>a DEF HeldOnce, reportVars, Range
  <2> QED
    BY <1>1, <2>1, <2>2 DEF Accounted, HeldOnce, reportVars
<1>2. CASE EnsureStarted
  <2>1. Accounted' /\ HeldOnce'
    BY <1>1, <1>2 DEF EnsureStarted, InHand
  <2> QED
    BY <1>2, <2>1 DEF EnsureStarted, scriptVars, lifeVars
<1>3. ASSUME NEW r \in Reports, ReportRace(r) PROVE CustodyInv'
  <2>1. /\ ReportReq(r) \in Requests /\ Carried(ReportReq(r)) = {r}
        /\ [fate EXCEPT ![r] = "pending"] \in [Reports -> Fates]
    BY DEF ReportReq, Requests, Carried, TypeInv, TypeOK, Fates
  <2>2. r \notin InQueue \cup InHand \cup Range(loaded) \cup Range(spool)
    BY <1>3 DEF ReportRace, Accounted
  <2>3. \A x \in Reports :
            [fate EXCEPT ![r] = "pending"][x] = "pending" <=>
                x \in InQueue \cup InHand \cup Range(loaded) \cup Range(spool) \cup {r}
    BY DEF TypeInv, TypeOK, Accounted
  <2>4. Accounted' /\ HeldOnce'
    <3> DEFINE req == ReportReq(r)
               fates == [fate EXCEPT ![r] = "pending"]
    <3>1. Push(req, fates) /\ UNCHANGED workerVars /\ TypeOK /\ HeldOnce
      BY <1>3 DEF ReportRace, TypeInv
    <3>2. /\ req \in Requests /\ Carried(req) = {r} /\ fates \in [Reports -> Fates]
          /\ \A x \in Reports :
                 fates[x] = "pending" <=>
                     x \in InQueue \cup InHand \cup Range(loaded) \cup Range(spool) \cup {r}
      BY <2>1, <2>3
    <3> HIDE DEF req, fates
    <3> QED
      BY <2>2, <3>1, <3>2, PushCustody
  <2> QED
    BY <1>3, <2>4 DEF ReportRace, scriptVars, workerVars, lifeVars
<1>4. ASSUME NEW c \in Chans, FetchBump(c) \/ Poll(c) \/ Forget(c) PROVE CustodyInv'
  <2>1. Accounted' /\ HeldOnce'
    BY <1>1, <1>4 DEF FetchBump, Poll, Forget, workerVars, InHand
  <2> QED
    BY <1>4, <2>1 DEF FetchBump, Poll, Forget, workerVars, lifeVars
<1>5. CASE FetchClear \/ ReadText
  <2>1. Accounted' /\ HeldOnce'
    BY <1>1, <1>5 DEF FetchClear, ReadText, workerVars, InHand
  <2> QED
    BY <1>5, <2>1 DEF FetchClear, ReadText, workerVars, lifeVars
<1>6. CASE FetchPush
  <2> DEFINE req == IF chan \in Slots THEN GetReq(chan, gen[chan])
                                      ELSE JoinReq(chan, gen[chan])
  <2>1. req \in Requests /\ Carried(req) = {}
    BY <1>6 DEF FetchPush, GetReq, JoinReq, Requests, TypeInv, TypeOK, Phases,
                Chans, Carried
  <2>2. Accounted' /\ HeldOnce'
    <3>1. Push(req, fate) /\ UNCHANGED workerVars
      BY <1>6 DEF FetchPush
    <3>2. fate \in [Reports -> Fates] /\ TypeOK
      BY DEF TypeInv, TypeOK
    <3> HIDE DEF req
    <3> QED
      BY <2>1, <3>1, <3>2, PushCustody DEF Accounted
  <2> QED
    BY <1>6, <2>2 DEF FetchPush, workerVars, lifeVars
<1>7. CASE Shutdown
  <2>1. Accounted' /\ HeldOnce'
    BY <1>1, <1>7 DEF Shutdown, workerVars, InHand
  <2> QED
    BY <1>7, <2>1 DEF Shutdown, workerVars
<1>8. CASE Exit
  <2>1. queue = <<>> /\ cur = NoRequest /\ loaded = <<>>
    BY <1>8, <1>a, <1>b DEF Exit, TypeInv, Phases
  <2>2. UNCHANGED <<queue, loaded, reportVars>> /\ InHand' = InHand
    BY <1>8, <2>1 DEF Exit, Wipe, InHand
  <2>3. Accounted' /\ HeldOnce'
    BY <1>1, <2>1, <2>2
  <2> QED
    BY <1>8, <2>3 DEF Exit, Wipe
<1>9. CASE LoadSpool
  <2>1. cur = NoRequest /\ loaded = <<>>
    BY <1>9, <1>a, <1>b DEF LoadSpool
  <2>2. /\ KeptLines \in Seq(Reports) /\ Range(KeptLines) \subseteq Range(spool)
        /\ IsInjective(KeptLines)
    <3> DEFINE n == IF Len(spool) < SpoolLoadMax THEN Len(spool) ELSE SpoolLoadMax
    <3>1. n \in Nat /\ n <= Len(spool) /\ Len(spool) \in Nat /\ DOMAIN spool = 1..Len(spool)
      BY RsApiAssumption, LenProperties DEF TypeInv, TypeOK
    <3>2. \A i \in 1..n : spool[i] \in Reports
      BY <3>1, ElementOfSeq DEF TypeInv, TypeOK
    <3>3. /\ SubSeq(spool, 1, n) \in Seq(Reports) /\ DOMAIN SubSeq(spool, 1, n) = 1..n
          /\ \A i \in 1..n : SubSeq(spool, 1, n)[i] = spool[i] /\ i \in DOMAIN spool
      BY <3>1, <3>2
    <3>4. KeptLines = SubSeq(spool, 1, n)
      BY DEF KeptLines
    <3>5. \A i \in DOMAIN KeptLines : i \in DOMAIN spool /\ KeptLines[i] = spool[i]
      BY <3>3, <3>4
    <3>6. KeptLines \in Seq(Reports)
      BY <3>3, <3>4
    <3> HIDE DEF n
    <3> QED
      BY <3>5, <3>6 DEF Range, IsInjective, HeldOnce
  <2>3. InQueue' = InQueue /\ At("report")' = At("report") /\ InHand' = {} /\ InHand = {}
    BY <1>9, <2>1 DEF LoadSpool, InQueue, At, InHand, NoRequest
  <2>4. Range(loaded) = {}
    BY <2>1 DEF Range
  <2>5. loaded' = loaded \/ (loaded' = KeptLines /\ wpc' = "remove")
    BY <1>9, Zenon DEF LoadSpool
  <2>6. UNCHANGED <<spool, fate, stop, spc>> /\ wpc' # "exited"
    BY <1>9 DEF LoadSpool, reportVars, lifeVars, scriptVars
  <2>7. Range(loaded') \subseteq Range(spool) /\ IsInjective(loaded')
    BY <2>2, <2>4, <2>5 DEF HeldOnce
  <2>8. Accounted'
    BY <2>3, <2>4, <2>6, <2>7 DEF Accounted
  <2>9. HeldOnce'
    <3>1. wpc' # "remove" => Range(loaded') = {}
      BY <2>4, <2>5
    <3>2. (InQueue' \cup InHand') \cap (Range(loaded') \cup Range(spool')) = {}
      BY <2>3, <2>6, <2>7 DEF HeldOnce
    <3>3. \A i, j \in At("report")' : queue'[i].id = queue'[j].id => i = j
      BY <1>9, <2>3 DEF HeldOnce, LoadSpool
    <3> QED
      BY <2>3, <2>6, <2>7, <3>1, <3>2, <3>3 DEF HeldOnce
  <2> QED
    BY <2>6, <2>8, <2>9
<1>10. CASE RemoveSpool
  <2>1. InQueue' = InQueue /\ At("report")' = At("report") /\ InHand' = InHand
    BY <1>10 DEF RemoveSpool, InQueue, At, InHand
  <2>2. Range(spool') = {} /\ IsInjective(spool') /\ loaded' = loaded /\ queue' = queue
    BY <1>10 DEF RemoveSpool, Range, IsInjective
  <2>3. \A r \in Reports : fate'[r] = IF r \in Range(spool) \ Range(loaded) THEN "removed"
                                      ELSE fate[r]
    BY <1>10 DEF RemoveSpool
  <2>4. Accounted'
    <3> SUFFICES ASSUME NEW r \in Reports
                 PROVE  fate'[r] = "pending" <=> r \in InQueue \cup InHand \cup Range(loaded)
      BY <2>1, <2>2 DEF Accounted
    <3>1. (InQueue \cup InHand) \cap Range(spool) = {}
      BY DEF HeldOnce
    <3> QED
      BY <2>3, <3>1 DEF Accounted
  <2>5. HeldOnce'
    BY <2>1, <2>2 DEF HeldOnce
  <2> QED
    BY <1>10, <2>4, <2>5 DEF RemoveSpool, lifeVars, scriptVars
<1>11. CASE PushLoaded
  <2>1. /\ wpc = "push" /\ cur = NoRequest /\ cur' = NoRequest
        /\ loaded \in Seq(Reports) /\ queue \in Seq(Requests)
    BY <1>11, <1>b DEF PushLoaded, TypeInv, TypeOK
  <2>2. InQueue = ReportIds(queue) /\ Distinct(queue)
    BY InQueueIds DEF HeldOnce
  <2>3. ReportIds(queue') = ReportIds(queue) \cup Range(loaded) /\ Distinct(queue')
    <3>1. IsInjective(loaded) /\ ReportIds(queue) \cap Range(loaded) = {}
      BY <2>2 DEF HeldOnce
    <3> QED
      BY <1>11, <2>1, <2>2, <3>1, LoadedIds DEF PushLoaded
  <2>4. /\ InQueue' = ReportIds(queue')
        /\ \A i, j \in At("report")' : queue'[i].id = queue'[j].id => i = j
    BY <2>3 DEF InQueue, ReportIds, At, Distinct
  <2>5. InHand = {} /\ InHand' = {} /\ Range(loaded') = {} /\ IsInjective(loaded')
    BY <1>11, <2>1 DEF PushLoaded, InHand, NoRequest, Range, IsInjective
  <2>6. spool' = spool /\ fate' = fate /\ stop' = stop /\ spc' = spc /\ wpc' = "wait"
    BY <1>11 DEF PushLoaded, reportVars, lifeVars, scriptVars
  <2>7. Accounted'
    BY <2>2, <2>3, <2>4, <2>5, <2>6 DEF Accounted
  <2>8. HeldOnce'
    BY <2>1, <2>2, <2>3, <2>4, <2>5, <2>6 DEF HeldOnce
  <2> QED
    BY <2>6, <2>7, <2>8
<1>12. CASE Take
  <2>1. /\ queue \in Seq(Requests) /\ queue # <<>> /\ cur = NoRequest
        /\ cur' = Head(queue) /\ queue' = Tail(queue) /\ wpc' = "send"
    BY <1>12, <1>b DEF Take, TypeInv, TypeOK
  <2>2. InQueue = ReportIds(queue) /\ Distinct(queue)
    BY InQueueIds DEF HeldOnce
  <2>3. /\ ReportIds(queue') = ReportIds(queue) \ InHand'
        /\ InHand' \subseteq ReportIds(queue) /\ Distinct(queue')
    <3>1. InHand' = Carried(Head(queue))
      BY <2>1 DEF InHand, Carried
    <3> QED
      BY <2>1, <2>2, <3>1, TailIds
  <2>4. /\ InQueue' = ReportIds(queue')
        /\ \A i, j \in At("report")' : queue'[i].id = queue'[j].id => i = j
    BY <2>3 DEF InQueue, ReportIds, At, Distinct
  <2>5. InHand = {} /\ UNCHANGED <<loaded, spool, fate, stop, spc>>
    BY <1>12, <2>1 DEF Take, InHand, NoRequest, reportVars, lifeVars, scriptVars
  <2>6. Accounted'
    BY <2>2, <2>3, <2>4, <2>5 DEF Accounted
  <2>7. HeldOnce'
    <3>1. Range(loaded) \cap Range(spool) = {}
      BY <1>12 DEF Take, HeldOnce
    <3> QED
      BY <2>1, <2>2, <2>3, <2>4, <2>5, <3>1 DEF HeldOnce
  <2> QED
    BY <2>1, <2>5, <2>6, <2>7
<1>13. CASE Return
  <2>1. Accounted' /\ HeldOnce'
    BY <1>1, <1>13 DEF Return, InHand
  <2> QED
    BY <1>13, <2>1 DEF Return, scriptVars, lifeVars
<1>14. CASE SkipDraining
  <2>1. Accounted' /\ HeldOnce'
    <3>1. CASE cur.type = "report"
      BY <1>14, <3>1, SpoolHand DEF SkipDraining
    <3>2. CASE cur.type # "report"
      <4>1. InHand' = InHand
        BY <1>14, <3>2 DEF SkipDraining, Finish, InHand, NoRequest
      <4> QED
        BY <1>1, <1>14, <3>2, <4>1 DEF SkipDraining, Finish, reportVars
    <3> QED
      BY <3>1, <3>2
  <2> QED
    BY <1>14, <2>1 DEF SkipDraining, Finish, scriptVars, lifeVars
<1>15. ASSUME NEW s \in Statuses, Send(s) PROVE CustodyInv'
  <2>1. Accounted' /\ HeldOnce'
    BY <1>1, <1>15 DEF Send, InHand
  <2> QED
    BY <1>15, <2>1 DEF Send, scriptVars, lifeVars
<1>16. CASE ReportAnswered
  <2>1. /\ cur.id \in Reports /\ InHand = {cur.id} /\ InHand' = {}
        /\ fate \in [Reports -> Fates]
        /\ UNCHANGED <<queue, loaded, spool, stop, spc>> /\ wpc' = "wait"
    BY <1>16, HandType DEF ReportAnswered, Finish, InHand, NoRequest, TypeInv,
                           TypeOK, scriptVars, lifeVars
  <2>2. InQueue' = InQueue /\ At("report")' = At("report")
    BY <2>1 DEF InQueue, At
  <2>3. fate'[cur.id] # "pending" /\ \A r \in Reports \ {cur.id} : fate'[r] = fate[r]
    BY <1>16, <2>1 DEF ReportAnswered
  <2>4. cur.id \notin InQueue \cup Range(loaded) \cup Range(spool)
    BY <2>1 DEF HeldOnce
  <2>5. Accounted'
    BY <2>1, <2>2, <2>3, <2>4 DEF Accounted
  <2>6. HeldOnce'
    <3>1. Range(loaded) \cap Range(spool) = {}
      BY <1>16 DEF ReportAnswered, HeldOnce
    <3> QED
      BY <2>1, <2>2, <3>1 DEF HeldOnce
  <2> QED
    BY <2>1, <2>5, <2>6
<1>17. CASE ReportDrained
  <2>1. Accounted' /\ HeldOnce'
    BY <1>17, SpoolHand DEF ReportDrained
  <2> QED
    BY <1>17, <2>1 DEF ReportDrained, Finish, scriptVars, lifeVars
<1>18. CASE ReportRetried \/ FetchLanded
  <2>1. Accounted' /\ HeldOnce'
    BY <1>1, <1>18 DEF ReportRetried, FetchLanded, InHand
  <2> QED
    BY <1>18, <2>1 DEF ReportRetried, FetchLanded, scriptVars, lifeVars
<1>19. CASE FetchStale \/ FetchRetried \/ StoreText \/ StoreResult
  <2>1. InHand' = InHand
    <3>1. CASE FetchStale
      BY <3>1 DEF FetchStale, Finish, InHand, NoRequest
    <3>2. CASE FetchRetried
      <4>1. cur'.type = cur.type
        BY <3>2, HandType DEF FetchRetried, Requests
      <4> QED
        BY <3>2, <4>1 DEF FetchRetried, InHand
    <3>3. CASE StoreText
      BY <3>3 DEF StoreText, InHand
    <3>4. CASE StoreResult
      <4>1. cur.type # "report"
        BY <3>4 DEF StoreResult, TypeInv, Phases
      <4> QED
        BY <3>4, <4>1 DEF StoreResult, Finish, InHand, NoRequest
    <3> QED
      BY <1>19, <3>1, <3>2, <3>3, <3>4
  <2>2. Accounted' /\ HeldOnce'
    BY <1>1, <1>19, <2>1 DEF FetchStale, FetchRetried, StoreText, StoreResult,
                             Finish, reportVars
  <2> QED
    BY <1>19, <2>2 DEF FetchStale, FetchRetried, StoreText, StoreResult, Finish,
                       scriptVars, lifeVars
<1>20. CASE Requeue
  <2>1. /\ queue \in Seq(Requests) /\ cur \in Requests /\ queue' = Append(queue, cur)
        /\ InHand = Carried(cur) /\ InHand' = {} /\ wpc' = "wait"
        /\ UNCHANGED <<loaded, spool, fate, stop, spc>>
    BY <1>20, HandType DEF Requeue, Finish, TypeInv, TypeOK, InHand, Carried,
                           NoRequest, reportVars, lifeVars, scriptVars
  <2>2. InQueue = ReportIds(queue) /\ Distinct(queue)
    BY InQueueIds DEF HeldOnce
  <2>3. ReportIds(queue') = ReportIds(queue) \cup InHand /\ Distinct(queue')
    <3>1. ReportIds(queue) \cap Carried(cur) = {}
      BY <2>1, <2>2 DEF HeldOnce
    <3> QED
      BY <2>1, <2>2, <3>1, AppendIds
  <2>4. /\ InQueue' = ReportIds(queue')
        /\ \A i, j \in At("report")' : queue'[i].id = queue'[j].id => i = j
    BY <2>3 DEF InQueue, ReportIds, At, Distinct
  <2>5. Accounted'
    BY <2>1, <2>2, <2>3, <2>4 DEF Accounted
  <2>6. HeldOnce'
    <3>1. Range(loaded) \cap Range(spool) = {}
      BY <1>20 DEF Requeue, HeldOnce
    <3> QED
      BY <2>1, <2>2, <2>3, <2>4, <3>1 DEF HeldOnce
  <2> QED
    BY <2>1, <2>5, <2>6
<1>21. CASE Crash
  <2>1. /\ queue' = <<>> /\ loaded' = <<>> /\ cur' = NoRequest /\ spool' = spool
        /\ wpc' = "none" /\ stop' = FALSE /\ spc' = "down"
    BY <1>21 DEF Crash, Wipe
  <2>2. InQueue' = {} /\ InHand' = {} /\ Range(loaded') = {} /\ At("report")' = {}
    BY <2>1 DEF InQueue, At, InHand, NoRequest, Range
  <2>3. \A r \in Reports :
            fate'[r] = IF r \in (InQueue \cup InHand \cup Range(loaded)) \ Range(spool)
                       THEN "crashed" ELSE fate[r]
    BY <1>21 DEF Crash
  <2>4. Accounted'
    <3> SUFFICES ASSUME NEW r \in Reports
                 PROVE  fate'[r] = "pending" <=> r \in Range(spool)
      BY <2>1, <2>2 DEF Accounted
    <3> QED
      BY <2>3 DEF Accounted
  <2>5. HeldOnce'
    BY <2>1, <2>2 DEF HeldOnce, IsInjective
  <2> QED
    BY <2>1, <2>4, <2>5
<1>22. CASE Boot
  <2>1. Accounted' /\ HeldOnce'
    BY <1>1, <1>22 DEF Boot, workerVars, InHand
  <2> QED
    BY <1>22, <2>1 DEF Boot, workerVars
<1>23. CASE UNCHANGED vars
  <2>1. Accounted' /\ HeldOnce'
    BY <1>1, <1>23 DEF vars, workerVars, InHand
  <2> QED
    BY <1>23, <2>1 DEF vars, workerVars, scriptVars, lifeVars
<1> QED
  BY <1>2, <1>3, <1>4, <1>5, <1>6, <1>7, <1>8, <1>9, <1>10, <1>11, <1>12,
     <1>13, <1>14, <1>15, <1>16, <1>17, <1>18, <1>19, <1>20, <1>21, <1>22, <1>23
     DEF Next, Script, Worker

\* A report is in exactly one place for good.
LEMMA CustodyAlways == Spec => []CustodyInv
<1>1. Init => CustodyInv
  <2> SUFFICES ASSUME Init PROVE CustodyInv
    OBVIOUS
  <2>1. InQueue = {} /\ InHand = {} /\ Range(loaded) = {} /\ Range(spool) = {}
        /\ At("report") = {}
    BY DEF Init, InQueue, At, InHand, NoRequest, Range
  <2>2. Accounted
    BY <2>1 DEF Init, Accounted
  <2>3. HeldOnce
    BY <2>1 DEF Init, HeldOnce, IsInjective
  <2> QED
    BY <2>2, <2>3 DEF Init, CustodyInv
<1> QED
  BY <1>1, TypeInit, TypeNext, CustodyNext, PTL DEF Spec

\* No report falls between the queue, the worker's hand, the loader and the
\* file, for any number of reports, any queue and loader limit, and any number
\* of crashes and boots: it is pending exactly while one of them holds it.
THEOREM EveryReportAccounted == Spec => []Accounted
<1>1. CustodyInv => Accounted
  BY DEF CustodyInv
<1> QED
  BY <1>1, CustodyAlways, PTL

\* The client never duplicates a report: eviction, the retry loop, the drain
\* and the loader move it, and none copies it.
THEOREM NoReportTwice == Spec => []HeldOnce
<1>1. CustodyInv => HeldOnce
  BY DEF CustodyInv
<1> QED
  BY <1>1, CustodyAlways, PTL

----------------------------------------------------------------------------
(* What the drain costs, and what makeRoomLocked evicts.                   *)

\* Every step keeps the account of what the drain costs.
LEMMA DrainNext == TypeInv /\ CustodyInv /\ DrainInv /\ [Next]_vars => DrainInv'
<1> SUFFICES ASSUME TypeInv, CustodyInv, DrainInv, [Next]_vars PROVE DrainInv'
  OBVIOUS
<1> USE DEF DrainInv
<1>a. /\ drainFails \in Nat /\ stop \in BOOLEAN /\ drainFailed \in BOOLEAN
      /\ stop <=> spc = "joining"
  BY DEF TypeInv, TypeOK, CustodyInv
\* Steps that leave the drain alone and keep a reply where it is, or take one.
<1>1. ASSUME UNCHANGED <<stop, drainFails, drainFailed>>,
             wpc' = "replied" => UNCHANGED <<wpc, cur>>
      PROVE  DrainInv'
  <2>1. CASE wpc' = "replied"
    BY <1>1, <2>1
  <2>2. CASE wpc' # "replied"
    BY <1>1, <1>a, <2>2
  <2> QED
    BY <2>1, <2>2
<1>2. CASE EnsureStarted \/ LoadSpool \/ RemoveSpool \/ PushLoaded \/ Take \/ Return
  BY <1>1, <1>2 DEF EnsureStarted, LoadSpool, RemoveSpool, PushLoaded, Take,
                    Return, lifeVars
<1>3. ASSUME NEW r \in Reports, ReportRace(r) PROVE DrainInv'
  BY <1>1, <1>3 DEF ReportRace, workerVars, lifeVars
<1>4. ASSUME NEW c \in Chans, FetchBump(c) \/ Poll(c) \/ Forget(c) PROVE DrainInv'
  BY <1>1, <1>4 DEF FetchBump, Poll, Forget, workerVars, lifeVars
<1>5. CASE FetchClear \/ FetchPush \/ ReadText \/ Boot
  BY <1>1, <1>5 DEF FetchClear, FetchPush, ReadText, Boot, workerVars, lifeVars
<1>6. CASE Shutdown
  BY <1>6, <1>a DEF Shutdown, workerVars
<1>7. CASE Exit \/ Crash
  BY <1>7 DEF Exit, Crash, Wipe
<1>8. CASE SkipDraining \/ ReportAnswered \/ ReportRetried \/ StoreText \/ StoreResult \/ Requeue
  BY <1>1, <1>8 DEF SkipDraining, ReportAnswered, ReportRetried, StoreText,
                    StoreResult, Requeue, Finish, lifeVars
<1>9. ASSUME NEW s \in Statuses, Send(s) PROVE DrainInv'
  <2>1. /\ UNCHANGED <<stop, drainFails, drainFailed, cur>>
        /\ stop => cur.type = "report" /\ ~drainFailed
        /\ wpc = "send" /\ wpc' = "replied"
    BY <1>9 DEF Send, lifeVars
  <2> QED
    BY <1>a, <2>1
<1>10. CASE ReportDrained
  <2>1. /\ stop /\ stop' = stop /\ drainFailed' = TRUE /\ drainFails' = drainFails + 1
        /\ wpc = "replied" /\ cur.type = "report" /\ wpc' = "wait"
    BY <1>10 DEF ReportDrained, Finish, lifeVars
  <2> QED
    BY <1>a, <2>1
<1>11. CASE FetchStale \/ FetchLanded \/ FetchRetried
  <2>1. /\ UNCHANGED <<stop, drainFailed>> /\ wpc = "replied" /\ cur.type # "report"
        /\ wpc' # "replied"
        /\ drainFails' = drainFails + (IF stop /\ status = "transient" THEN 1 ELSE 0)
    BY <1>11 DEF FetchStale, FetchLanded, FetchRetried, Finish, CountDrain, lifeVars
  <2> QED
    BY <1>a, <2>1
<1>12. CASE UNCHANGED vars
  BY <1>1, <1>12 DEF vars, workerVars, lifeVars
<1> QED
  BY <1>2, <1>3, <1>4, <1>5, <1>6, <1>7, <1>8, <1>9, <1>10, <1>11, <1>12
     DEF Next, Script, Worker

\* A dead API costs the shutdown at most two failed exchanges - the drain's one
\* report and the fetch in flight when stop was set - however much is queued.
THEOREM DrainCostsTwo == Spec => []DrainCost
<1>1. Init => DrainInv
  BY DEF Init, DrainInv
<1>2. TypeInv /\ DrainInv => DrainCost
  BY DEF TypeInv, TypeOK, DrainInv, DrainCost
<1> QED
  BY <1>1, <1>2, TypeInit, TypeNext, DrainNext, CustodyAlways, PTL DEF Spec

\* After an eviction only the evicted request's name is gone from the queue.
LEMMA EvictedOnly ==
    ASSUME NEW q \in Seq(Requests), NEW e \in DOMAIN q, NEW req \in Requests,
           NEW type, NEW x \in Ids(q, type) \ Ids(Append(RemoveAt(q, e), req), type)
    PROVE  q[e].type = type
<1> DEFINE b == RemoveAt(q, e)
           a == Append(b, req)
<1>1. PICK i \in DOMAIN q : q[i].type = type /\ q[i].id = x
  BY DEF Ids
<1>2. Len(q) \in Nat /\ DOMAIN q = 1..Len(q)
  BY LenProperties
<1>3. /\ b \in Seq(Requests) /\ Len(b) = Len(q) - 1
      /\ \A k \in 1..(Len(q) - 1) : b[k] = IF k < e THEN q[k] ELSE q[k+1]
  BY RemoveAtProperties
<1> HIDE DEF b
<1>4. DOMAIN a = 1..Len(q) /\ \A k \in 1..(Len(q) - 1) : a[k] = b[k]
  <2>1. Append(b, req) \in Seq(Requests) /\ Len(Append(b, req)) = Len(q)
    <3>1. Append(b, req) \in Seq(Requests) /\ Len(Append(b, req)) = Len(b) + 1
      BY <1>3, AppendProperties
    <3> QED
      BY <1>2, <1>3, <3>1
  <2>2. DOMAIN Append(b, req) = 1..Len(q)
    BY <2>1, LenProperties
  <2>3. \A k \in 1..Len(b) : Append(b, req)[k] = b[k]
    BY <1>3, AppendProperties
  <2> QED
    BY <1>3, <2>2, <2>3
<1> HIDE DEF a
<1>5. CASE i < e
  <2>1. i \in DOMAIN a /\ a[i] = q[i]
    BY <1>2, <1>3, <1>4, <1>5
  <2> QED
    BY <1>1, <2>1 DEF Ids, a, b
<1>6. CASE i > e
  <2>1. i - 1 \in DOMAIN a /\ a[i-1] = q[i]
    BY <1>2, <1>3, <1>4, <1>6
  <2> QED
    BY <1>1, <2>1 DEF Ids, a, b
<1> QED
  BY <1>1, <1>2, <1>5, <1>6

\* A push into a full queue evicts by the ladder.
LEMMA PushEvictsInOrder ==
    ASSUME TypeOK, NEW req \in Requests, NEW fates, Push(req, fates)
    PROVE  EvictsInOrder
<1> SUFFICES ASSUME Len(queue') = Len(queue)
             PROVE  /\ Gone("report") # {} => At("get") = {}
                    /\ Gone("join") # {} => At("get") = {} /\ At("report") = {}
  BY DEF EvictsInOrder
<1>1. Len(queue) \in Nat /\ DOMAIN queue = 1..Len(queue)
  BY LenProperties DEF TypeOK
<1>2. Evictee # 0
  <2> SUFFICES ASSUME Evictee = 0 PROVE FALSE
    OBVIOUS
  <2>1. Len(queue') = Len(queue) + 1
    BY AppendProperties DEF Push, TypeOK
  <2> QED
    BY <1>1, <2>1
<1>3. Evictee \in DOMAIN queue
  BY <1>1, <1>2, EvicteeInQueue
<1>4. \A type : Gone(type) # {} => queue[Evictee].type = type
  <2> SUFFICES ASSUME NEW type, NEW x \in Gone(type)
               PROVE  queue[Evictee].type = type
    OBVIOUS
  <2>1. queue' = Append(RemoveAt(queue, Evictee), req)
    BY <1>2 DEF Push
  <2> QED
    BY <1>3, <2>1, EvictedOnly DEF Gone, TypeOK
<1>5. ASSUME NEW type, At(type) # {}
      PROVE  queue[First(At(type))].type = type
  <2>1. At(type) \in SUBSET Nat
    BY <1>1 DEF At
  <2>2. First(At(type)) \in At(type)
    BY <1>5, <2>1, FirstExists
  <2> QED
    BY <2>2 DEF At
<1>6. At("get") # {} => queue[Evictee].type = "get"
  BY <1>2, <1>5 DEF Evictee
<1>7. At("get") = {} /\ At("report") # {} => queue[Evictee].type = "report"
  BY <1>2, <1>5 DEF Evictee
<1> QED
  BY <1>4, <1>6, <1>7

\* makeRoomLocked sacrifices what is cheapest: a queued report survives as long
\* as a fetch could go instead, and a tournament join as long as anything could.
THEOREM ReportsOutliveFetches == Spec => EvictionLadder
<1>1. TypeInv /\ [Next]_vars => [EvictsInOrder]_vars
  <2> SUFFICES ASSUME TypeInv, Next PROVE EvictsInOrder
    OBVIOUS
  <2>1. Len(queue) \in Nat /\ queue \in Seq(Requests)
    BY LenProperties DEF TypeInv, TypeOK
  <2>2. ASSUME queue' = queue \/ spc' = "down" PROVE EvictsInOrder
    BY <2>2 DEF EvictsInOrder
  <2>3. ASSUME NEW r \in Reports, ReportRace(r) PROVE EvictsInOrder
    <3>1. ReportReq(r) \in Requests
      BY DEF ReportReq, Requests
    <3> QED
      BY <2>3, <3>1, PushEvictsInOrder DEF ReportRace, TypeInv
  <2>4. CASE FetchPush
    <3>1. (IF chan \in Slots THEN GetReq(chan, gen[chan]) ELSE JoinReq(chan, gen[chan]))
              \in Requests
      BY <2>4 DEF FetchPush, GetReq, JoinReq, Requests, TypeInv, TypeOK, Phases, Chans
    <3> QED
      BY <2>4, <3>1, PushEvictsInOrder DEF FetchPush, TypeInv
  <2>5. CASE PushLoaded
    <3> DEFINE new == [i \in DOMAIN loaded |-> ReportReq(loaded[i])]
    <3>1. /\ new \in Seq(Requests) /\ Len(new) = Len(loaded) /\ Len(loaded) \in Nat
      <4>1. DOMAIN loaded = 1..Len(loaded) /\ Len(loaded) \in Nat
        BY LenProperties DEF TypeInv, TypeOK
      <4>2. \A i \in 1..Len(loaded) : ReportReq(loaded[i]) \in Requests
        BY <4>1, ElementOfSeq DEF TypeInv, TypeOK, ReportReq, Requests
      <4> QED
        BY <4>1, <4>2
    <3>2. queue' = queue \o new
      BY <2>5 DEF PushLoaded
    <3> HIDE DEF new
    <3>3. Len(queue') = Len(queue) + Len(new)
      BY <2>1, <3>1, <3>2, ConcatProperties
    <3>4. CASE Len(new) = 0
      <4>1. new = <<>>
        BY <3>1, <3>4, EmptySeq
      <4>2. queue' = queue
        BY <2>1, <3>2, <4>1, ConcatEmptySeq
      <4> QED
        BY <2>2, <4>2
    <3>5. CASE Len(new) # 0
      BY <2>1, <3>1, <3>3, <3>5 DEF EvictsInOrder
    <3> QED
      BY <3>4, <3>5
  <2>6. CASE Take
    <3>1. Len(queue') = Len(queue) - 1
      BY <2>1, <2>6, HeadTailProperties DEF Take
    <3> QED
      BY <2>1, <3>1 DEF EvictsInOrder
  <2>7. CASE Requeue
    <3>1. cur \in Requests
      BY <2>7, HandType DEF Requeue
    <3>2. Len(queue') = Len(queue) + 1
      BY <2>1, <2>7, <3>1, AppendProperties DEF Requeue
    <3> QED
      BY <2>1, <3>2 DEF EvictsInOrder
  <2>8. CASE Exit \/ Crash
    BY <2>2, <2>8 DEF Exit, Crash, Wipe
  <2>9. ASSUME NEW c \in Chans, FetchBump(c) \/ Poll(c) \/ Forget(c) PROVE EvictsInOrder
    BY <2>2, <2>9 DEF FetchBump, Poll, Forget
  <2>10. CASE EnsureStarted \/ FetchClear \/ ReadText \/ Shutdown \/ Boot
    BY <2>2, <2>10 DEF EnsureStarted, FetchClear, ReadText, Shutdown, Boot
  <2>11. CASE LoadSpool \/ RemoveSpool \/ Return \/ SkipDraining
    BY <2>2, <2>11 DEF LoadSpool, RemoveSpool, Return, SkipDraining
  <2>12. ASSUME NEW s \in Statuses, Send(s) PROVE EvictsInOrder
    BY <2>2, <2>12 DEF Send
  <2>13. CASE ReportAnswered \/ ReportDrained \/ ReportRetried
    BY <2>2, <2>13 DEF ReportAnswered, ReportDrained, ReportRetried
  <2>14. CASE FetchStale \/ FetchLanded \/ FetchRetried \/ StoreText \/ StoreResult
    BY <2>2, <2>14 DEF FetchStale, FetchLanded, FetchRetried, StoreText, StoreResult
  <2> QED
    BY <2>3, <2>4, <2>5, <2>6, <2>7, <2>8, <2>9, <2>10, <2>11, <2>12, <2>13,
       <2>14 DEF Next, Script, Worker
<1> QED
  BY <1>1, TypeInit, TypeNext, PTL DEF Spec, EvictionLadder

----------------------------------------------------------------------------
(* What a client with room loses: nothing.                                 *)

\* makeRoomLocked has no call to evict, loadSpool reads every line there is,
\* and the process has not crashed.
Room == Len(queue) < QueueMax /\ Len(spool) <= SpoolLoadMax /\ crashes = 0

\* Every line on disk is in the loader's hands before the file is removed.
RoomInv == NothingLost /\ (wpc = "remove" => Range(spool) \subseteq Range(loaded))

\* spoolReport never fails on a report that fits, if the file can be opened.
LEMMA SpoolKeeps ==
    ASSUME ~SpoolCanFail, Oversized = {}, NEW r \in Reports, NEW fates \in [Reports -> Fates],
           SpoolReport(r, fates), \A x \in Reports : fates[x] \notin Lost
    PROVE  \A x \in Reports : fate'[x] \notin Lost
<1>1. fate' = [fates EXCEPT ![r] = "pending"]
  BY DEF SpoolReport
<1> QED
  BY <1>1 DEF Lost

\* With room, every step keeps what is reported.
LEMMA RoomNext ==
    ASSUME ~SpoolCanFail, Oversized = {}
    PROVE  TypeInv /\ RoomInv /\ Room /\ Room' /\ [Next]_vars => RoomInv'
<1> SUFFICES ASSUME TypeInv, RoomInv, Room, Room', [Next]_vars PROVE RoomInv'
  OBVIOUS
<1>a. /\ fate \in [Reports -> Fates] /\ spool \in Seq(Reports)
      /\ \A r \in Reports : fate[r] \notin Lost
  BY DEF TypeInv, TypeOK, RoomInv, NothingLost
\* Steps that leave the reports and the file alone, and do not begin to load.
<1>1. ASSUME UNCHANGED <<fate, spool>>, wpc' = "remove" => UNCHANGED <<wpc, loaded>>
      PROVE  RoomInv'
  BY <1>1 DEF RoomInv, NothingLost
<1>2. CASE EnsureStarted \/ PushLoaded \/ Take \/ Return
  BY <1>1, <1>2 DEF EnsureStarted, PushLoaded, Take, Return, reportVars
<1>3. ASSUME NEW r \in Reports, ReportRace(r) PROVE RoomInv'
  <2>1. Evictee = 0
    BY DEF Evictee, Room
  <2>2. fate' = [fate EXCEPT ![r] = "pending"] /\ spool' = spool /\ UNCHANGED <<wpc, loaded>>
    BY <1>3, <2>1 DEF ReportRace, Push, workerVars
  <2> QED
    BY <1>a, <2>2 DEF RoomInv, NothingLost, Lost
<1>4. ASSUME NEW c \in Chans, FetchBump(c) \/ Poll(c) \/ Forget(c) PROVE RoomInv'
  BY <1>1, <1>4 DEF FetchBump, Poll, Forget, workerVars, reportVars
<1>5. CASE FetchPush
  <2>1. Evictee = 0
    BY DEF Evictee, Room
  <2> QED
    BY <1>1, <1>5, <2>1 DEF FetchPush, Push, workerVars
<1>6. CASE FetchClear \/ ReadText \/ Boot \/ Shutdown
  BY <1>1, <1>6 DEF FetchClear, ReadText, Boot, Shutdown, workerVars, reportVars
<1>7. CASE Exit
  BY <1>1, <1>7 DEF Exit, Wipe, reportVars
<1>8. CASE Crash
  <2>1. crashes' = 1
    BY <1>8 DEF Crash, Room
  <2> QED
    BY <2>1 DEF Room
<1>9. CASE LoadSpool
  <2>1. CASE spool = <<>>
    BY <1>1, <1>9, <2>1 DEF LoadSpool, reportVars
  <2>2. CASE spool # <<>>
    <3>1. KeptLines = spool
      <4>1. Len(spool) \in Nat /\ Len(spool) <= SpoolLoadMax /\ SpoolLoadMax \in Nat
        BY <1>a, LenProperties, RsApiAssumption DEF Room, RsApiAssumption
      <4>2. KeptLines = SubSeq(spool, 1, Len(spool))
        BY <4>1 DEF KeptLines
      <4> QED
        BY <1>a, <4>2
    <3> QED
      BY <1>9, <2>2, <3>1 DEF LoadSpool, reportVars, RoomInv, NothingLost
  <2> QED
    BY <2>1, <2>2
<1>10. CASE RemoveSpool
  <2>1. Range(spool) \ Range(loaded) = {}
    BY <1>10 DEF RemoveSpool, RoomInv
  <2>2. \A r \in Reports : fate'[r] = fate[r]
    BY <1>10, <2>1 DEF RemoveSpool
  <2> QED
    BY <1>10, <1>a, <2>2 DEF RemoveSpool, RoomInv, NothingLost
<1>11. CASE SkipDraining
  <2>1. wpc' = "wait"
    BY <1>11 DEF SkipDraining, Finish
  <2>2. CASE fate' = fate
    BY <1>a, <2>1, <2>2 DEF RoomInv, NothingLost
  <2>3. CASE cur.type = "report" /\ SpoolReport(cur.id, fate)
    <3>1. cur.id \in Reports
      BY <1>11, <2>3, HandType DEF SkipDraining
    <3>2. \A x \in Reports : fate'[x] \notin Lost
      BY <1>a, <2>3, <3>1, SpoolKeeps
    <3> QED
      BY <2>1, <3>2 DEF RoomInv, NothingLost
  <2> QED
    BY <1>11, <2>2, <2>3 DEF SkipDraining
<1>12. CASE ReportDrained
  <2>1. wpc' = "wait" /\ cur.id \in Reports /\ SpoolReport(cur.id, fate)
    BY <1>12, HandType DEF ReportDrained, Finish
  <2>2. \A x \in Reports : fate'[x] \notin Lost
    BY <1>a, <2>1, SpoolKeeps
  <2> QED
    BY <2>1, <2>2 DEF RoomInv, NothingLost
<1>13. CASE ReportAnswered
  <2>1. /\ fate' = [fate EXCEPT ![cur.id] = IF status = "ok" THEN "delivered" ELSE "rejected"]
        /\ wpc' = "wait" /\ cur.id \in Reports
    BY <1>13, HandType DEF ReportAnswered, Finish
  <2> QED
    BY <1>a, <2>1 DEF RoomInv, NothingLost, Lost
<1>14. CASE ReportRetried \/ FetchStale \/ FetchLanded \/ FetchRetried \/ StoreText \/ StoreResult
  BY <1>1, <1>14 DEF ReportRetried, FetchStale, FetchLanded, FetchRetried, StoreText, StoreResult,
                     Finish, reportVars
<1>15. CASE Requeue
  BY <1>1, <1>15 DEF Requeue, Finish, reportVars
<1>16. ASSUME NEW s \in Statuses, Send(s) PROVE RoomInv'
  BY <1>1, <1>16 DEF Send, reportVars
<1>17. CASE UNCHANGED vars
  BY <1>1, <1>17 DEF vars, workerVars, reportVars
<1> QED
  BY <1>2, <1>3, <1>4, <1>5, <1>6, <1>7, <1>8, <1>9, <1>10, <1>11, <1>12, <1>13, <1>14, <1>15,
     <1>16, <1>17
     DEF Next, Script, Worker

\* A graceful stop and the next boot lose no report, for any number of reports,
\* slots, stops and boots and however often the API fails, as long as the queue
\* does not fill up, the file holds no more lines than loadSpool reads, and the
\* process does not crash: the drain leaves what it cannot deliver on disk, and
\* the loader has all of it in memory before it removes the file.
THEOREM NothingLostWithRoom ==
    ASSUME ~SpoolCanFail, Oversized = {}
    PROVE  Spec /\ []Room => []NothingLost
<1>1. Init => RoomInv
  BY DEF Init, RoomInv, NothingLost, Lost
<1>2. RoomInv => NothingLost
  BY DEF RoomInv
<1>3. TypeInv /\ RoomInv /\ Room /\ Room' /\ [Next]_vars => RoomInv'
  BY RoomNext
<1> QED
  BY <1>1, <1>2, <1>3, TypeInit, TypeNext, PTL DEF Spec
=============================================================================
