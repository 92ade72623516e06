------------------------------- MODULE RsApi -------------------------------
(***************************************************************************)
(* The game server's asynchronous stats client: the native request queue,  *)
(* its one worker thread, the on-disk spool of undeliverable reports and   *)
(* the per-player fetch handshake with the gametype's script thread        *)
(* (server/enginepatches/g_rs_api.cpp, with the pollers of                 *)
(* hrace/playerrecord.as and hrace/tournament.as).                         *)
(*                                                                         *)
(* Two threads run concurrently.  The script thread queues race reports,   *)
(* issues and polls per-slot fetches, and finally sets `stop' and joins    *)
(* the worker.  The worker loads the spool, then takes requests from the   *)
(* front of the queue, talks to the web API and publishes the answers.     *)
(* Every lock region, atomic operation and network exchange is one step.   *)
(* The network and the API are an environment that may answer anything.    *)
(***************************************************************************)
EXTENDS Integers, Sequences, FiniteSets, SequencesExt

CONSTANTS
    Reports,        \* finished races (or attempt flushes), each reported once
    Oversized,      \* the reports too long for a spool line (SPOOL_LINE_MAX)
    Slots,          \* player slots of a per-player GET (REQ_GET_PLAYERREC)
    Joins,          \* player slots of the tournament join POST (REQ_POST_TJOIN)
    QueueMax,       \* QUEUE_MAX
    SpoolLoadMax,   \* SPOOL_LOAD_MAX
    MaxAttempts,    \* MAX_ATTEMPTS, for fetches only
    SpoolCanFail,   \* whether opening the spool file may fail
    MaxGen,         \* bound: fetches issued per channel and boot
    MaxCrashes,     \* bound: crashes of the game process
    MaxBoots        \* bound: starts of the game process

ASSUME RsApiAssumption ==
    /\ QueueMax \in Nat \ {0}
    /\ SpoolLoadMax \in Nat
    /\ MaxAttempts \in Nat \ {0}
    /\ MaxGen \in Nat
    /\ MaxCrashes \in Nat
    /\ MaxBoots \in Nat
    /\ SpoolCanFail \in BOOLEAN
    /\ Oversized \subseteq Reports
    /\ Slots \cap Joins = {}
    /\ Reports \cap (Slots \cup Joins) = {}

\* The channels of the fetch handshake: one generation, result and text each.
Chans == Slots \cup Joins

VARIABLES
    queue,      \* s->queue, guarded by s->mutex
    stop,       \* s->stop
    gen,        \* fetch*Gen[slot]
    result,     \* fetch*Result[slot]
    text,       \* *Text[slot]: the generation whose payload it holds, 0 = none
    wpc,        \* where the worker thread is
    cur,        \* the worker's local request
    status,     \* the worker's local HTTP status, classified
    loaded,     \* the reports loadSpool has read and not yet queued
    drainFailed,\* stopDrainFailed
    spool,      \* pending-reports.log, which outlives the process
    spc,        \* where the script thread is
    chan,       \* the channel of the script thread's call in progress
    pending,    \* pendingRecordFetch / pendingTourneyJoin of the slot's player
    crashes, boots,
    fate,       \* history: what became of every report
    answers,    \* history: the generation whose outcome result[c] is
    raced,      \* history: result[c] was cleared in the worker's store window
    drainFails  \* history: network failures the worker met after stop

scriptVars == <<spc, chan, pending, gen>>
workerVars == <<wpc, cur, status, loaded, drainFailed>>
shareVars  == <<result, text, answers, raced>>
reportVars == <<spool, fate>>
lifeVars   == <<stop, crashes, boots>>
vars == <<queue, scriptVars, workerVars, shareVars, reportVars, lifeVars,
          drainFails>>

BareLine(r) == [type |-> "report", id |-> r]

\* ApiRequest: a report carries no generation, a fetch no body.
ReportReq(r)   == [type |-> "report", id |-> r, gen |-> 0, attempts |-> 0]
GetReq(c, g)   == [type |-> "get",    id |-> c, gen |-> g, attempts |-> 0]
JoinReq(c, g)  == [type |-> "join",   id |-> c, gen |-> g, attempts |-> 0]
Requests ==
    [type : {"report"}, id : Reports, gen : {0}, attempts : {0}]
        \cup [type : {"get"},  id : Slots, gen : Nat, attempts : Nat]
        \cup [type : {"join"}, id : Joins, gen : Nat, attempts : {0}]
NoRequest == [type |-> "none"]

\* What can have become of a report: still the client's business, answered by
\* the API, or lost at one of the four places the code can lose it.
Lost  == {"oversized", "unwritable", "removed", "crashed"}
Fates == {"unissued", "pending", "delivered", "rejected"} \cup Lost

\* `new ApiState()' and fresh players.
Init == /\ queue = <<>>
        /\ stop = FALSE
        /\ gen = [c \in Chans |-> 0]
        /\ result = [c \in Chans |-> 0]
        /\ text = [c \in Chans |-> 0]
        /\ wpc = "none"
        /\ cur = NoRequest
        /\ status = "none"
        /\ loaded = <<>>
        /\ drainFailed = FALSE
        /\ chan = "none"
        /\ pending = [c \in Chans |-> FALSE]
        /\ answers = [c \in Chans |-> 0]
        /\ raced = [c \in Chans |-> FALSE]
        /\ drainFails = 0
        /\ spool = <<>>
        /\ spc = "idle"
        /\ crashes = 0
        /\ boots = 1
        /\ fate = [r \in Reports |-> "unissued"]

----------------------------------------------------------------------------
(* The spool and the bounded queue.                                        *)

\* spoolReport: append the report to the file.  An oversized one is refused,
\* and one that meets an unopenable file is lost.  `fates' is the fate
\* function the append starts from.
SpoolReport(r, fates) ==
    \E o \in IF r \in Oversized THEN {"oversized"}
             ELSE {"pending"} \cup (IF SpoolCanFail THEN {"unwritable"} ELSE {}) :
        /\ fate' = [fates EXCEPT ![r] = o]
        /\ spool' = IF o = "pending" THEN Append(spool, r) ELSE spool

At(type) == {i \in DOMAIN queue : queue[i].type = type}
First(S) == CHOOSE i \in S : \A j \in S : i <= j

EvictFront      == IF Len(queue) < QueueMax THEN 0 ELSE 1
EvictOneTooLate ==
    IF Len(queue) <= QueueMax \/ At("get") \cup At("report") = {} THEN 0
    ELSE First(At("get") \cup At("report"))

\* makeRoomLocked's ladder: the oldest fetch, else the oldest report, else
\* (nothing but joins) the front.  0 when there is room.
Evictee ==
    IF Len(queue) < QueueMax THEN 0
    ELSE IF At("get") # {} THEN First(At("get"))
    ELSE IF At("report") # {} THEN First(At("report"))
    ELSE 1

DropWithoutSpool(req, fates) ==
    /\ queue' = Append(IF Evictee = 0 THEN queue ELSE RemoveAt(queue, Evictee), req)
    /\ fate' = fates /\ spool' = spool

\* makeRoomLocked and push_back, under s->mutex.
Push(req, fates) ==
    LET i == Evictee IN
    /\ queue' = Append(IF i = 0 THEN queue ELSE RemoveAt(queue, i), req)
    /\ IF i # 0 /\ queue[i].type = "report"
       THEN SpoolReport(queue[i].id, fates)
       ELSE fate' = fates /\ spool' = spool

----------------------------------------------------------------------------
(* The script thread.                                                      *)

\* ensureStarted: the first call into the API starts the worker.
EnsureStarted ==
    /\ spc = "idle" /\ wpc = "none"
    /\ wpc' = "load"
    /\ UNCHANGED <<queue, scriptVars, cur, status, loaded, drainFailed,
                   shareVars, reportVars, lifeVars, drainFails>>

\* rsQueuePost, reached from RS_ApiReportRace and its siblings.
ReportRace(r) ==
    /\ spc = "idle" /\ wpc # "none"
    /\ fate[r] = "unissued"
    /\ Push(ReportReq(r), [fate EXCEPT ![r] = "pending"])
    /\ UNCHANGED <<scriptVars, workerVars, shareVars, lifeVars, drainFails>>

\* RS_ApiFetchPlayerRecord / RS_ApiTourneyJoin, first atomic: the caller has
\* set its pending flag, the generation is bumped.  A join is refused while
\* one is pending (Cmd_Tourney); a record fetch is not.
FetchBump(c) ==
    /\ spc = "idle" /\ wpc # "none"
    /\ gen[c] < MaxGen
    /\ c \in Joins => ~pending[c]
    /\ pending' = [pending EXCEPT ![c] = TRUE]
    /\ gen' = [gen EXCEPT ![c] = @ + 1]
    /\ spc' = "clear" /\ chan' = c
    /\ UNCHANGED <<queue, workerVars, shareVars, reportVars, lifeVars, drainFails>>

\* The worker has found generation g of channel c current and will store its
\* outcome without looking again.
InStoreWindow(c) == wpc \in {"text", "signal", "fail"} /\ cur.id = c

FetchKeepsResult ==
    /\ spc = "clear"
    /\ raced' = [raced EXCEPT ![chan] = InStoreWindow(chan)]
    /\ spc' = "push"
    /\ UNCHANGED <<queue, chan, pending, gen, workerVars, result, answers, text,
                   reportVars, lifeVars, drainFails>>

\* ... second atomic: the stale result is cleared.
FetchClear ==
    /\ spc = "clear"
    /\ result' = [result EXCEPT ![chan] = 0]
    /\ answers' = [answers EXCEPT ![chan] = 0]
    /\ raced' = [raced EXCEPT ![chan] = InStoreWindow(chan)]
    /\ spc' = "push"
    /\ UNCHANGED <<queue, chan, pending, gen, workerVars, text, reportVars,
                   lifeVars, drainFails>>

\* ... and the request is queued with the generation it was issued under.
FetchPush ==
    /\ spc = "push"
    /\ Push(IF chan \in Slots THEN GetReq(chan, gen[chan])
                              ELSE JoinReq(chan, gen[chan]), fate)
    /\ spc' = "idle" /\ chan' = "none"
    /\ UNCHANGED <<pending, gen, workerVars, shareVars, lifeVars, drainFails>>

\* The think poller on a slot with a pending fetch: exchange(0); -1 ends the
\* wait at once, 1 goes on to read the text.
Poll(c) ==
    /\ spc = "idle"
    /\ pending[c] /\ result[c] # 0
    /\ result' = [result EXCEPT ![c] = 0]
    /\ answers' = [answers EXCEPT ![c] = 0]
    /\ \/ result[c] = 1 /\ spc' = "read" /\ chan' = c /\ pending' = pending
       \/ /\ result[c] = -1
          /\ pending' = [pending EXCEPT ![c] = FALSE]
          /\ UNCHANGED <<spc, chan>>
    /\ UNCHANGED <<queue, gen, workerVars, text, raced, reportVars, lifeVars,
                   drainFails>>

\* RS_PlayerRecordText / RS_TourneyJoinText, applied to the slot's player.
ReadText ==
    /\ spc = "read"
    /\ pending' = [pending EXCEPT ![chan] = FALSE]
    /\ spc' = "idle" /\ chan' = "none"
    /\ UNCHANGED <<queue, gen, workerVars, shareVars, reportVars, lifeVars,
                   drainFails>>

\* Player.clear on a leave or rejoin, and the deadline of a pending join: the
\* flag falls with the request still queued or in flight.
Forget(c) ==
    /\ spc = "idle"
    /\ pending[c]
    /\ pending' = [pending EXCEPT ![c] = FALSE]
    /\ UNCHANGED <<queue, spc, chan, gen, workerVars, shareVars, reportVars,
                   lifeVars, drainFails>>

\* rsApiShutdown: stop is set under the lock, then the worker is joined.
Shutdown ==
    /\ spc = "idle" /\ wpc # "none"
    /\ stop' = TRUE
    /\ spc' = "joining"
    /\ UNCHANGED <<queue, chan, pending, gen, workerVars, shareVars, reportVars,
                   crashes, boots, drainFails>>

\* The process ends, and its memory with it.
Wipe ==
    /\ queue' = <<>>
    /\ stop' = FALSE
    /\ gen' = [c \in Chans |-> 0]
    /\ result' = [c \in Chans |-> 0]
    /\ text' = [c \in Chans |-> 0]
    /\ wpc' = "none"
    /\ cur' = NoRequest
    /\ status' = "none"
    /\ loaded' = <<>>
    /\ drainFailed' = FALSE
    /\ chan' = "none"
    /\ pending' = [c \in Chans |-> FALSE]
    /\ answers' = [c \in Chans |-> 0]
    /\ raced' = [c \in Chans |-> FALSE]
    /\ drainFails' = 0
    /\ spc' = "down"

\* The process exits once the join returns (or with no worker to join).
Exit ==
    /\ \/ spc = "joining" /\ wpc = "exited"
       \/ spc = "idle" /\ wpc = "none"
    /\ Wipe
    /\ UNCHANGED <<reportVars, crashes, boots>>

----------------------------------------------------------------------------
(* The worker thread (workerMain).                                         *)

KeepOneFewer == SubSeq(spool, 1, IF Len(spool) < SpoolLoadMax
                                THEN Len(spool) ELSE SpoolLoadMax - 1)

\* loadSpool keeps at most SPOOL_LOAD_MAX lines.
KeptLines == SubSeq(spool, 1, IF Len(spool) < SpoolLoadMax
                              THEN Len(spool) ELSE SpoolLoadMax)

\* loadSpool, reading to the end of the file.  With no file there is nothing
\* to remove.
LoadSpool ==
    /\ wpc = "load"
    /\ IF spool = <<>>
       THEN wpc' = "wait" /\ loaded' = loaded
       ELSE wpc' = "remove" /\ loaded' = KeptLines
    /\ UNCHANGED <<queue, scriptVars, cur, status, drainFailed, shareVars,
                   reportVars, lifeVars, drainFails>>

SpoolLeftBehind ==
    /\ wpc = "remove"
    /\ wpc' = "push"
    /\ UNCHANGED <<queue, scriptVars, cur, status, loaded, drainFailed,
                   shareVars, reportVars, lifeVars, drainFails>>

\* ... and remove( path ), by name: the lines not kept are gone, and so is any
\* line the script thread appended since the end of the file was read.
RemoveSpool ==
    /\ wpc = "remove"
    /\ fate' = [r \in Reports |->
                    IF r \in Range(spool) \ Range(loaded) THEN "removed"
                    ELSE fate[r]]
    /\ spool' = <<>>
    /\ wpc' = "push"
    /\ UNCHANGED <<queue, scriptVars, cur, status, loaded, drainFailed,
                   shareVars, lifeVars, drainFails>>

\* The loaded reports are queued in one lock region, past QUEUE_MAX if need be.
PushLoaded ==
    /\ wpc = "push"
    /\ queue' = queue \o [i \in DOMAIN loaded |-> ReportReq(loaded[i])]
    /\ loaded' = <<>>
    /\ wpc' = "wait"
    /\ UNCHANGED <<scriptVars, cur, status, drainFailed, shareVars, reportVars,
                   lifeVars, drainFails>>

\* cv.wait, then the front of the queue is taken.
Take ==
    /\ wpc = "wait" /\ queue # <<>>
    /\ cur' = Head(queue)
    /\ queue' = Tail(queue)
    /\ wpc' = "send"
    /\ UNCHANGED <<scriptVars, status, loaded, drainFailed, shareVars,
                   reportVars, lifeVars, drainFails>>

ReturnAtOnce ==
    /\ wpc = "wait" /\ stop
    /\ wpc' = "exited"
    /\ UNCHANGED <<queue, scriptVars, cur, status, loaded, drainFailed,
                   shareVars, reportVars, lifeVars, drainFails>>

\* ... or, stopped with nothing left to send, the worker returns.
Return ==
    /\ wpc = "wait" /\ queue = <<>> /\ stop
    /\ wpc' = "exited"
    /\ UNCHANGED <<queue, scriptVars, cur, status, loaded, drainFailed,
                   shareVars, reportVars, lifeVars, drainFails>>

\* The request is finished with: back to the top of the loop.
Finish == wpc' = "wait" /\ cur' = NoRequest /\ status' = "none"

\* A fetch or join found after stop is dropped; a report, once a drain attempt
\* has failed, goes to the spool without a network attempt.
SkipDraining ==
    /\ wpc = "send" /\ stop
    /\ \/ cur.type # "report" /\ fate' = fate /\ spool' = spool
       \/ cur.type = "report" /\ drainFailed /\ SpoolReport(cur.id, fate)
    /\ Finish
    /\ UNCHANGED <<queue, scriptVars, loaded, drainFailed, shareVars, lifeVars,
                   drainFails>>

\* doGet / doPost.  "ok": 2xx with a well-formed payload; "garbled": 2xx with
\* a payload the validation refuses; "permanent": 4xx; "transient": a
\* transport error, a timeout or 5xx, whether or not the API applied the report
\* (what a second delivery does there is Ingest's subject).
Send(s) ==
    /\ wpc = "send"
    /\ stop => cur.type = "report" /\ ~drainFailed
    /\ s = "garbled" => cur.type # "report"
    /\ status' = s
    /\ wpc' = "replied"
    /\ UNCHANGED <<queue, scriptVars, cur, loaded, drainFailed, shareVars,
                   reportVars, lifeVars, drainFails>>

\* The report branch: 2xx and 4xx end the report's life ...
ReportAnswered ==
    /\ wpc = "replied" /\ cur.type = "report"
    /\ status \in {"ok", "permanent"}
    /\ fate' = [fate EXCEPT ![cur.id] =
                    IF status = "ok" THEN "delivered" ELSE "rejected"]
    /\ Finish
    /\ UNCHANGED <<queue, scriptVars, loaded, drainFailed, shareVars, spool,
                   lifeVars, drainFails>>

DrainNotMarked ==
    /\ wpc = "replied" /\ cur.type = "report"
    /\ status = "transient" /\ stop
    /\ SpoolReport(cur.id, fate)
    /\ drainFails' = drainFails + 1
    /\ Finish
    /\ UNCHANGED <<queue, scriptVars, loaded, drainFailed, shareVars, lifeVars>>

\* ... a failure met while draining spools it and gives the API up ...
ReportDrained ==
    /\ wpc = "replied" /\ cur.type = "report"
    /\ status = "transient" /\ stop
    /\ SpoolReport(cur.id, fate)
    /\ drainFailed' = TRUE
    /\ drainFails' = drainFails + 1
    /\ Finish
    /\ UNCHANGED <<queue, scriptVars, loaded, shareVars, lifeVars>>

RetryThroughStop ==
    /\ wpc = "replied" /\ cur.type = "report"
    /\ status = "transient"
    /\ wpc' = "requeue" /\ status' = "none"
    /\ UNCHANGED <<queue, scriptVars, cur, loaded, drainFailed, shareVars,
                   reportVars, lifeVars, drainFails>>

\* ... and any other failure is retried, without an attempt cap.
ReportRetried ==
    /\ wpc = "replied" /\ cur.type = "report"
    /\ status = "transient" /\ ~stop
    /\ wpc' = "requeue" /\ status' = "none"
    /\ UNCHANGED <<queue, scriptVars, cur, loaded, drainFailed, shareVars,
                   reportVars, lifeVars, drainFails>>

\* The fetch and join branches compare the generation, once.
IsCurrent == cur.gen = gen[cur.id]

\* A failure met after stop costs the shutdown a timeout.
CountDrain == drainFails' = drainFails + (IF stop /\ status = "transient" THEN 1 ELSE 0)

\* Superseded in flight: dropped, whatever the status.
FetchStale ==
    /\ wpc = "replied" /\ cur.type # "report"
    /\ ~IsCurrent
    /\ Finish
    /\ CountDrain
    /\ UNCHANGED <<queue, scriptVars, loaded, drainFailed, shareVars,
                   reportVars, lifeVars>>

\* A transient failure of a fetch is retried, up to MAX_ATTEMPTS; of a join never.
Retryable == status = "transient" /\ cur.type = "get" /\ cur.attempts + 1 < MaxAttempts

FetchLanded ==
    /\ wpc = "replied" /\ cur.type # "report"
    /\ IsCurrent
    /\ ~Retryable
    /\ wpc' = IF status = "ok" THEN "text" ELSE "fail"
    /\ status' = "none"
    /\ CountDrain
    /\ UNCHANGED <<queue, scriptVars, cur, loaded, drainFailed, shareVars,
                   reportVars, lifeVars>>

FetchRetried ==
    /\ wpc = "replied" /\ cur.type # "report"
    /\ IsCurrent
    /\ Retryable
    /\ cur' = [cur EXCEPT !.attempts = @ + 1]
    /\ wpc' = "requeue" /\ status' = "none"
    /\ CountDrain
    /\ UNCHANGED <<queue, scriptVars, loaded, drainFailed, shareVars,
                   reportVars, lifeVars>>

\* The payload is swapped in under the channel's mutex ...
StoreText ==
    /\ wpc = "text"
    /\ text' = [text EXCEPT ![cur.id] = cur.gen]
    /\ wpc' = "signal"
    /\ UNCHANGED <<queue, scriptVars, cur, status, loaded, drainFailed, result,
                   answers, raced, reportVars, lifeVars, drainFails>>

SignalPayloadOnly ==
    /\ wpc \in {"signal", "fail"}
    /\ result' = [result EXCEPT ![cur.id] = IF wpc = "signal" THEN 1 ELSE @]
    /\ answers' = [answers EXCEPT ![cur.id] = cur.gen]
    /\ Finish
    /\ UNCHANGED <<queue, scriptVars, loaded, drainFailed, text, raced,
                   reportVars, lifeVars, drainFails>>

\* ... then the result is stored: 1 after a payload, -1 for a failure.
StoreResult ==
    /\ wpc \in {"signal", "fail"}
    /\ result' = [result EXCEPT ![cur.id] = IF wpc = "signal" THEN 1 ELSE -1]
    /\ answers' = [answers EXCEPT ![cur.id] = cur.gen]
    /\ Finish
    /\ UNCHANGED <<queue, scriptVars, loaded, drainFailed, text, raced,
                   reportVars, lifeVars, drainFails>>

\* After the pause, the request goes to the back, past QUEUE_MAX if need be.
Requeue ==
    /\ wpc = "requeue"
    /\ queue' = Append(queue, cur)
    /\ Finish
    /\ UNCHANGED <<scriptVars, loaded, drainFailed, shareVars, reportVars,
                   lifeVars, drainFails>>

----------------------------------------------------------------------------
(* The process.                                                            *)

\* The reports in a sequence of requests, and the one the worker works on.
InQueue == {queue[i].id : i \in At("report")}
InHand  == IF cur.type = "report" THEN {cur.id} ELSE {}

\* A crash or a kill runs no destructor: what is only in memory is gone.
Crash ==
    /\ spc # "down" /\ crashes < MaxCrashes
    /\ crashes' = crashes + 1
    /\ fate' = [r \in Reports |->
                    IF r \in (InQueue \cup InHand \cup Range(loaded)) \ Range(spool)
                    THEN "crashed" ELSE fate[r]]
    /\ Wipe
    /\ UNCHANGED <<spool, boots>>

Boot ==
    /\ spc = "down" /\ boots < MaxBoots
    /\ boots' = boots + 1
    /\ spc' = "idle"
    /\ UNCHANGED <<queue, chan, pending, gen, workerVars, shareVars, reportVars,
                   stop, crashes, drainFails>>

Statuses == {"ok", "garbled", "permanent", "transient"}

Script ==
    \/ EnsureStarted
    \/ \E r \in Reports : ReportRace(r)
    \/ \E c \in Chans : FetchBump(c) \/ Poll(c) \/ Forget(c)
    \/ FetchClear \/ FetchPush \/ ReadText
    \/ Shutdown \/ Exit

Worker ==
    \/ LoadSpool \/ RemoveSpool \/ PushLoaded
    \/ Take \/ Return \/ SkipDraining
    \/ \E s \in Statuses : Send(s)
    \/ ReportAnswered \/ ReportDrained \/ ReportRetried
    \/ FetchStale \/ FetchLanded \/ FetchRetried
    \/ StoreText \/ StoreResult \/ Requeue

Next == Script \/ Worker \/ Crash \/ Boot

Spec == Init /\ [][Next]_vars

\* The worker thread runs while it can; a call the script thread is in goes on,
\* and its think poller runs every frame.
Fairness ==
    /\ WF_vars(Worker)
    /\ WF_vars(FetchClear \/ FetchPush \/ ReadText)
    /\ \A c \in Chans : WF_vars(Poll(c))
    /\ WF_vars(spc = "joining" /\ Exit)

FairSpec == Spec /\ Fairness

----------------------------------------------------------------------------
(* Properties.                                                             *)

TypeOK ==
    /\ queue \in Seq(Requests)
    /\ stop \in BOOLEAN
    /\ gen \in [Chans -> Nat]
    /\ result \in [Chans -> {-1, 0, 1}]
    /\ text \in [Chans -> Nat]
    /\ wpc \in {"none", "load", "remove", "push", "wait", "send", "replied",
                "text", "signal", "fail", "requeue", "exited"}
    /\ cur \in Requests \cup {NoRequest}
    /\ status \in Statuses \cup {"none"}
    /\ loaded \in Seq(Reports)
    /\ drainFailed \in BOOLEAN
    /\ spool \in Seq(Reports)
    /\ spc \in {"idle", "clear", "push", "read", "joining", "down"}
    /\ chan \in Chans \cup {"none"}
    /\ pending \in [Chans -> BOOLEAN]
    /\ crashes \in Nat
    /\ boots \in Nat
    /\ fate \in [Reports -> Fates]
    /\ answers \in [Chans -> Nat]
    /\ raced \in [Chans -> BOOLEAN]
    /\ drainFails \in Nat

\* What the threads' places say of their locals: the worker holds a request
\* from Take to Finish, its status is set while it weighs the reply, only a
\* fetch reaches the store window, and a call in progress has its channel.
Phases ==
    /\ wpc \in {"send", "replied", "text", "signal", "fail", "requeue"}
            <=> cur # NoRequest
    /\ wpc = "replied" => status \in Statuses
    /\ wpc = "replied" /\ cur.type = "report" => status # "garbled"
    /\ wpc \in {"text", "signal", "fail"} => cur.type # "report"
    /\ wpc \notin {"remove", "push"} => loaded = <<>>
    /\ wpc = "none" => /\ queue = <<>> /\ spc \in {"idle", "down"}
                       /\ \A c \in Chans : result[c] = 0
    /\ spc \in {"clear", "push", "read"} => chan \in Chans

\* No report falls between the queue, the worker's hand, the loader and the
\* file: whatever the interleaving of makeRoomLocked, the retry loop, the
\* shutdown drain, a crash and the next boot's loadSpool, a report is pending
\* exactly while one of them holds it; otherwise it was answered by the API or
\* lost in a way the code names.
Accounted ==
    \A r \in Reports :
        fate[r] = "pending" <=>
            r \in InQueue \cup InHand \cup Range(loaded) \cup Range(spool)

\* The client itself never duplicates a report: it is held in one place, once.
\* (Between loadSpool's reading and its remove() it is both read and on disk.)
HeldOnce ==
    /\ \A i, j \in At("report") : queue[i].id = queue[j].id => i = j
    /\ IsInjective(loaded) /\ IsInjective(spool)
    /\ InQueue \cap InHand = {}
    /\ (InQueue \cup InHand) \cap (Range(loaded) \cup Range(spool)) = {}
    /\ wpc # "remove" => Range(loaded) \cap Range(spool) = {}

\* ... strengthened to an inductive invariant: stop is set exactly while the
\* script thread joins the worker, which returns with nothing left to send.
CustodyInv ==
    /\ Accounted /\ HeldOnce
    /\ stop <=> spc = "joining"
    /\ wpc = "exited" => stop /\ queue = <<>>

\* The queue's real bound.  The loader and the retry push without
\* makeRoomLocked, so QUEUE_MAX itself is not one: up to SPOOL_LOAD_MAX reports
\* come on top of a full queue, or one retried request does.
Overshoot  == IF SpoolLoadMax > 1 THEN SpoolLoadMax ELSE 1
QueueBound ==
    Len(queue) + (IF cur.type = "none" THEN 0 ELSE 1) + Len(loaded)
        <= QueueMax + Overshoot

\* ... strengthened to an inductive invariant: until the loader has pushed, only
\* makeRoomLocked's callers have, so QUEUE_MAX still holds.
BoundInv ==
    /\ QueueBound
    /\ wpc \in {"none", "load", "remove", "push"} => Len(queue) <= QueueMax
    /\ Len(loaded) <= SpoolLoadMax

\* makeRoomLocked's promise about cost: over a step of the script thread, a
\* report leaves a queue only if it held no fetch, and a join only if it held
\* nothing but joins.
Ids(q, type) == {q[i].id : i \in {j \in DOMAIN q : q[j].type = type}}
Gone(type) == Ids(queue, type) \ Ids(queue', type)
EvictsInOrder ==
    spc # "down" /\ spc' # "down" /\ Len(queue') = Len(queue) /\ queue' # queue
        => /\ Gone("report") # {} => At("get") = {}
           /\ Gone("join") # {} => At("get") = {} /\ At("report") = {}
EvictionLadder == [][EvictsInOrder]_vars

\* An outcome is published only under the generation that is current when the
\* script polls it, unless the slot was re-issued inside the worker's store
\* window (after it compared generations, before it stored the result): the
\* order "gen first, result second" closes every other way to a stale answer.
FreshUnlessRaced ==
    \A c \in Chans :
        ~raced[c] /\ ~(spc = "clear" /\ chan = c) /\ result[c] # 0 =>
            /\ answers[c] = gen[c]
            /\ result[c] = 1 => text[c] = gen[c]

\* ... strengthened to an inductive invariant: so does what the worker is about
\* to publish in its store window.
FreshInv ==
    /\ FreshUnlessRaced
    /\ \A c \in Chans :
           ~raced[c] /\ ~(spc = "clear" /\ chan = c) /\ InStoreWindow(c) =>
               /\ cur.gen = gen[c]
               /\ wpc = "signal" => text[c] = gen[c]

\* "A dead API costs a single curl timeout, not one per queued report": the
\* worker meets at most one failing report exchange after stop, and at most one
\* more for a fetch that was in flight when stop was set.
DrainCost == drainFails <= 2

\* ... strengthened to an inductive invariant: a fetch reply still unweighed and
\* a drain that has not failed yet each stand for one failure to come.
DrainInv ==
    /\ ~stop => drainFails = 0 /\ ~drainFailed
    /\ stop => drainFails + (IF wpc = "replied" /\ cur.type # "report" THEN 1 ELSE 0)
                   + (IF drainFailed THEN 0 ELSE 1) <= 2
    /\ drainFailed => ~(wpc = "replied" /\ cur.type = "report")

\* With room in the queue and no crash, a graceful stop and the next boot lose
\* no report: what the drain cannot deliver is on disk and is loaded again.
NothingLost == \A r \in Reports : fate[r] \notin Lost

\* rsApiShutdown's join returns: the drain ends whatever the API does.
DrainTerminates == stop ~> spc = "down"

\* The web API is not down for ever: a report the worker keeps sending is
\* answered in the end.
ApiRecovers ==
    \A r \in Reports : SF_vars(wpc = "send" /\ cur.id = r /\ (Send("ok") \/ Send("permanent")))

\* A report does not circle for ever in the retry loop: if the API answers
\* again it is settled, unless it went to the spool or was lost with the
\* process.
EventuallySettled ==
    ApiRecovers => \A r \in Reports :
        fate[r] = "pending" ~> fate[r] # "pending" \/ r \in Range(spool)

\* Every fetch a player waits for is answered: the flag the poller keys on
\* falls (the queue has room, so nothing is evicted).
FetchAnswered == \A c \in Chans : pending[c] ~> ~pending[c]
=============================================================================
