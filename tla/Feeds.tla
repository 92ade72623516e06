---- MODULE Feeds ----
(***************************************************************************)
(* The two pollers that feed the site.  The collector                      *)
(* (collector/collector.js) tails the race log and scans the top-score     *)
(* files of the game server and posts what is new; the web's live poller   *)
(* (web/live.js) asks every enrolled server for its status.                *)
(*                                                                         *)
(* The race log is a sequence of line numbers with the file's inode; the   *)
(* last line may still be unfinished.  Offsets count whole lines.          *)
(***************************************************************************)
EXTENDS Integers, Sequences, FiniteSets

CONSTANTS Lines,         \* bound: the lines the game writes, 1..Lines
          ReadCap,       \* READ_CAP: lines read per tick at most
          MaxRotations, MaxFeedFaults,   \* bounds: rotations; crashes, failed posts and saves
          TopFiles, MaxTopStamp,         \* the top-score files; bound: rewrites
          PollServers    \* the enrolled servers

ASSUME FeedAssumption ==
  /\ Lines \in Nat \ {0} /\ ReadCap \in Nat \ {0}
  /\ MaxRotations \in Nat /\ MaxFeedFaults \in Nat /\ MaxTopStamp \in Nat \ {0}

VARIABLES rlog,     \* the log: [ino, lines, part]: its whole lines, and whether a partial one follows
          written,  \* the last line the game has begun
          cst,      \* the collector's state: [off, ino, tops]
          cdisk,    \* its state file
          got,      \* the lines the web has stored
          dropped,  \* the lines of a chunk the web refused with a 4xx
          col,      \* the collector's tick: where it is, what it has read and has still to post
          tops,     \* per top-score file: its mtime
          topgot,   \* per top-score file: the mtime of the records the web has
          topdrop,  \* ... and of those last refused, in part or whole, with a 4xx
          cut,      \* the log was truncated in place
          rotations, ffaults

gameVars == <<rlog, written, tops, cut, rotations>>
webVars == <<got, dropped, topgot, topdrop>>
colVars == <<gameVars, cst, cdisk, col, webVars, ffaults>>

VARIABLES snap,     \* the live snapshot: per server "none", "up" or "down"
          poll      \* the round: [on, pc, asked, answers]
pollVars == <<snap, poll>>

NewState == [off |-> 0, ino |-> 0, tops |-> [f \in TopFiles |-> 0]]
AtRest == [pc |-> "wait", todo |-> {}, upto |-> 0, files |-> {}, cur |-> {}, mtime |-> 0, content |-> 0]

ColInit ==
  /\ rlog = [ino |-> 1, lines |-> <<>>, part |-> FALSE] /\ written = 0
  /\ cst = NewState /\ cdisk = NewState /\ got = {} /\ dropped = {} /\ col = AtRest
  /\ tops = [f \in TopFiles |-> 0] /\ topgot = [f \in TopFiles |-> 0]
  /\ topdrop = [f \in TopFiles |-> 0]
  /\ cut = FALSE /\ rotations = 0 /\ ffaults = 0

-----------------------------------------------------------------------------
(* The game server's files (external to the collector).                    *)

WriteLine ==
  /\ IF rlog.part THEN /\ rlog' = [rlog EXCEPT !.part = FALSE, !.lines = Append(@, written)]
                       /\ UNCHANGED written
                  ELSE /\ written < Lines /\ written' = written + 1
                       /\ rlog' = [rlog EXCEPT !.part = TRUE]
  /\ UNCHANGED <<cst, cdisk, col, tops, webVars, cut, rotations, ffaults>>

\* The log is rotated (a new inode) or truncated in place.
Rotate ==
  /\ ~rlog.part /\ rlog.lines # <<>> /\ rotations < MaxRotations
  /\ \E truncated \in BOOLEAN :
       /\ rlog' = [rlog EXCEPT !.lines = <<>>, !.ino = IF truncated THEN @ ELSE @ + 1]
       /\ cut' = (cut \/ truncated)
  /\ rotations' = rotations + 1
  /\ UNCHANGED <<written, cst, cdisk, col, tops, webVars, ffaults>>

RewriteTop(f) ==
  /\ tops[f] < MaxTopStamp /\ tops' = [tops EXCEPT ![f] = @ + 1]
  /\ UNCHANGED <<rlog, written, cst, cdisk, col, webVars, cut, rotations, ffaults>>

-----------------------------------------------------------------------------
(* The collector.                                                          *)

ColFault == ffaults < MaxFeedFaults /\ ffaults' = ffaults + 1

\* saveState: written aside and renamed; a failure is logged and passed over.
SaveState(s) ==
  /\ cst' = s
  /\ \/ cdisk' = s /\ UNCHANGED ffaults
     \/ UNCHANGED cdisk /\ ColFault

MutResetOffset(s) == IF Len(rlog.lines) < s.off THEN 0 ELSE s.off

\* Rotation by inode, truncation by size: read from the start again.
ResetOffset(s) ==
  IF (s.ino # 0 /\ s.ino # rlog.ino) \/ Len(rlog.lines) < s.off THEN 0 ELSE s.off

\* pumpRacelog: the log's inode and size; with nothing to read the reset is saved.
StatRacelog ==
  /\ col.pc = "wait"
  /\ LET off == ResetOffset(cst)
         upto == IF Len(rlog.lines) > off + ReadCap THEN off + ReadCap ELSE Len(rlog.lines)
         s == [cst EXCEPT !.off = off, !.ino = rlog.ino]
     IN IF Len(rlog.lines) = off /\ ~rlog.part
        THEN SaveState(s) /\ col' = [AtRest EXCEPT !.pc = "scan"]
        ELSE /\ cst' = s /\ UNCHANGED <<cdisk, ffaults>>
             /\ col' = [AtRest EXCEPT !.pc = "open", !.upto = upto]
  /\ UNCHANGED <<gameVars, webVars>>

\* What is read, of the file that is there by now: its whole lines past the offset, as
\* far as the size asked for and ReadCap of them at most.
OpenRacelog ==
  /\ col.pc = "open"
  /\ LET upto == IF Len(rlog.lines) < col.upto THEN Len(rlog.lines) ELSE col.upto
     IN col' = IF upto <= cst.off THEN [AtRest EXCEPT !.pc = "scan"]
               ELSE [AtRest EXCEPT !.pc = "post", !.upto = upto,
                                   !.todo = {rlog.lines[k] : k \in (cst.off + 1)..upto}]
  /\ UNCHANGED <<gameVars, cst, cdisk, webVars, ffaults>>

Chunks == (SUBSET col.todo) \ {{}}

\* One chunk of postRecords: stored, or refused as a whole - a malformed batch (400), a
\* token not known or revoked (401, 403), the ingest's rate limit (429) - and dropped.
PostRecords ==
  /\ col.pc = "post"
  /\ \E c \in Chunks :
       /\ \/ got' = got \cup c /\ UNCHANGED dropped
          \/ dropped' = dropped \cup c /\ UNCHANGED got
       /\ col' = [col EXCEPT !.todo = @ \ c]
  /\ UNCHANGED <<gameVars, cst, cdisk, topgot, topdrop, ffaults>>

\* A 5xx, a timeout or a lost answer (the chunk may have been stored): the tick is
\* abandoned with the offset where it was.
PostRecordsFail ==
  /\ col.pc = "post" /\ ColFault
  /\ \E c \in Chunks : got' \in {got, got \cup c}
  /\ col' = [AtRest EXCEPT !.pc = "scan"]
  /\ UNCHANGED <<gameVars, cst, cdisk, dropped, topgot, topdrop>>

\* The offset moves only when every chunk was posted.
MayAdvance == col.todo = {}

AdvanceOffset ==
  /\ col.pc = "post" /\ MayAdvance
  /\ SaveState([cst EXCEPT !.off = col.upto])
  /\ col' = [AtRest EXCEPT !.pc = "scan"]
  /\ UNCHANGED <<gameVars, webVars>>

Changed == {f \in TopFiles : tops[f] # cst.tops[f]}

\* The loop: a scan of the top scores when a file changed (one that is not due yet is as
\* if the file had changed later) ...
ScanTopscores ==
  /\ col.pc = "scan" /\ Changed # {}
  /\ col' = [AtRest EXCEPT !.pc = "stat", !.files = Changed]
  /\ UNCHANGED <<gameVars, cst, cdisk, webVars, ffaults>>

\* ... and otherwise only the wait.
NoScan ==
  /\ col.pc = "scan" /\ Changed = {} /\ col' = AtRest
  /\ UNCHANGED <<gameVars, cst, cdisk, webVars, ffaults>>

\* One file at a time, and its mtime is taken before its content is read.
StatTop ==
  /\ col.pc = "stat"
  /\ \E f \in col.files :
       col' = [col EXCEPT !.pc = "read", !.files = @ \ {f}, !.cur = {f}, !.mtime = tops[f]]
  /\ UNCHANGED <<gameVars, cst, cdisk, webVars, ffaults>>

ReadTop ==
  /\ col.pc = "read"
  /\ \E f \in col.cur : col' = [col EXCEPT !.pc = "send", !.content = tops[f]]
  /\ UNCHANGED <<gameVars, cst, cdisk, webVars, ffaults>>

NextFile == IF col.files = {} THEN AtRest ELSE [AtRest EXCEPT !.pc = "stat", !.files = col.files]

\* What is remembered of a posted file: the mtime taken before the read, so a rewrite
\* in between is scanned again.
TopStamp(f) == col.mtime

\* The file's chunks are stored, or one of them is refused with a 4xx and dropped.
PostTop ==
  /\ col.pc = "send"
  /\ \E f \in col.cur :
       /\ \/ topgot' = [topgot EXCEPT ![f] = col.content] /\ UNCHANGED topdrop
          \/ topdrop' = [topdrop EXCEPT ![f] = col.content] /\ UNCHANGED topgot
       /\ SaveState([cst EXCEPT !.tops[f] = TopStamp(f)])
  /\ col' = NextFile
  /\ UNCHANGED <<gameVars, got, dropped>>

\* A failure leaves the file's mtime alone: the next scan takes it again.
TopFails ==
  /\ col.pc = "send" /\ ColFault /\ col' = NextFile
  /\ UNCHANGED <<gameVars, cst, cdisk, webVars>>

\* The process dies and starts from the state file.
CollectorDies ==
  /\ ColFault /\ cst' = cdisk /\ col' = AtRest
  /\ UNCHANGED <<gameVars, cdisk, webVars>>

ColStep ==
  \/ StatRacelog \/ OpenRacelog \/ PostRecords \/ AdvanceOffset \/ NoScan \/ ScanTopscores
  \/ StatTop \/ ReadTop \/ PostTop

ColNext ==
  \/ WriteLine \/ Rotate \/ \E f \in TopFiles : RewriteTop(f)
  \/ ColStep \/ PostRecordsFail \/ TopFails \/ CollectorDies

-----------------------------------------------------------------------------
(* The live poller.                                                        *)

PollInit ==
  /\ snap = [s \in PollServers |-> "none"]
  /\ poll = [on |-> FALSE, pc |-> "idle", asked |-> {}, answers |-> [s \in PollServers |-> "none"]]

\* The interval fires: a round in progress is not stacked on.
PollTick ==
  /\ ~poll.on
  /\ poll' = [poll EXCEPT !.on = TRUE, !.pc = "servers"]
  /\ UNCHANGED snap

\* The query for the servers hangs: withTimeout ends the round after 15 s.
ServersHang ==
  /\ poll.pc = "servers"
  /\ poll' = [poll EXCEPT !.on = FALSE, !.pc = "idle"]
  /\ UNCHANGED snap

\* The servers that are not revoked and have an address are asked in parallel.
ServersRead ==
  /\ poll.pc = "servers"
  /\ \E some \in SUBSET PollServers :
       poll' = [poll EXCEPT !.pc = "query", !.asked = some, !.answers = [s \in PollServers |-> "none"]]
  /\ UNCHANGED snap

\* queryServer settles once: a reply, or a timeout or socket error, whichever is first.
QueryServer(s) ==
  /\ poll.pc = "query" /\ s \in poll.asked
  /\ \E a \in {"up", "down"} : poll' = [poll EXCEPT !.asked = @ \ {s}, !.answers[s] = a]
  /\ UNCHANGED snap

\* All have settled: the snapshot is replaced as a whole.
LivePollEnds ==
  /\ poll.pc = "query" /\ poll.asked = {}
  /\ snap' = poll.answers
  /\ poll' = [poll EXCEPT !.on = FALSE, !.pc = "idle", !.answers = [s \in PollServers |-> "none"]]

PollNext ==
  \/ PollTick \/ ServersHang \/ ServersRead \/ LivePollEnds
  \/ \E s \in PollServers : QueryServer(s)

-----------------------------------------------------------------------------
(* Properties.                                                             *)

\* The saved offset never passes a line the web has neither stored nor refused, so a
\* crash or a failed post loses nothing that is still in the log.  A log truncated in
\* place and regrown past the offset between two polls is taken for its old self: that
\* case (cut) is outside the claim.
OffsetPosted ==
  \A s \in {cst, cdisk} :
    ~cut /\ s.ino = rlog.ino => \A k \in 1..s.off : rlog.lines[k] \in got \cup dropped

\* Every finished line of the log and every rewritten top-score file reaches the web in
\* the end, rotations, crashes, failed posts and failed saves notwithstanding, unless the
\* web refused the chunk it came in: a 4xx is never asked again, whatever its reason.
FeedArrived ==
  /\ cut \/ \A k \in 1..Len(rlog.lines) : rlog.lines[k] \in got \cup dropped
  /\ \A f \in TopFiles : tops[f] \in {topgot[f], topdrop[f]}

\* A round of the live poll always ends, a wedged database included, so the next tick is
\* never a no-op for good (withTimeout, live.js).
RoundOver == ~poll.on

ColSpec == ColInit /\ [][ColNext]_colVars

\* ... and why: an offset is within the log it was taken in, and what a tick has read
\* and not posted is still to post.
Reached(k) == rlog.lines[k] \in got \cup dropped
ColStates == [off : Nat, ino : Nat, tops : [TopFiles -> Nat]]
ColTicks ==
  [pc : {"wait", "open", "post", "scan", "stat", "read", "send"}, todo : SUBSET Nat, upto : Nat,
   files : SUBSET TopFiles, cur : SUBSET TopFiles, mtime : Nat, content : Nat]
ColTypeOK ==
  /\ rlog \in [ino : Nat \ {0}, lines : Seq(Nat), part : BOOLEAN] /\ written \in Nat
  /\ cut \in BOOLEAN /\ tops \in [TopFiles -> Nat] /\ got \in SUBSET Nat /\ dropped \in SUBSET Nat
  /\ cst \in ColStates /\ cdisk \in ColStates /\ col \in ColTicks
SavedInv(s) ==
  /\ s.ino <= rlog.ino /\ (s.ino = 0 => s.off = 0)
  /\ ~cut /\ s.ino = rlog.ino => s.off <= Len(rlog.lines) /\ \A k \in 1..s.off : Reached(k)
ToPost ==
  /\ col.pc \in {"open", "post"} => cst.ino # 0
  /\ col.pc = "post" /\ ~cut /\ cst.ino = rlog.ino =>
       /\ col.upto <= Len(rlog.lines)
       /\ \A k \in 1..col.upto : Reached(k) \/ rlog.lines[k] \in col.todo
ColInv == ColTypeOK /\ SavedInv(cst) /\ SavedInv(cdisk) /\ ToPost
====
