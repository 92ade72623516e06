---------------------------- MODULE ResultsProofs ----------------------------
(***************************************************************************)
(* What the parts of the site that keep results promise for every number   *)
(* of servers, replicas, moderators, uploads, nicks and reports.           *)
(***************************************************************************)
EXTENDS MCResults, SumTheorems

-----------------------------------------------------------------------------
(* Moderation: the quarantine.                                             *)

\* Nobody reported the map at first.
LEMMA NothingReported == ModInit => QuarantineInv
<1>1. ~Enough({})
  <2>1. {e[1] : e \in {}} = {} OBVIOUS
  <2>2. Cardinality({}) = 0 BY FS_EmptySet
  <2> QED BY <2>1, <2>2, ModAssumption DEF Enough
<1> QED BY <1>1 DEF ModInit, QuarantineInv, NoReport

\* What a report carries when it is about to write.
Counted(t) ==
  /\ t.at \in 0..modnow /\ t.seen \subseteq LoadServers \X Nat /\ \A e \in t.seen : e[2] <= t.at
  /\ t.fails = Cardinality(t.seen) /\ t.servers = Cardinality({e[1] : e \in t.seen})

\* A report that counts keeps what it counted beside its numbers.
LEMMA CountKeeps ==
  ASSUME QuarantineInv, NEW s \in LoadServers, CountFailures(s) PROVE QuarantineInv'
<1> DEFINE seen == evidence \cup {<<s, modnow>>}
           new == [pc |-> "write", at |-> modnow, seen |-> seen,
                   fails |-> Cardinality(seen), servers |-> Cardinality({e[1] : e \in seen}),
                   was |-> quar.active]
<1>1. modnow \in Nat /\ evidence \subseteq LoadServers \X Nat /\ (\A e \in evidence : e[2] <= modnow)
  BY DEF QuarantineInv
<1>2. seen \subseteq LoadServers \X Nat /\ \A e \in seen : e[2] <= modnow BY <1>1
<1>3. UNCHANGED <<modnow, blocked, evidence, quar, admin, lifted, raced>> BY DEF CountFailures
<1>4. report' = [report EXCEPT ![s] = new] /\ DOMAIN report = LoadServers
  BY DEF CountFailures, QuarantineInv
<1>5. Counted(new) BY <1>1, <1>2 DEF Counted
<1> HIDE DEF new
<1>6. \A u \in LoadServers : report'[u] = IF u = s THEN new ELSE report[u] BY <1>4
<1>7. \A u \in LoadServers : report'[u].pc = "write" => Counted(report'[u])
  BY <1>5, <1>6 DEF QuarantineInv, Counted
<1> QED BY <1>3, <1>4, <1>7 DEF QuarantineInv, Enough, Counted

\* A report that writes has counted what is on record, or is known to have raced.
LEMMA WriteKeeps ==
  ASSUME QuarantineInv, NEW s \in LoadServers, WriteQuarantine(s) PROVE QuarantineInv'
<1> DEFINE t == report[s]
<1>1. /\ modnow \in Nat /\ evidence \subseteq LoadServers \X Nat /\ (\A e \in evidence : e[2] <= modnow)
      /\ DOMAIN report = LoadServers /\ ExpireTicks \in Nat
  BY ModAssumption DEF QuarantineInv
<1>2. Counted(t) BY DEF WriteQuarantine, QuarantineInv, Counted
<1>3. /\ evidence' = evidence \cup {<<s, t.at>>} /\ raced' = (evidence' # t.seen) /\ lifted' = FALSE
      /\ quar' = [active |-> Activates(t),
                  expires |-> IF Activates(t) /\ t.fails < 3 THEN t.at + ExpireTicks ELSE 0]
      /\ UNCHANGED <<modnow, blocked, admin>>
  BY DEF WriteQuarantine
<1>4. t.at \in Nat /\ t.at <= modnow BY <1>1, <1>2 DEF Counted
<1>5. evidence' \subseteq LoadServers \X Nat /\ \A e \in evidence' : e[2] <= modnow BY <1>1, <1>3, <1>4
<1>6. quar'.expires \in Nat BY <1>1, <1>3, <1>4
<1>7. DOMAIN report' = LoadServers
      /\ \A u \in LoadServers : report'[u].pc = "write" => report'[u] = report[u]
  BY <1>1 DEF WriteQuarantine, NoReport
<1>8. \A u \in LoadServers : report'[u].pc = "write" => Counted(report'[u])
  BY <1>7 DEF QuarantineInv, Counted
<1>9. ASSUME evidence' = t.seen, Enough(t.seen)
      PROVE  /\ quar'.active
             /\ \/ quar'.expires = 0
                \/ Cardinality(evidence') < 3 /\ \A e \in evidence' : e[2] + ExpireTicks <= quar'.expires
  <2>1. Activates(t) BY <1>2, <1>9 DEF Enough, Activates, Counted
  <2>2. CASE t.fails < 3
    <3>1. quar'.expires = t.at + ExpireTicks BY <1>3, <2>1, <2>2
    <3>2. ASSUME NEW e \in t.seen PROVE e[2] + ExpireTicks <= t.at + ExpireTicks
      <4>1. e[2] \in Nat /\ e[2] <= t.at BY <1>2 DEF Counted
      <4> QED BY <4>1, <1>1, <1>4
    <3> QED BY <1>2, <1>3, <1>9, <2>1, <2>2, <3>1, <3>2 DEF Counted
  <2>3. CASE ~(t.fails < 3) BY <1>3, <2>1, <2>3
  <2> QED BY <2>2, <2>3
<1>10. Enough(evidence') => \/ raced'
                            \/ /\ quar'.active
                               /\ \/ quar'.expires = 0
                                  \/ /\ Cardinality(evidence') < 3
                                     /\ \A e \in evidence' : e[2] + ExpireTicks <= quar'.expires
  BY <1>3, <1>9
<1>11. (admin.pc = "clear" => blocked \/ admin.lost)' BY <1>3 DEF QuarantineInv
<1>12. Enough(evidence)' = Enough(evidence') BY DEF Enough
<1> HIDE DEF t
<1> QED BY <1>1, <1>3, <1>5, <1>6, <1>7, <1>8, <1>10, <1>11, <1>12 DEF QuarantineInv, Counted

\* A moderator lifts what was in force, or what is in force stays.
LEMMA ModeratorKeeps ==
  ASSUME QuarantineInv,
         \/ \E p \in Reporters : FlagMap(p)
         \/ \E s \in LoadServers : FlagLoadFailure(s)
         \/ \E p \in flags : SetFlagStatus(p)
         \/ ResolveMapFlags \/ BlockFromFlags \/ UnblockMap \/ ClearFromFlags \/ BlockFromQuarantine \/ ModTick
  PROVE  QuarantineInv'
<1>1. /\ UNCHANGED evidence /\ DOMAIN report' = LoadServers
      /\ \A u \in LoadServers : report'[u].pc = "write" => report'[u] = report[u]
  BY DEF QuarantineInv, FlagMap, FlagLoadFailure, SetFlagStatus, ResolveMapFlags, BlockFromFlags, UnblockMap,
         ClearFromFlags, BlockFromQuarantine, ModTick, NoReport
<1>2. modnow \in Nat /\ modnow' \in Nat /\ modnow <= modnow'
  BY DEF QuarantineInv, FlagMap, FlagLoadFailure, SetFlagStatus, ResolveMapFlags, BlockFromFlags, UnblockMap,
         ClearFromFlags, BlockFromQuarantine, ModTick
<1>3. \A e \in evidence : e[2] <= modnow'
  <2>1. \A e \in evidence : e[2] \in Nat /\ e[2] <= modnow BY DEF QuarantineInv
  <2> QED BY <1>2, <2>1
<1>4. \A u \in LoadServers : report'[u].pc = "write" => Counted(report[u])'
  <2>1. ASSUME NEW u \in LoadServers, report'[u].pc = "write" PROVE Counted(report[u])'
    <3>1. report'[u] = report[u] BY <1>1, <2>1
    <3>2. Counted(report[u]) BY <2>1, <3>1 DEF QuarantineInv, Counted
    <3> QED BY <1>2, <3>1, <3>2 DEF Counted
  <2> QED BY <2>1
<1>5. admin \in [pc : {"idle", "clear"}, lost : BOOLEAN] /\ (admin.pc = "clear" => blocked \/ admin.lost)
  BY DEF QuarantineInv
<1> DEFINE AdminOn == admin' \in [pc : {"idle", "clear"}, lost : BOOLEAN]
                      /\ (admin'.pc = "clear" => blocked' \/ admin'.lost)
           Stays == UNCHANGED <<quar, blocked, lifted, raced>>
           Moved == /\ quar'.expires \in Nat
                    /\ blocked' \/ lifted' \/ Stays
<1>6. CASE UnblockMap
  <2>1. AdminOn BY <1>5, <1>6 DEF UnblockMap
  <2>2. lifted' = TRUE /\ UNCHANGED quar BY <1>6 DEF UnblockMap
  <2> QED BY <1>1, <1>2, <1>3, <1>4, <2>1, <2>2 DEF QuarantineInv, Enough, Counted
<1>7. CASE BlockFromQuarantine
  <2>1. AdminOn
    <3>1. admin' \in {[pc |-> "clear", lost |-> FALSE], [pc |-> "idle", lost |-> FALSE]}
      BY <1>7 DEF BlockFromQuarantine
    <3>2. admin'.pc = "clear" => blocked' BY <1>7 DEF BlockFromQuarantine, BlockMap
    <3>3. /\ [pc |-> "clear", lost |-> FALSE] \in [pc : {"idle", "clear"}, lost : BOOLEAN]
          /\ [pc |-> "idle", lost |-> FALSE] \in [pc : {"idle", "clear"}, lost : BOOLEAN]
      OBVIOUS
    <3>4. admin' \in [pc : {"idle", "clear"}, lost : BOOLEAN] BY <3>1, <3>3, Zenon
    <3> QED BY <3>2, <3>4
  <2>2. blocked' \/ lifted' BY <1>5, <1>7 DEF BlockFromQuarantine, BlockMap
  <2>3. quar'.expires \in Nat
    BY <1>7 DEF BlockFromQuarantine, BlockMap, ClearMapQuarantine, QuarantineInv
  <2> QED BY <1>1, <1>2, <1>3, <1>4, <2>1, <2>2, <2>3 DEF QuarantineInv, Enough, Counted
<1>8. CASE ~UnblockMap /\ ~BlockFromQuarantine
  <2>1. AdminOn BY <1>5, <1>8
    DEF FlagMap, FlagLoadFailure, SetFlagStatus, ResolveMapFlags, BlockFromFlags, ClearFromFlags, ModTick, BlockMap
  <2>2. Moved BY <1>8
    DEF FlagMap, FlagLoadFailure, SetFlagStatus, ResolveMapFlags, BlockFromFlags, ClearFromFlags, ModTick, BlockMap,
        ClearMapQuarantine, QuarantineInv
  <2> QED BY <1>1, <1>2, <1>3, <1>4, <2>1, <2>2 DEF QuarantineInv, Enough, Counted
<1> QED BY <1>6, <1>7, <1>8

\* The quarantine's invariant holds in every reachable state.
LEMMA QuarantineAlways == ModSpec => []QuarantineInv
<1>1. ASSUME QuarantineInv, [ModNext]_modVars PROVE QuarantineInv'
  <2>1. CASE MapNext BY <1>1, <2>1, CountKeeps, WriteKeeps, ModeratorKeeps DEF MapNext
  <2>2. CASE UNCHANGED mapVars BY <1>1, <2>2 DEF mapVars, QuarantineInv, Enough
  <2> QED BY <1>1, <2>1, <2>2 DEF ModNext, modVars
<1> QED BY <1>1, NothingReported, PTL DEF ModSpec

\* Enough reports keep a map off every server until a moderator lets it back
\* or thin evidence expires, for any number of servers and moderators, in any
\* order of blocks and clears; a report that committed over evidence it had not
\* counted is the exception (recordMapLoadFailure, blockedMapNames).
THEOREM MapsStayOff == ModSpec => []OffTheServers
<1>1. ASSUME QuarantineInv PROVE OffTheServers
  <2>1. SUFFICES ASSUME Enough(evidence), ~blocked, ~lifted, ~raced, ~InQuarantine
                 PROVE  Cardinality(evidence) < 3 /\ \A e \in evidence : e[2] + ExpireTicks <= modnow
    BY DEF OffTheServers, BlockedMapNames, Enough
  <2>2. /\ quar.active /\ quar.expires \in Nat /\ modnow \in Nat
        /\ \/ quar.expires = 0
           \/ Cardinality(evidence) < 3 /\ \A e \in evidence : e[2] + ExpireTicks <= quar.expires
    BY <1>1, <2>1 DEF QuarantineInv
  <2>3. quar.expires # 0 /\ quar.expires <= modnow BY <2>1, <2>2 DEF InQuarantine
  <2>4. ASSUME NEW e \in evidence PROVE e[2] + ExpireTicks <= modnow
    <3>1. e[2] \in Nat /\ ExpireTicks \in Nat BY <1>1, ModAssumption DEF QuarantineInv
    <3>2. e[2] + ExpireTicks <= quar.expires BY <2>2, <2>3
    <3> QED BY <2>2, <2>3, <3>1, <3>2
  <2> QED BY <2>2, <2>3, <2>4
<1> QED BY <1>1, QuarantineAlways, PTL

-----------------------------------------------------------------------------
(* Replays: the ghost's row and its file.                                  *)

\* The uploads' conjuncts, of one upload.
LEMMA UploadIs ==
  ASSUME GhostInv, NEW u \in Uploaders
  PROVE  /\ DOMAIN ups = Uploaders /\ ups[u].t \in Nat
         /\ ups[u].pc \in {"idle", "gzip", "look", "take", "file", "bytes"}
         /\ ups[u].pc # "idle" => ups[u].t > 0
         /\ ups[u].pc \in {"look", "take"} => maprow = u
         /\ ups[u].pc = "take" => grow.time = 0 \/ ups[u].t < grow.time
         /\ ups[u].pc \in {"file", "bytes"} => grow.time \in 1..ups[u].t
         /\ grow.pay = 0 => ups[u].pc \notin {"file", "bytes"}
BY DEF GhostInv

\* What the invariant says of the uploads' state, and of one of them.
UploadType == [pc : {"idle", "gzip", "look", "take", "file", "bytes"}, t : Nat]
UpsType == [Uploaders -> UploadType]
Placed(u) ==
  /\ ups[u].pc # "idle" => ups[u].t > 0
  /\ ups[u].pc \in {"look", "take"} => maprow = u
  /\ ups[u].pc = "take" => grow.time = 0 \/ ups[u].t < grow.time
  /\ ups[u].pc \in {"file", "bytes"} => grow.time \in 1..ups[u].t
  /\ grow.pay = 0 => ups[u].pc \notin {"file", "bytes"}

\* The ghosts' invariant, with its uploads' part named.
LEMMA GhostIs ==
  GhostInv <=>
  /\ grow \in [time : Nat, pay : Int] /\ demo \in Nat /\ gfile \in Int /\ rdr \in Nat
  /\ syn \in [pc : {"idle", "row"}, pay : BOOLEAN] /\ gcount.resets \in Nat
  /\ ups \in UpsType /\ \A u \in Uploaders : Placed(u)
  /\ rdr # 0 => grow.time \in 1..rdr
  /\ syn.pc = "row" => grow.time # 0 /\ (syn.pay => grow.pay # 0)
  /\ grow.pay = 0 => gfile \in {0, grow.time} /\ rdr = 0 /\ (gcount.resets = 0 => gfile = grow.time)
  /\ FileBehindRow /\ GhostDurable
BY DEF GhostInv, UpsType, UploadType, Placed

\* No ghost, or one captured before the payload column.
LEMMA GhostsAtFirst == GhostInit => GhostInv
<1>1. ASSUME GhostInit PROVE GhostInv
  <2>1. PICK t \in RunTimes \cup {0} : grow = [time |-> t, pay |-> 0] /\ gfile = t
    BY <1>1 DEF GhostInit
  <2>2. t \in Nat BY <2>1, ReplayAssumption
  <2>3. ups \in UpsType /\ \A u \in Uploaders : ups[u].pc = "idle"
    BY <1>1 DEF GhostInit, Resting, UpsType, UploadType
  <2>4. demo \in Nat /\ rdr = 0 /\ gcount.resets = 0 /\ syn.pc = "idle" /\ ~synced
        /\ syn \in [pc : {"idle", "row"}, pay : BOOLEAN]
    BY <1>1 DEF GhostInit
  <2> QED BY <2>1, <2>2, <2>3, <2>4, GhostIs DEF Placed, FileBehindRow, GhostDurable
<1> QED BY <1>1

\* A step of an upload that leaves the row alone, and the file or its payload.
LEMMA UploadMoves ==
  ASSUME GhostInv, NEW u \in Uploaders, NEW w \in UploadType,
         ups' = [ups EXCEPT ![u] = w], UNCHANGED <<grow, demo, rdr, syn, synced>>,
         gcount'.resets = gcount.resets, gfile' \in Int,
         gfile' = gfile \/ (grow.pay # 0 /\ (gfile' > 0 => grow.time \in 1..gfile')),
         \A v \in Uploaders \ {u} : ups[v].pc \in {"look", "take"} => maprow' = v,
         w.pc # "idle" => w.t > 0,
         w.pc \in {"look", "take"} => maprow' = u,
         w.pc = "take" => grow.time = 0 \/ w.t < grow.time,
         w.pc \in {"file", "bytes"} => grow.time \in 1..w.t /\ grow.pay # 0
  PROVE  GhostInv'
<1>1. /\ grow \in [time : Nat, pay : Int] /\ demo \in Nat /\ gfile \in Int /\ rdr \in Nat
      /\ syn \in [pc : {"idle", "row"}, pay : BOOLEAN] /\ gcount.resets \in Nat
      /\ ups \in UpsType /\ \A v \in Uploaders : Placed(v)
      /\ rdr # 0 => grow.time \in 1..rdr
      /\ syn.pc = "row" => grow.time # 0 /\ (syn.pay => grow.pay # 0)
      /\ grow.pay = 0 => gfile \in {0, grow.time} /\ rdr = 0 /\ (gcount.resets = 0 => gfile = grow.time)
      /\ FileBehindRow /\ GhostDurable
  BY GhostIs
<1>2. ups' \in UpsType /\ ups'[u] = w /\ \A v \in Uploaders \ {u} : ups'[v] = ups[v] BY <1>1 DEF UpsType
<1>3. \A v \in Uploaders : Placed(v)' BY <1>1, <1>2 DEF Placed
<1>4. FileBehindRow' /\ GhostDurable' BY <1>1 DEF FileBehindRow, GhostDurable
<1> QED BY <1>1, <1>2, <1>3, <1>4 DEF GhostInv, UpsType, UploadType, Placed

\* An upload arrives with a run of its own.
LEMMA UploadKeeps ==
  ASSUME GhostInv, NEW u \in Uploaders, Upload(u) PROVE GhostInv'
<1>1. PICK t \in RunTimes : ups' = [ups EXCEPT ![u] = [pc |-> "gzip", t |-> t]] BY DEF Upload
<1> DEFINE w == [pc |-> "gzip", t |-> t]
<1>2. w \in UploadType /\ w.pc = "gzip" /\ w.t > 0 BY ReplayAssumption DEF UploadType
<1>3. ups' = [ups EXCEPT ![u] = w] /\ UNCHANGED <<grow, demo, gfile, maprow, rdr, syn, synced>> BY <1>1 DEF Upload
<1>4. gcount'.resets = gcount.resets /\ gfile \in Int BY DEF Upload, GhostInv
<1>5. \A v \in Uploaders \ {u} : ups[v].pc \in {"look", "take"} => maprow' = v BY <1>3, UploadIs
<1> HIDE DEF w
<1> QED BY <1>2, <1>3, <1>4, <1>5, UploadMoves

\* A transaction begins with the map row free: nobody else is about to take.
LEMMA BeginKeeps ==
  ASSUME GhostInv, NEW u \in Uploaders, BeginGhost(u) PROVE GhostInv'
<1> DEFINE w == [ups[u] EXCEPT !.pc = "look"]
<1>1. w \in UploadType /\ w.pc = "look" /\ w.t > 0
  BY UploadIs, ReplayAssumption DEF BeginGhost, UploadType, Resting, GhostInv
<1>2. ups' = [ups EXCEPT ![u] = w] /\ UNCHANGED <<grow, demo, rdr, syn, synced>>
  BY DEF BeginGhost
<1>3. gcount'.resets = gcount.resets BY DEF BeginGhost, GhostInv
<1>4. gfile' \in Int /\ gfile' = gfile
  BY UploadIs DEF BeginGhost, GhostInv, Torn
<1>5. maprow' = u /\ \A v \in Uploaders \ {u} : ups[v].pc \in {"look", "take"} => maprow' = v
  BY UploadIs, ReplayAssumption DEF BeginGhost, WithReplayIds
<1> HIDE DEF w
<1> QED BY <1>1, <1>2, <1>3, <1>4, <1>5, UploadMoves

\* A look that finds a faster ghost ends the upload, any other goes on to take.
LEMMA LookKeeps ==
  ASSUME GhostInv, NEW u \in Uploaders, LookGhost(u) PROVE GhostInv'
<1>1. /\ ups[u].pc = "look" /\ maprow = u /\ ups[u].t > 0 /\ ups[u].t \in Nat /\ grow.time \in Nat
      /\ ups[u] \in UploadType /\ gfile \in Int
      /\ \A v \in Uploaders \ {u} : ups[v].pc \notin {"look", "take"}
  BY UploadIs DEF LookGhost, GhostInv, UploadType
<1>2. UNCHANGED <<grow, demo, gfile, rdr, syn, synced, gcount>> BY DEF LookGhost
<1>3. CASE grow.time # 0 /\ grow.time <= ups[u].t
  <2>1. ups' = [ups EXCEPT ![u] = Resting] BY <1>3 DEF LookGhost
  <2>2. Resting \in UploadType /\ Resting.pc = "idle" BY DEF Resting, UploadType
  <2> QED BY <1>1, <1>2, <2>1, <2>2, UploadMoves
<1>4. CASE ~(grow.time # 0 /\ grow.time <= ups[u].t)
  <2> DEFINE w == [ups[u] EXCEPT !.pc = "take"]
  <2>1. ups' = [ups EXCEPT ![u] = w] /\ maprow' = maprow BY <1>4 DEF LookGhost
  <2>2. w \in UploadType /\ w.pc = "take" /\ w.t = ups[u].t BY <1>1 DEF UploadType
  <2>3. grow.time = 0 \/ w.t < grow.time BY <1>1, <1>4, <2>2
  <2> HIDE DEF w
  <2> QED BY <1>1, <1>2, <2>1, <2>2, <2>3, UploadMoves
<1> QED BY <1>3, <1>4

\* The file is open and torn, over a row that has a payload.
LEMMA OpenKeeps ==
  ASSUME GhostInv, NEW u \in Uploaders, OpenGhostFile(u) PROVE GhostInv'
<1> DEFINE w == [ups[u] EXCEPT !.pc = "bytes"]
<1>1. w \in UploadType /\ w.pc = "bytes" /\ w.t = ups[u].t /\ w.t > 0 /\ grow.time \in 1..w.t /\ grow.pay # 0
  BY UploadIs, ReplayAssumption DEF OpenGhostFile, UploadType, Resting, GhostInv
<1>2. ups' = [ups EXCEPT ![u] = w] /\ UNCHANGED <<grow, demo, rdr, syn, synced>>
  BY DEF OpenGhostFile
<1>3. gcount'.resets = gcount.resets BY DEF OpenGhostFile, GhostInv
<1>4. gfile' \in Int /\ ~(gfile' > 0)
  BY UploadIs DEF OpenGhostFile, GhostInv, Torn
<1>5. \A v \in Uploaders \ {u} : ups[v].pc \in {"look", "take"} => maprow' = v
  BY UploadIs, ReplayAssumption DEF OpenGhostFile, WithReplayIds
<1> HIDE DEF w
<1> QED BY <1>1, <1>2, <1>3, <1>4, <1>5, UploadMoves

\* The file has the upload's trajectory, which was in the row.
LEMMA WriteFileKeeps ==
  ASSUME GhostInv, NEW u \in Uploaders, WriteGhostFile(u) PROVE GhostInv'
<1> DEFINE w == Resting
<1>1. w \in UploadType /\ w.pc = "idle"
  BY UploadIs, ReplayAssumption DEF WriteGhostFile, UploadType, Resting, GhostInv
<1>2. ups' = [ups EXCEPT ![u] = w] /\ UNCHANGED <<grow, demo, rdr, syn, synced>>
  BY DEF WriteGhostFile
<1>3. gcount'.resets = gcount.resets BY DEF WriteGhostFile, GhostInv
<1>4. gfile' \in Int /\ grow.pay # 0 /\ grow.time \in 1..gfile'
  BY UploadIs DEF WriteGhostFile, GhostInv, Torn
<1>5. \A v \in Uploaders \ {u} : ups[v].pc \in {"look", "take"} => maprow' = v
  BY UploadIs, ReplayAssumption DEF WriteGhostFile, WithReplayIds
<1> HIDE DEF w
<1> QED BY <1>1, <1>2, <1>3, <1>4, <1>5, UploadMoves

\* A crash gives back the map row and leaves the file as it is.
LEMMA CrashKeeps ==
  ASSUME GhostInv, NEW u \in Uploaders, GhostCrash(u) PROVE GhostInv'
<1> DEFINE w == Resting
<1>1. w \in UploadType /\ w.pc = "idle"
  BY UploadIs, ReplayAssumption DEF GhostCrash, UploadType, Resting, GhostInv
<1>2. ups' = [ups EXCEPT ![u] = w] /\ UNCHANGED <<grow, demo, rdr, syn, synced>>
  BY DEF GhostCrash
<1>3. gcount'.resets = gcount.resets BY DEF GhostCrash, GhostInv
<1>4. gfile' \in Int /\ gfile' = gfile
  BY UploadIs DEF GhostCrash, GhostInv, Torn
<1>5. \A v \in Uploaders \ {u} : ups[v].pc \in {"look", "take"} => maprow' = v
  BY UploadIs, ReplayAssumption DEF GhostCrash, WithReplayIds
<1> HIDE DEF w
<1> QED BY <1>1, <1>2, <1>3, <1>4, <1>5, UploadMoves

\* The row is taken by a faster run, under the map row's lock.
LEMMA TakeKeeps ==
  ASSUME GhostInv, NEW u \in Uploaders, TakeGhost(u) PROVE GhostInv'
<1> DEFINE w == [ups[u] EXCEPT !.pc = "file"]
           x == ups[u].t
<1>1. /\ ups[u].pc = "take" /\ maprow = u /\ x > 0 /\ x \in Nat /\ grow.time \in Nat
      /\ grow.time = 0 \/ x < grow.time
      /\ ups[u] \in UploadType /\ ups \in UpsType
      /\ \A v \in Uploaders \ {u} : ups[v].pc \notin {"look", "take"}
  BY UploadIs DEF TakeGhost, GhostInv, UploadType, UpsType
<1>2. /\ ups' = [ups EXCEPT ![u] = w] /\ grow' = [time |-> x, pay |-> x]
      /\ UNCHANGED <<demo, gfile, rdr, syn, synced, gcount>>
  BY DEF TakeGhost
<1>3. w \in UploadType /\ w.pc = "file" /\ w.t = x BY <1>1 DEF UploadType
<1> HIDE DEF w, x
<1>4. grow' \in [time : Nat, pay : Int] /\ grow'.time = x /\ grow'.pay = x /\ grow'.pay # 0 BY <1>1, <1>2
<1>5. ups' \in UpsType /\ ups'[u] = w /\ \A v \in Uploaders \ {u} : ups'[v] = ups[v] BY <1>1, <1>2, <1>3 DEF UpsType
<1>6. ASSUME NEW v \in Uploaders PROVE Placed(v)'
  <2>1. CASE v = u BY <2>1, <1>1, <1>3, <1>4, <1>5 DEF Placed
  <2>2. CASE v # u
    <3>1. ups'[v] = ups[v] /\ ups[v].t \in Nat /\ ups[v].pc \notin {"look", "take"}
          /\ (ups[v].pc # "idle" => ups[v].t > 0)
          /\ (ups[v].pc \in {"file", "bytes"} => grow.time \in 1..ups[v].t)
      BY <2>2, <1>1, <1>5, UploadIs
    <3>2. ups[v].pc \in {"file", "bytes"} => x \in 1..ups[v].t BY <3>1, <1>1
    <3> QED BY <3>1, <3>2, <1>4 DEF Placed
  <2> QED BY <2>1, <2>2
<1>7. /\ demo \in Nat /\ gfile \in Int /\ rdr \in Nat
      /\ syn \in [pc : {"idle", "row"}, pay : BOOLEAN] /\ gcount.resets \in Nat
      /\ (rdr # 0 => grow.time \in 1..rdr) /\ (gfile > 0 => grow.time \in 1..gfile)
  BY DEF GhostInv, FileBehindRow
<1>8. (rdr # 0 => x \in 1..rdr) /\ (gfile > 0 => x \in 1..gfile) BY <1>1, <1>7
<1> QED BY <1>1, <1>2, <1>4, <1>5, <1>6, <1>7, <1>8
        DEF GhostInv, UpsType, UploadType, Placed, FileBehindRow, GhostDurable

\* A payload is filled in from the file only where the row was found without one, and
\* then the file is the row's; everything restored was in the row.
LEMMA RestoreKeeps ==
  ASSUME GhostInv,
         UpsertPlayerDemo \/ ReadGhostPayload \/ RestoreGhostFile \/ SyncRows \/ SyncGhostPayloads \/ VolumeReset
  PROVE  GhostInv'
<1>1. /\ grow \in [time : Nat, pay : Int] /\ demo \in Nat /\ gfile \in Int /\ rdr \in Nat
      /\ syn \in [pc : {"idle", "row"}, pay : BOOLEAN] /\ gcount.resets \in Nat
      /\ ups \in UpsType /\ \A v \in Uploaders : Placed(v)
      /\ rdr # 0 => grow.time \in 1..rdr
      /\ syn.pc = "row" => grow.time # 0 /\ (syn.pay => grow.pay # 0)
      /\ grow.pay = 0 => gfile \in {0, grow.time} /\ rdr = 0 /\ (gcount.resets = 0 => gfile = grow.time)
      /\ (gfile > 0 => grow.time \in 1..gfile) /\ grow.pay \in {0, grow.time} /\ (synced => grow.pay # 0)
  BY GhostIs DEF FileBehindRow, GhostDurable
<1> DEFINE Good == /\ grow' \in [time : Nat, pay : Int] /\ demo' \in Nat /\ gfile' \in Int /\ rdr' \in Nat
                   /\ syn' \in [pc : {"idle", "row"}, pay : BOOLEAN] /\ gcount'.resets \in Nat
                   /\ grow'.time = grow.time /\ (grow.pay # 0 => grow'.pay # 0)
                   /\ rdr' # 0 => grow'.time \in 1..rdr'
                   /\ syn'.pc = "row" => grow'.time # 0 /\ (syn'.pay => grow'.pay # 0)
                   /\ grow'.pay = 0 => gfile' \in {0, grow'.time} /\ rdr' = 0
                                       /\ (gcount'.resets = 0 => gfile' = grow'.time)
                   /\ (gfile' > 0 => grow'.time \in 1..gfile') /\ grow'.pay \in {0, grow'.time}
                   /\ (synced' => grow'.pay # 0)
<1>2. UNCHANGED <<ups, maprow>>
  BY DEF UpsertPlayerDemo, ReadGhostPayload, RestoreGhostFile, SyncRows, SyncGhostPayloads, VolumeReset, Backfill
<1>3. ASSUME UpsertPlayerDemo PROVE Good
  <2>1. demo' \in Nat BY <1>3, ReplayAssumption DEF UpsertPlayerDemo
  <2>2. Good BY <1>1, <1>3, <2>1 DEF UpsertPlayerDemo
  <2> QED BY <2>2
<1>4. ASSUME ReadGhostPayload PROVE Good
  <2>1. Good BY <1>1, <1>4 DEF ReadGhostPayload
  <2> QED BY <2>1
<1>5. ASSUME RestoreGhostFile PROVE Good
  <2>1. Good BY <1>1, <1>5 DEF RestoreGhostFile
  <2> QED BY <2>1
<1>6. ASSUME SyncRows PROVE Good
  <2>1. syn' = [pc |-> "row", pay |-> grow.pay # 0] /\ grow.time # 0 BY <1>6 DEF SyncRows
  <2>2. syn' \in [pc : {"idle", "row"}, pay : BOOLEAN] BY <2>1
  <2>3. UNCHANGED <<grow, demo, gfile, rdr, synced, gcount>> BY <1>6 DEF SyncRows
  <2>4. syn'.pay => grow.pay # 0 BY <2>1
  <2> HIDE DEF Good
  <2>5. Good BY <1>1, <2>1, <2>2, <2>3, <2>4 DEF Good
  <2> QED BY <2>5
<1>7. ASSUME SyncGhostPayloads PROVE Good
  <2>1. syn' = [pc |-> "idle", pay |-> FALSE] /\ UNCHANGED <<demo, rdr, gcount>> /\ syn.pc = "row"
        /\ synced' = (synced \/ gcount.resets = 0)
    BY <1>7 DEF SyncGhostPayloads
  <2>2. syn' \in [pc : {"idle", "row"}, pay : BOOLEAN] BY <2>1
  <2>3. CASE ~syn.pay /\ gfile # 0
    <3>1. gfile' = gfile /\ grow' = [grow EXCEPT !.pay = IF @ = 0 THEN gfile ELSE @]
      BY <1>7, <2>3 DEF SyncGhostPayloads, Backfill
    <3>2. grow'.time = grow.time /\ grow' \in [time : Nat, pay : Int]
          /\ grow'.pay = IF grow.pay = 0 THEN gfile ELSE grow.pay
      BY <1>1, <3>1
    <3>3. grow'.pay # 0 /\ grow'.pay \in {0, grow.time} BY <1>1, <2>3, <3>2
    <3>4. Good BY <1>1, <2>1, <2>2, <3>1, <3>2, <3>3
    <3> QED BY <3>4
  <2>4. CASE ~(~syn.pay /\ gfile # 0)
    <3>1. grow' = grow /\ gfile' = IF syn.pay /\ gfile = 0 THEN grow.pay ELSE gfile
      BY <1>7, <2>4 DEF SyncGhostPayloads
    <3>2. CASE syn.pay
      <4>1. grow.pay # 0 /\ grow.pay = grow.time BY <1>1, <2>1, <3>2
      <4>2. Good BY <1>1, <2>1, <2>2, <3>1, <4>1
      <4> QED BY <4>2
    <3>3. CASE ~syn.pay
      <4>1. gfile = 0 /\ gfile' = gfile /\ grow.time # 0 BY <1>1, <2>1, <2>4, <3>1, <3>3
      <4>2. gcount.resets = 0 => grow.pay # 0 BY <1>1, <4>1
      <4>3. Good BY <1>1, <2>1, <2>2, <3>1, <4>1, <4>2
      <4> QED BY <4>3
    <3> QED BY <3>2, <3>3
  <2> QED BY <2>3, <2>4
<1>8. ASSUME VolumeReset PROVE Good
  <2>1. gcount'.resets \in Nat /\ gcount'.resets # 0 BY <1>1, <1>8 DEF VolumeReset
  <2>2. Good BY <1>1, <1>8, <2>1 DEF VolumeReset
  <2> QED BY <2>2
<1>9. Good BY <1>3, <1>4, <1>5, <1>6, <1>7, <1>8
<1> HIDE DEF Good
<1>10. /\ grow'.time = grow.time /\ (grow'.pay = 0 => grow.pay = 0) /\ ups' = ups /\ maprow' = maprow
  BY <1>2, <1>9 DEF Good
<1>11. ASSUME NEW v \in Uploaders PROVE Placed(v)'
  <2>1. Placed(v) BY <1>1
  <2> QED BY <2>1, <1>10 DEF Placed
<1>12. ups' \in UpsType BY <1>1, <1>10 DEF UpsType
<1>13. /\ grow' \in [time : Nat, pay : Int] /\ demo' \in Nat /\ gfile' \in Int /\ rdr' \in Nat
       /\ syn' \in [pc : {"idle", "row"}, pay : BOOLEAN] /\ gcount'.resets \in Nat
       /\ rdr' # 0 => grow'.time \in 1..rdr'
       /\ syn'.pc = "row" => grow'.time # 0 /\ (syn'.pay => grow'.pay # 0)
       /\ grow'.pay = 0 => gfile' \in {0, grow'.time} /\ rdr' = 0
                           /\ (gcount'.resets = 0 => gfile' = grow'.time)
       /\ FileBehindRow' /\ GhostDurable'
  BY <1>9 DEF Good, FileBehindRow, GhostDurable
<1> QED BY <1>11, <1>12, <1>13 DEF GhostInv, UpsType, UploadType, Placed

\* The ghosts' invariant holds under every step of the stores.
LEMMA GhostAlways == ReplaySpec => []GhostInv
<1>1. ASSUME GhostInv, [ReplayNext]_replayVars PROVE GhostInv'
  <2>1. CASE GhostNext
    <3>1. ASSUME NEW u \in Uploaders,
                 \/ Upload(u) \/ BeginGhost(u) \/ LookGhost(u) \/ TakeGhost(u)
                 \/ OpenGhostFile(u) \/ WriteGhostFile(u) \/ GhostCrash(u)
          PROVE  GhostInv'
      BY <1>1, <3>1, UploadKeeps, BeginKeeps, LookKeeps, TakeKeeps, OpenKeeps, WriteFileKeeps, CrashKeeps
    <3> QED BY <1>1, <2>1, <3>1, RestoreKeeps DEF GhostNext
  <2>2. CASE UNCHANGED ghostVars
    BY <1>1, <2>2 DEF GhostInv, ghostVars, FileBehindRow, GhostDurable
  <2> QED BY <1>1, <2>1, <2>2 DEF ReplayNext, replayVars, ghostVars
<1> QED BY <1>1, GhostsAtFirst, PTL DEF ReplaySpec, ReplayInit

\* The stored ghost and demo only ever get faster, whatever uploads overlap: what
\* upsertPlayerGhost compares and what it writes are one step of the map.
THEOREM RowsOnlyGetFaster == ReplaySpec => RowsOnlyFaster
<1> DEFINE Faster == (grow.time # 0 => grow'.time \in 1..grow.time) /\ (demo # 0 => demo' \in 1..demo)
<1>1. ASSUME GhostInv, [ReplayNext]_replayVars PROVE [Faster]_replayVars
  <2>1. grow.time \in Nat /\ demo \in Nat BY <1>1, GhostIs
  <2>2. ASSUME NEW u \in Uploaders, TakeGhost(u) PROVE Faster
    <3>1. ups[u].t > 0 /\ ups[u].t \in Nat /\ (grow.time = 0 \/ ups[u].t < grow.time)
      BY <1>1, <2>2, UploadIs DEF TakeGhost, UploadType
    <3>2. grow'.time = ups[u].t /\ demo' = demo BY <2>2 DEF TakeGhost
    <3> QED BY <2>1, <3>1, <3>2
  <2>3. CASE UpsertPlayerDemo
    BY <2>1, <2>3, ReplayAssumption DEF UpsertPlayerDemo
  <2>4. CASE SyncGhostPayloads
    <3>1. grow'.time = grow.time /\ demo' = demo
      BY <1>1, <2>4, GhostIs DEF SyncGhostPayloads, Backfill
    <3> QED BY <2>1, <3>1
  <2>5. CASE grow' = grow /\ demo' = demo BY <2>1, <2>5
  <2>6. CASE GhostNext
    <3>1. ASSUME NEW u \in Uploaders,
                 \/ Upload(u) \/ BeginGhost(u) \/ LookGhost(u)
                 \/ OpenGhostFile(u) \/ WriteGhostFile(u) \/ GhostCrash(u)
          PROVE  grow' = grow /\ demo' = demo
      BY <3>1 DEF Upload, BeginGhost, LookGhost, OpenGhostFile, WriteGhostFile, GhostCrash
    <3>2. ASSUME ReadGhostPayload \/ RestoreGhostFile \/ SyncRows \/ VolumeReset
          PROVE  grow' = grow /\ demo' = demo
      BY <3>2 DEF ReadGhostPayload, RestoreGhostFile, SyncRows, VolumeReset
    <3> QED BY <2>2, <2>3, <2>4, <2>5, <2>6, <3>1, <3>2 DEF GhostNext
  <2>7. CASE UNCHANGED ghostVars BY <2>5, <2>7 DEF ghostVars
  <2> QED BY <1>1, <2>6, <2>7 DEF ReplayNext, replayVars, ghostVars
<1> QED BY <1>1, GhostAlways, PTL DEF ReplaySpec, RowsOnlyFaster

-----------------------------------------------------------------------------
(* People.                                                                 *)

\* Every nick is of its key, and whatever else is of a key has that key.
LEMMA NicksHaveKeys ==
  /\ \A n \in Nicks : NickKey[n] \in Keys /\ n \in NicksOf(NickKey[n])
  /\ \A k, m : m \in OfKey(k) /\ m # NoNick => m \in Nicks /\ NickKey[m] = k /\ m \in NicksOf(k)
  /\ \A k : NicksOf(k) \subseteq Nicks /\ NoNick \in OfKey(k) /\ NicksOf(k) \subseteq OfKey(k)
<1>1. DOMAIN NickKey = Nicks BY ReplayAssumption
<1>2. \A n \in Nicks : NickKey[n] \in Keys BY <1>1 DEF Keys, Range
<1> QED BY <1>2 DEF NicksOf, OfKey

\* What a transaction sees of a key: a first of its own, or the row.
LEMMA FirstIs ==
  ASSUME NEW firsts, NEW k, NEW r
  PROVE  /\ (\A n \in firsts : NickKey[n] # k) => FirstOr(firsts, k, r) = r
         /\ (\E n \in firsts : NickKey[n] = k) =>
              FirstOr(firsts, k, r) \in firsts /\ NickKey[FirstOr(firsts, k, r)] = k
         /\ \A s : (\E n \in firsts : NickKey[n] = k) => FirstOr(firsts, k, s) = FirstOr(firsts, k, r)
<1> DEFINE own == {n \in firsts : NickKey[n] = k}
           c == CHOOSE n \in own : TRUE
<1>1. \A s : FirstOr(firsts, k, s) = IF own = {} THEN s ELSE c BY DEF FirstOr
<1>2. own # {} => c \in own OBVIOUS
<1>3. (\A n \in firsts : NickKey[n] # k) => own = {} OBVIOUS
<1>4. (\E n \in firsts : NickKey[n] = k) => own # {} OBVIOUS
<1> QED BY <1>1, <1>2, <1>3, <1>4

\* A first of another key changes nothing of what is seen of this one.
LEMMA FirstApart ==
  ASSUME NEW firsts, NEW k, NEW r, NEW n, NickKey[n] # k
  PROVE  FirstOr(firsts \cup {n}, k, r) = FirstOr(firsts, k, r)
<1> DEFINE own == {m \in firsts : NickKey[m] = k}
           now == {m \in firsts \cup {n} : NickKey[m] = k}
<1>1. now = own OBVIOUS
<1>2. FirstOr(firsts, k, r) = IF own = {} THEN r ELSE CHOOSE m \in own : TRUE BY DEF FirstOr
<1>3. FirstOr(firsts \cup {n}, k, r) = IF now = {} THEN r ELSE CHOOSE m \in now : TRUE BY DEF FirstOr
<1> HIDE DEF own, now
<1> QED BY <1>1, <1>2, <1>3

\* What is seen of a key is of that key.
LEMMA ViewIs ==
  ASSUME PeopleInv, NEW d \in Resolvers, NEW k \in Keys
  PROVE  /\ View(d, k) \in OfKey(k) /\ View(d, k) \in Nicks \cup {NoNick}
         /\ View(d, k) = rep[k] \/ View(d, k) \in tx[d].firsts
<1>1. rep[k] \in OfKey(k) /\ tx[d] \in TxType BY DEF PeopleInv, PeopleTypeOK
<1>2. tx[d].firsts \subseteq Nicks BY <1>1 DEF TxType
<1> DEFINE v == View(d, k)
<1>3. v = rep[k] \/ (v \in tx[d].firsts /\ NickKey[v] = k) BY FirstIs DEF View
<1> HIDE DEF v
<1>4. v \in OfKey(k)
  <2>1. v \in tx[d].firsts /\ NickKey[v] = k => v \in OfKey(k) BY <1>2 DEF OfKey, NicksOf
  <2> QED BY <1>1, <1>3, <2>1
<1>5. v \in Nicks \cup {NoNick} BY <1>4, NicksHaveKeys
<1> QED BY <1>3, <1>4, <1>5 DEF v

\* Groups as ingests leave them.
LEMMA PeopleAtFirst == PeopleInit => PeopleInv
<1> SUFFICES ASSUME PeopleInit PROVE PeopleInv OBVIOUS
<1>1. /\ rep \in [Keys -> Nicks \cup {NoNick}] /\ \A k \in Keys : rep[k] \in OfKey(k)
      /\ canon \in [Nicks -> Nicks \cup {NoNick}]
  BY DEF PeopleInit, OfKey
<1>2. ASSUME NEW n \in Nicks
      PROVE  canon[n] \in {NoNick, n, rep[NickKey[n]]} /\ (rep[NickKey[n]] = n => canon[n] = n)
  BY <1>2, ReplayAssumption DEF PeopleInit
<1>3. ASSUME NEW n \in Nicks PROVE canon[n] \in OfKey(NickKey[n])
  BY <1>1, <1>2, NicksHaveKeys
<1>4. ASSUME NEW k \in Keys, rep[k] # NoNick PROVE canon[rep[k]] = rep[k]
  BY <1>1, <1>2, <1>4, NicksHaveKeys
<1>5. NoTx \in TxType BY DEF NoTx, TxType
<1>6. NoTx.firsts = {} /\ NoTx.blank = {} /\ \A n \in Nicks : NoTx.ids[n] = NoNick BY DEF NoTx
<1>7. tx \in [Resolvers -> TxType] /\ \A d \in Resolvers : tx[d] = NoTx BY <1>5 DEF PeopleInit
<1>8. \A d \in Resolvers : TxInv(d) BY <1>6, <1>7 DEF TxInv
<1>9. /\ NoRebuild \in RebuildType /\ NoRebuild.pc = "idle" /\ NoRebuild.listed = {}
      /\ NoRebuild.new = [k \in Keys |-> NoNick]
  BY DEF NoRebuild, RebuildType
<1>10. /\ rowlock \in [Nicks -> Resolvers \cup {"none", "rebuild"}]
       /\ crow \in [Keys -> Resolvers \cup {"none", "rebuild"}]
       /\ rruns = {} /\ starts = {} /\ duels = {} /\ clearing = NoNick /\ rebuild = NoRebuild /\ rebuilds = 0
       /\ seized = {}
  BY DEF PeopleInit
<1>11. PeopleTypeOK BY <1>1, <1>3, <1>7, <1>9, <1>10, NicksHaveKeys DEF PeopleTypeOK
<1>12. RebuildInv BY <1>9, <1>10 DEF RebuildInv
<1>13. DuelTwoPeople BY <1>10 DEF DuelTwoPeople
<1> QED BY <1>4, <1>8, <1>10, <1>11, <1>12, <1>13 DEF PeopleInv

\* A step of one transaction that commits nothing: it changes no lock but its own.
LEMMA TxStepKeeps ==
  ASSUME PeopleInv, NEW d \in Resolvers, NEW w \in TxType, tx' = [tx EXCEPT ![d] = w],
         UNCHANGED <<rep, canon, duels, rruns, starts, clearing, rebuild, rebuilds, seized>>,
         rowlock' \in [Nicks -> Resolvers \cup {"none", "rebuild"}],
         crow' \in [Keys -> Resolvers \cup {"none", "rebuild"}],
         \A n \in Nicks : rowlock'[n] = rowlock[n] \/ (rowlock[n] \in {"none", d} /\ rowlock'[n] \in {"none", d}),
         TxInv(d)'
  PROVE  PeopleInv'
<1>1. PeopleTypeOK /\ RebuildInv /\ \A e \in Resolvers : TxInv(e) BY DEF PeopleInv
<1>2. tx' \in [Resolvers -> TxType] /\ tx'[d] = w /\ \A e \in Resolvers \ {d} : tx'[e] = tx[e]
  BY <1>1 DEF PeopleTypeOK
<1>3. ASSUME NEW e \in Resolvers PROVE TxInv(e)'
  <2>1. CASE e = d BY <2>1
  <2>2. CASE e # d
    <3>1. tx'[e] = tx[e] /\ TxInv(e) BY <1>1, <1>2, <2>2
    <3>2. \A n \in Nicks : rowlock[n] = e => rowlock'[n] = e BY <2>2, ReplayAssumption
    <3>3. \A k : View(e, k)' = View(e, k) BY <3>1 DEF View
    <3>4. tx[e].blank \cup tx[e].firsts \subseteq Nicks BY <1>1 DEF PeopleTypeOK, TxType
    <3> QED BY <3>1, <3>2, <3>3, <3>4 DEF TxInv
  <2> QED BY <2>1, <2>2
<1>4. RebuildInv'
  <2>1. \A n \in Nicks : rowlock[n] = "rebuild" => rowlock'[n] = "rebuild" BY ReplayAssumption
  <2>2. rebuild.listed \subseteq Nicks BY <1>1 DEF PeopleTypeOK, RebuildType
  <2> QED BY <1>1, <2>1, <2>2 DEF RebuildInv
<1>5. PeopleTypeOK' BY <1>1, <1>2 DEF PeopleTypeOK
<1>6. DuelTwoPeople' BY DEF PeopleInv, DuelTwoPeople
<1>7. /\ \A k \in Keys : rep'[k] # NoNick => canon'[rep'[k]] = rep'[k]
      /\ rebuilds' = 0 => \A k \in Keys \ seized' : (rruns' \cup starts') \cap NicksOf(k) \subseteq {rep'[k]}
  BY DEF PeopleInv
<1> QED BY <1>3, <1>4, <1>5, <1>6, <1>7 DEF PeopleInv

\* A transaction begins with nothing resolved.
LEMMA BeginTxKeeps == ASSUME PeopleInv, NEW d \in Resolvers, Begin(d) PROVE PeopleInv'
<1>1. PICK who \in SUBSET Nicks, kind \in {"duel", "run", "start", "race"} :
        tx' = [tx EXCEPT ![d] = [NoTx EXCEPT !.kind = kind, !.nicks = who]]
  BY DEF Begin
<1> DEFINE none == [n \in Nicks |-> NoNick]
           w == [NoTx EXCEPT !.kind = kind, !.nicks = who]
<1>2. w = [kind |-> kind, nicks |-> who, ids |-> none, firsts |-> {}, blank |-> {}]
  <2>1. NoTx = [kind |-> "none", nicks |-> {}, ids |-> none, firsts |-> {}, blank |-> {}] BY DEF NoTx
  <2> HIDE DEF none
  <2>2. w = [[kind |-> "none", nicks |-> {}, ids |-> none, firsts |-> {}, blank |-> {}] EXCEPT !.kind = kind, !.nicks = who]
    BY <2>1
  <2> HIDE DEF w
  <2> QED BY <2>2
<1>3. tx' = [tx EXCEPT ![d] = w] BY <1>1
<1> HIDE DEF w
<1>4. w \in TxType /\ w.firsts = {} /\ w.blank = {} /\ \A n \in Nicks : w.ids[n] = NoNick BY <1>2 DEF TxType
<1>5. /\ UNCHANGED <<rep, canon, rowlock, crow, duels, rruns, starts, clearing, rebuild, rebuilds, seized>>
      /\ rowlock \in [Nicks -> Resolvers \cup {"none", "rebuild"}]
      /\ crow \in [Keys -> Resolvers \cup {"none", "rebuild"}]
      /\ tx \in [Resolvers -> TxType]
  BY DEF Begin, PeopleInv, PeopleTypeOK
<1>6. tx'[d] = w BY <1>3, <1>5
<1>7. TxInv(d)' BY <1>4, <1>6 DEF TxInv
<1> QED BY <1>3, <1>4, <1>5, <1>7, TxStepKeeps

\* A transaction that ends gives back its rows and nobody else's.
LEMMA ReleasedIs ==
  ASSUME PeopleInv, NEW d, rowlock' = Released(d), crow' = KeysReleased(d)
  PROVE  /\ rowlock' \in [Nicks -> Resolvers \cup {"none", "rebuild"}]
         /\ crow' \in [Keys -> Resolvers \cup {"none", "rebuild"}]
         /\ \A n \in Nicks : rowlock'[n] = IF rowlock[n] = d THEN "none" ELSE rowlock[n]
BY DEF PeopleInv, PeopleTypeOK, Released, KeysReleased

\* What a transaction that is over holds, and what it knew.
LEMMA NoTxIs ==
  /\ NoTx \in TxType /\ NoTx.firsts = {} /\ NoTx.blank = {} /\ \A n \in Nicks : NoTx.ids[n] = NoNick
BY DEF NoTx, TxType

\* A rollback leaves no trace.
LEMMA RollbackKeeps == ASSUME PeopleInv, NEW d \in Resolvers, Rollback(d) PROVE PeopleInv'
<1>1. /\ tx' = [tx EXCEPT ![d] = NoTx] /\ rowlock' = Released(d) /\ crow' = KeysReleased(d)
      /\ UNCHANGED <<rep, canon, duels, rruns, starts, clearing, rebuild, rebuilds, seized>>
  BY DEF Rollback, Ended
<1>2. tx'[d] = NoTx BY <1>1 DEF PeopleInv, PeopleTypeOK
<1>3. TxInv(d)' BY <1>2, NoTxIs DEF TxInv
<1>4. /\ rowlock' \in [Nicks -> Resolvers \cup {"none", "rebuild"}]
      /\ crow' \in [Keys -> Resolvers \cup {"none", "rebuild"}]
      /\ \A n \in Nicks : rowlock'[n] = IF rowlock[n] = d THEN "none" ELSE rowlock[n]
  BY <1>1, ReleasedIs
<1> QED BY <1>1, <1>3, <1>4, NoTxIs, TxStepKeeps

\* The id read back is the representative seen.
LEMMA CanonIs ==
  ASSUME PeopleInv, NEW d \in Resolvers, NEW n \in Nicks, View(d, NickKey[n]) # NoNick
  PROVE  CanonOf(d, n) = View(d, NickKey[n]) /\ CanonOf(d, n) \in NicksOf(NickKey[n])
<1> DEFINE k == NickKey[n]
<1>1. k \in Keys BY NicksHaveKeys
<1>2. View(d, k) \in OfKey(k) /\ (View(d, k) = rep[k] \/ View(d, k) \in tx[d].firsts) BY <1>1, ViewIs
<1>3. View(d, k) = n /\ n \notin tx[d].firsts => canon[n] = n
  <2>1. \A j \in Keys : rep[j] # NoNick => canon[rep[j]] = rep[j] BY DEF PeopleInv
  <2>2. n # NoNick BY ReplayAssumption
  <2> QED BY <1>1, <1>2, <2>1, <2>2
<1>4. CanonOf(d, n) = View(d, k) BY <1>3 DEF CanonOf
<1> QED BY <1>2, <1>4, NicksHaveKeys

\* One nick is resolved, its player row locked until the transaction ends.
LEMMA ResolveKeeps == ASSUME PeopleInv, NEW d \in Resolvers, ResolvePlayer(d) PROVE PeopleInv'
<1>1. PICK n \in Unresolved(d) :
        /\ rowlock[n] \in {"none", d} /\ rowlock' = [rowlock EXCEPT ![n] = d]
        /\ tx' = [tx EXCEPT ![d] = IF View(d, NickKey[n]) = NoNick THEN [tx[d] EXCEPT !.blank = {n}]
                                   ELSE [tx[d] EXCEPT !.ids[n] = CanonOf(d, n)]]
  BY DEF ResolvePlayer
<1> DEFINE t == tx[d]
           c == CanonOf(d, n)
           w == IF View(d, NickKey[n]) = NoNick THEN [t EXCEPT !.blank = {n}] ELSE [t EXCEPT !.ids[n] = c]
<1>2. /\ t.blank = {}
      /\ UNCHANGED <<rep, canon, crow, duels, rruns, starts, clearing, rebuild, rebuilds, seized>>
  BY DEF ResolvePlayer
<1>3. /\ rowlock \in [Nicks -> Resolvers \cup {"none", "rebuild"}]
      /\ crow \in [Keys -> Resolvers \cup {"none", "rebuild"}]
      /\ tx \in [Resolvers -> TxType] /\ t \in TxType /\ TxInv(d)
  BY DEF PeopleInv, PeopleTypeOK
<1>4. n \in Nicks /\ n \in t.nicks /\ t.ids[n] = NoNick BY <1>1, <1>3 DEF Unresolved, TxType
<1>5. /\ rowlock' \in [Nicks -> Resolvers \cup {"none", "rebuild"}] /\ rowlock'[n] = d
      /\ \A m \in Nicks \ {n} : rowlock'[m] = rowlock[m]
  BY <1>1, <1>3, <1>4
<1>6. View(d, NickKey[n]) # NoNick => c = View(d, NickKey[n]) /\ c \in NicksOf(NickKey[n]) BY <1>4, CanonIs
<1>7. tx' = [tx EXCEPT ![d] = w] BY <1>1
<1> HIDE DEF c
<1>8. /\ w \in TxType /\ w.nicks = t.nicks /\ w.firsts = t.firsts
      /\ \A m \in Nicks \ {n} : w.ids[m] = t.ids[m]
      /\ View(d, NickKey[n]) = NoNick => w.blank = {n} /\ w.ids[n] = NoNick
      /\ View(d, NickKey[n]) # NoNick => w.blank = {} /\ w.ids[n] = c
  <2>1. CASE View(d, NickKey[n]) = NoNick
    <3>1. w = [t EXCEPT !.blank = {n}] BY <2>1
    <3> HIDE DEF w, t
    <3> QED BY <1>3, <1>4, <2>1, <3>1 DEF TxType
  <2>2. CASE View(d, NickKey[n]) # NoNick
    <3>1. w = [t EXCEPT !.ids = [t.ids EXCEPT ![n] = c]] BY <2>2
    <3>2. c \in Nicks BY <1>6, <2>2, NicksHaveKeys
    <3> DEFINE f == [t.ids EXCEPT ![n] = c]
    <3>3. f \in [Nicks -> Nicks \cup {NoNick}] /\ f[n] = c /\ \A m \in Nicks \ {n} : f[m] = t.ids[m]
      BY <1>3, <1>4, <3>2 DEF TxType
    <3>4. w = [t EXCEPT !.ids = f] BY <3>1
    <3> HIDE DEF w, t, f
    <3> QED BY <1>2, <1>3, <2>2, <3>3, <3>4 DEF TxType
  <2> QED BY <2>1, <2>2
<1> HIDE DEF w
<1>9. tx'[d] = w BY <1>3, <1>7
<1>10. \A k : View(d, k)' = View(d, k) BY <1>2, <1>8, <1>9 DEF View
<1>11. TxInv(d)'
  <2>1. \A m \in w.blank \cup w.firsts : m \in w.nicks /\ rowlock'[m] = d
    <3>1. t.firsts \subseteq Nicks BY <1>3 DEF TxType
    <3> QED BY <1>2, <1>3, <1>4, <1>5, <1>8, <3>1 DEF TxInv
  <2>2. \A m \in w.firsts : w.ids[m] = m
    <3>1. t.firsts \subseteq Nicks /\ n \notin t.firsts BY <1>3, <1>4, ReplayAssumption DEF TxType, TxInv
    <3> QED BY <1>3, <1>8, <3>1 DEF TxInv
  <2>3. ASSUME NEW m \in Nicks, w.ids[m] # NoNick
        PROVE  /\ m \in w.nicks /\ rowlock'[m] = d /\ w.ids[m] \in NicksOf(NickKey[m])
               /\ View(d, NickKey[m]) = m => w.ids[m] = m
               /\ NickKey[m] \notin seized =>
                    w.ids[m] = View(d, NickKey[m]) /\ \A x \in w.blank : NickKey[x] # NickKey[m]
    <3>1. CASE m = n BY <1>4, <1>5, <1>6, <1>8, <2>3, <3>1
    <3>2. CASE m # n
      <4>1. t.ids[m] # NoNick /\ w.ids[m] = t.ids[m] /\ rowlock'[m] = rowlock[m] BY <1>5, <1>8, <2>3, <3>2
      <4>2. /\ m \in t.nicks /\ rowlock[m] = d /\ t.ids[m] \in NicksOf(NickKey[m])
            /\ View(d, NickKey[m]) = m => t.ids[m] = m
            /\ NickKey[m] \notin seized => t.ids[m] = View(d, NickKey[m])
        BY <1>3, <4>1 DEF TxInv
      <4>3. NickKey[m] \notin seized => \A x \in w.blank : NickKey[x] # NickKey[m] BY <1>8, <4>1, <4>2
      <4> QED BY <1>8, <4>1, <4>2, <4>3
    <3> QED BY <3>1, <3>2
  <2> QED BY <1>2, <1>9, <1>10, <2>1, <2>2, <2>3 DEF TxInv
<1>12. \A m \in Nicks : rowlock'[m] = rowlock[m] \/ (rowlock[m] \in {"none", d} /\ rowlock'[m] \in {"none", d})
  BY <1>1, <1>5
<1> QED BY <1>2, <1>3, <1>5, <1>7, <1>8, <1>11, <1>12, TxStepKeeps

\* The first of a key takes the key's row.
LEMMA InsertKeeps == ASSUME PeopleInv, NEW d \in Resolvers, InsertFirst(d) PROVE PeopleInv'
<1> DEFINE t == tx[d]
<1>1. PICK n \in t.blank :
        /\ crow' = [crow EXCEPT ![NickKey[n]] = d]
        /\ tx' = [tx EXCEPT ![d] = [t EXCEPT !.blank = {}, !.firsts = t.firsts \cup {n}, !.ids[n] = n]]
  BY DEF InsertFirst
<1> DEFINE w == [t EXCEPT !.blank = {}, !.firsts = t.firsts \cup {n}, !.ids[n] = n]
<1>2. UNCHANGED <<rep, canon, rowlock, duels, rruns, starts, clearing, rebuild, rebuilds, seized>>
  BY DEF InsertFirst
<1>3. /\ rowlock \in [Nicks -> Resolvers \cup {"none", "rebuild"}]
      /\ crow \in [Keys -> Resolvers \cup {"none", "rebuild"}]
      /\ tx \in [Resolvers -> TxType] /\ t \in TxType /\ TxInv(d)
  BY DEF PeopleInv, PeopleTypeOK
<1>4. n \in Nicks /\ n \in t.nicks /\ rowlock[n] = d /\ t.firsts \subseteq Nicks BY <1>3 DEF TxType, TxInv
<1>5. crow' \in [Keys -> Resolvers \cup {"none", "rebuild"}] BY <1>1, <1>3, <1>4, NicksHaveKeys
<1>6. /\ w \in TxType /\ w.nicks = t.nicks /\ w.blank = {} /\ w.firsts = t.firsts \cup {n}
      /\ w.ids[n] = n /\ \A m \in Nicks \ {n} : w.ids[m] = t.ids[m]
  <2> DEFINE f == [t.ids EXCEPT ![n] = n]
             g == t.firsts \cup {n}
  <2>1. f \in [Nicks -> Nicks \cup {NoNick}] /\ f[n] = n /\ \A m \in Nicks \ {n} : f[m] = t.ids[m]
    BY <1>3, <1>4 DEF TxType
  <2>2. g \in SUBSET Nicks BY <1>4
  <2>3. w = [t EXCEPT !.blank = {}, !.firsts = g, !.ids = f] OBVIOUS
  <2> HIDE DEF w, t, f, g
  <2>4. w \in TxType /\ w.nicks = t.nicks /\ w.blank = {} /\ w.firsts = g /\ w.ids = f
    BY <1>3, <2>1, <2>2, <2>3 DEF TxType
  <2> QED BY <2>1, <2>4 DEF g
<1>7. tx' = [tx EXCEPT ![d] = w] BY <1>1
<1> HIDE DEF w
<1>8. tx'[d] = w BY <1>3, <1>7
<1> DEFINE seen(k) == FirstOr(t.firsts \cup {n}, k, rep[k])
<1>9. \A k : View(d, k)' = seen(k) BY <1>2, <1>6, <1>8 DEF View
<1>10. ASSUME NEW k, k # NickKey[n] PROVE seen(k) = View(d, k) BY <1>10, FirstApart DEF View
<1>11. seen(NickKey[n]) \in t.firsts \cup {n} /\ NickKey[seen(NickKey[n])] = NickKey[n] BY FirstIs
<1> HIDE DEF seen
<1>12. \A m \in t.firsts : t.ids[m] = m /\ m # NoNick BY <1>3, <1>4, ReplayAssumption DEF TxInv
<1>13. TxInv(d)'
  <2>1. \A m \in w.blank \cup w.firsts : m \in w.nicks /\ rowlock'[m] = d BY <1>2, <1>3, <1>4, <1>6 DEF TxInv
  <2>2. \A m \in w.firsts : w.ids[m] = m BY <1>4, <1>6, <1>12
  <2>3. ASSUME NEW m \in Nicks, w.ids[m] # NoNick
        PROVE  /\ m \in w.nicks /\ rowlock'[m] = d /\ w.ids[m] \in NicksOf(NickKey[m])
               /\ seen(NickKey[m]) = m => w.ids[m] = m
               /\ NickKey[m] \notin seized =>
                    w.ids[m] = seen(NickKey[m]) /\ \A x \in w.blank : NickKey[x] # NickKey[m]
    <3>1. CASE m = n
      <4>1. NickKey[n] \notin seized => seen(NickKey[n]) = n
        <5> SUFFICES ASSUME NickKey[n] \notin seized, seen(NickKey[n]) # n PROVE FALSE OBVIOUS
        <5> DEFINE f == seen(NickKey[n])
        <5>1. f \in t.firsts /\ NickKey[f] = NickKey[n] BY <1>11
        <5>2. f \in Nicks /\ t.ids[f] # NoNick BY <1>4, <1>12, <5>1
        <5>3. NickKey[n] # NickKey[f] BY <1>3, <5>1, <5>2 DEF TxInv
        <5> QED BY <5>1, <5>3
      <4> QED BY <1>2, <1>4, <1>6, <3>1, <4>1, NicksHaveKeys
    <3>2. CASE m # n
      <4>1. t.ids[m] # NoNick /\ w.ids[m] = t.ids[m] BY <1>6, <2>3, <3>2
      <4>2. /\ m \in t.nicks /\ rowlock[m] = d /\ t.ids[m] \in NicksOf(NickKey[m])
            /\ View(d, NickKey[m]) = m => t.ids[m] = m
            /\ NickKey[m] \notin seized => t.ids[m] = View(d, NickKey[m]) /\ NickKey[n] # NickKey[m]
        BY <1>3, <4>1 DEF TxInv
      <4>3. seen(NickKey[m]) = m => w.ids[m] = m
        <5>1. CASE NickKey[m] # NickKey[n] BY <1>10, <4>1, <4>2, <5>1
        <5>2. CASE NickKey[m] = NickKey[n]
          <6>1. seen(NickKey[m]) = m => m \in t.firsts BY <1>11, <3>2, <5>2
          <6> QED BY <1>12, <4>1, <6>1
        <5> QED BY <5>1, <5>2
      <4>4. NickKey[m] \notin seized => w.ids[m] = seen(NickKey[m]) BY <1>10, <4>1, <4>2
      <4> QED BY <1>2, <1>6, <4>1, <4>2, <4>3, <4>4
    <3> QED BY <3>1, <3>2
  <2> QED BY <1>2, <1>8, <1>9, <2>1, <2>2, <2>3 DEF TxInv
<1> QED BY <1>2, <1>3, <1>5, <1>6, <1>7, <1>13, TxStepKeeps

\* The commit: what the transaction saw of each key is what there is, and a key it takes
\* from another representative is on record.
LEMMA CommitKeeps == ASSUME PeopleInv, NEW d \in Resolvers, Commit(d) PROVE PeopleInv'
<1> DEFINE t == tx[d]
<1>1. /\ t.blank = {} /\ Unresolved(d) = {} /\ (t.kind = "duel" => Cardinality(Ids(d)) = 2)
      /\ rep' = [k \in Keys |-> View(d, k)]
      /\ canon' = [n \in Nicks |-> IF n \in t.nicks THEN t.ids[n] ELSE canon[n]]
      /\ seized' = seized \cup {k \in Keys : rep[k] \notin {NoNick, View(d, k)}}
      /\ duels' \in {duels, duels \cup {Ids(d)}}
      /\ rruns' \in {rruns, rruns \cup Ids(d)} /\ starts' \in {starts, starts \cup Ids(d)}
      /\ tx' = [tx EXCEPT ![d] = NoTx] /\ rowlock' = Released(d) /\ crow' = KeysReleased(d)
      /\ UNCHANGED <<clearing, rebuild, rebuilds>>
  BY DEF Commit, Ended
<1>2. /\ PeopleTypeOK /\ RebuildInv /\ \A e \in Resolvers : TxInv(e)
      /\ \A k \in Keys : rep[k] # NoNick => canon[rep[k]] = rep[k]
      /\ rebuilds = 0 => \A k \in Keys \ seized : (rruns \cup starts) \cap NicksOf(k) \subseteq {rep[k]}
      /\ DuelTwoPeople
  BY DEF PeopleInv
<1>3. t \in TxType /\ t.nicks \subseteq Nicks BY <1>2 DEF PeopleTypeOK, TxType
<1>4. ASSUME NEW n \in t.nicks
      PROVE  /\ t.ids[n] # NoNick /\ t.ids[n] \in NicksOf(NickKey[n])
             /\ View(d, NickKey[n]) = n => t.ids[n] = n
             /\ NickKey[n] \notin seized => t.ids[n] = View(d, NickKey[n])
  <2>1. n \in Nicks /\ t.ids[n] # NoNick BY <1>1, <1>3, <1>4 DEF Unresolved
  <2> QED BY <1>2, <2>1 DEF TxInv
<1>5. \A k \in Keys : /\ rep'[k] = View(d, k) /\ View(d, k) \in OfKey(k)
                      /\ (View(d, k) = rep[k] \/ View(d, k) \in t.firsts)
  BY <1>1, ViewIs
<1>6. \A n \in Nicks : canon'[n] = IF n \in t.nicks THEN t.ids[n] ELSE canon[n] BY <1>1
<1>7. seized' \subseteq Keys /\ seized \subseteq seized'
      /\ \A k \in Keys \ seized' : rep[k] \in {NoNick, rep'[k]}
  BY <1>1, <1>2, <1>5 DEF PeopleTypeOK
<1>8. /\ rowlock' \in [Nicks -> Resolvers \cup {"none", "rebuild"}]
      /\ crow' \in [Keys -> Resolvers \cup {"none", "rebuild"}]
      /\ \A n \in Nicks : rowlock'[n] = IF rowlock[n] = d THEN "none" ELSE rowlock[n]
  BY <1>1, ReleasedIs
<1>9. ASSUME NEW x \in Ids(d)
      PROVE  /\ x \in Nicks /\ \E n \in t.nicks : x = t.ids[n] /\ NickKey[x] = NickKey[n]
             /\ NickKey[x] \in Keys /\ (NickKey[x] \notin seized => x = View(d, NickKey[x]))
  <2>1. PICK n \in t.nicks : x = t.ids[n] BY <1>9 DEF Ids
  <2>2. x \in NicksOf(NickKey[n]) /\ (NickKey[n] \notin seized => x = View(d, NickKey[n])) BY <1>4, <2>1
  <2>3. x \in Nicks /\ NickKey[x] = NickKey[n] BY <2>2 DEF NicksOf
  <2> QED BY <2>1, <2>2, <2>3, NicksHaveKeys
<1>10. PeopleTypeOK'
  <2>1. rep' \in [Keys -> Nicks \cup {NoNick}] /\ \A k \in Keys : rep'[k] \in OfKey(k)
    <3>1. \A k \in Keys : View(d, k) \in Nicks \cup {NoNick} BY ViewIs
    <3> QED BY <1>1, <1>5, <3>1
  <2>2. canon' \in [Nicks -> Nicks \cup {NoNick}] /\ \A n \in Nicks : canon'[n] \in OfKey(NickKey[n])
    <3>1. ASSUME NEW n \in Nicks PROVE canon'[n] \in OfKey(NickKey[n]) /\ canon'[n] \in Nicks \cup {NoNick}
      <4>1. CASE n \in t.nicks BY <1>4, <1>6, <4>1, NicksHaveKeys
      <4>2. CASE n \notin t.nicks BY <1>2, <1>6, <4>2 DEF PeopleTypeOK
      <4> QED BY <4>1, <4>2
    <3> QED BY <1>1, <1>6, <3>1
  <2>3. tx' \in [Resolvers -> TxType] BY <1>1, <1>2, NoTxIs DEF PeopleTypeOK
  <2>4. rruns' \subseteq Nicks /\ starts' \subseteq Nicks /\ duels' \subseteq SUBSET Nicks
    <3>1. Ids(d) \subseteq Nicks BY <1>9
    <3> QED BY <1>1, <1>2, <3>1 DEF PeopleTypeOK
  <2> QED BY <1>1, <1>2, <1>7, <1>8, <2>1, <2>2, <2>3, <2>4 DEF PeopleTypeOK
<1>11. RebuildInv'
  <2>1. d # "rebuild" /\ rebuild.listed \subseteq Nicks
    BY <1>2, ReplayAssumption DEF PeopleTypeOK, RebuildType
  <2> QED BY <1>1, <1>2, <1>8, <2>1 DEF RebuildInv
<1>12. ASSUME NEW e \in Resolvers PROVE TxInv(e)'
  <2>1. CASE e = d
    <3>1. tx'[d] = NoTx BY <1>1, <1>2 DEF PeopleTypeOK
    <3> QED BY <2>1, <3>1, NoTxIs DEF TxInv
  <2>2. CASE e # d
    <3>1. tx'[e] = tx[e] /\ TxInv(e) /\ tx[e] \in TxType BY <1>1, <1>2, <2>2 DEF PeopleTypeOK
    <3>2. \A n \in Nicks : rowlock[n] = e => rowlock'[n] = e BY <1>8, <2>2
    <3>3. tx[e].blank \cup tx[e].firsts \subseteq Nicks BY <3>1 DEF TxType
    <3>4. ASSUME NEW n \in Nicks, tx[e].ids[n] # NoNick
          PROVE  /\ View(e, NickKey[n])' = n => tx[e].ids[n] = n
                 /\ NickKey[n] \notin seized' =>
                      tx[e].ids[n] = View(e, NickKey[n])' /\ \A m \in tx[e].blank : NickKey[m] # NickKey[n]
      <4> DEFINE k == NickKey[n]
      <4>1. k \in Keys BY NicksHaveKeys
      <4>2. /\ rowlock[n] = e /\ (View(e, k) = n => tx[e].ids[n] = n)
            /\ k \notin seized => tx[e].ids[n] = View(e, k) /\ \A m \in tx[e].blank : NickKey[m] # k
        BY <3>1, <3>4 DEF TxInv
      <4>3. View(e, k)' = FirstOr(tx[e].firsts, k, rep'[k]) /\ View(e, k) = FirstOr(tx[e].firsts, k, rep[k])
        BY <3>1 DEF View
      <4>4. CASE \E m \in tx[e].firsts : NickKey[m] = k
        <5>1. View(e, k)' = View(e, k) BY <4>3, <4>4, FirstIs
        <5> QED BY <1>7, <4>2, <5>1
      <4>5. CASE \A m \in tx[e].firsts : NickKey[m] # k
        <5>1. View(e, k)' = rep'[k] /\ View(e, k) = rep[k] BY <4>3, <4>5, FirstIs
        <5>2. rep'[k] = n => rep[k] = n
          <6>1. n \in t.firsts => rowlock[n] = d BY <1>2 DEF TxInv
          <6> QED BY <1>5, <2>2, <4>1, <4>2, <6>1
        <5>3. k \notin seized' => rep[k] = rep'[k] BY <1>7, <3>4, <4>1, <4>2, <5>1
        <5> QED BY <1>7, <4>2, <5>1, <5>2, <5>3
      <4> QED BY <4>4, <4>5
    <3> QED BY <3>1, <3>2, <3>3, <3>4 DEF TxInv
  <2> QED BY <2>1, <2>2
<1>13. ASSUME NEW k \in Keys, rep'[k] # NoNick PROVE canon'[rep'[k]] = rep'[k]
  <2> DEFINE v == rep'[k]
  <2>1. v \in Nicks /\ NickKey[v] = k /\ v = View(d, k) BY <1>5, <1>13, NicksHaveKeys
  <2>2. CASE v \in t.nicks BY <1>4, <1>6, <2>1, <2>2
  <2>3. CASE v \notin t.nicks
    <3>1. v \notin t.firsts BY <1>2, <2>3 DEF TxInv
    <3>2. v = rep[k] BY <1>5, <2>1, <3>1
    <3> QED BY <1>2, <1>6, <1>13, <2>1, <2>3, <3>2
  <2> QED BY <2>2, <2>3
<1>14. ASSUME rebuilds' = 0, NEW k \in Keys \ seized', NEW n \in (rruns' \cup starts') \cap NicksOf(k)
       PROVE  n = rep'[k]
  <2>1. k \notin seized /\ n \in Nicks /\ NickKey[n] = k BY <1>7, <1>14 DEF NicksOf
  <2>2. CASE n \in Ids(d) BY <1>5, <1>9, <2>1, <2>2
  <2>3. CASE n \in rruns \cup starts
    <3>1. n = rep[k] BY <1>1, <1>2, <1>14, <2>1, <2>3
    <3>2. n # NoNick BY <2>1, ReplayAssumption
    <3> QED BY <1>7, <3>1, <3>2
  <2> QED BY <1>1, <1>14, <2>2, <2>3
<1>15. DuelTwoPeople'
  <2> SUFFICES ASSUME NEW ids \in duels', NEW x \in ids, NEW y \in ids, x # y,
                      NickKey[x] = NickKey[y], NickKey[x] \notin seized'
               PROVE  FALSE
    BY DEF DuelTwoPeople
  <2>1. CASE ids \in duels BY <1>2, <1>7, <2>1 DEF DuelTwoPeople
  <2>2. CASE ids = Ids(d) BY <1>7, <1>9, <2>2
  <2> QED BY <1>1, <2>1, <2>2
<1>16. /\ \A k \in Keys : rep'[k] # NoNick => canon'[rep'[k]] = rep'[k]
       /\ rebuilds' = 0 => \A k \in Keys \ seized' : (rruns' \cup starts') \cap NicksOf(k) \subseteq {rep'[k]}
  BY <1>13, <1>14
<1>17. \A e \in Resolvers : TxInv(e)' BY <1>12
<1> QED BY <1>10, <1>11, <1>15, <1>16, <1>17 DEF PeopleInv

\* /clearstart takes a row away and puts none there.
LEMMA ClearKeeps ==
  ASSUME PeopleInv, (\E n \in Nicks : FindStart(n)) \/ DeleteSavedStart PROVE PeopleInv'
<1>1. /\ UNCHANGED <<rep, canon, rowlock, crow, tx, duels, rruns, rebuild, rebuilds, seized>>
      /\ starts' \subseteq starts
  BY DEF FindStart, DeleteSavedStart
<1>2. clearing' \in Nicks \cup {NoNick}
  <2>1. \A n \in Nicks : rep[NickKey[n]] \in Nicks \cup {NoNick}
    BY NicksHaveKeys DEF PeopleInv, PeopleTypeOK
  <2> QED BY <2>1 DEF FindStart, DeleteSavedStart
<1>3. PeopleTypeOK' BY <1>1, <1>2 DEF PeopleInv, PeopleTypeOK
<1>4. RebuildInv' /\ DuelTwoPeople' BY <1>1 DEF PeopleInv, RebuildInv, DuelTwoPeople
<1>5. \A d \in Resolvers : TxInv(d)'
  <2>1. \A d, k : View(d, k)' = View(d, k) BY <1>1 DEF View
  <2>2. \A d \in Resolvers : TxInv(d) BY DEF PeopleInv
  <2> QED BY <1>1, <2>1, <2>2 DEF TxInv
<1>6. /\ \A k \in Keys : rep'[k] # NoNick => canon'[rep'[k]] = rep'[k]
      /\ rebuilds' = 0 => \A k \in Keys \ seized' : (rruns' \cup starts') \cap NicksOf(k) \subseteq {rep'[k]}
  BY <1>1 DEF PeopleInv
<1> QED BY <1>3, <1>4, <1>5, <1>6 DEF PeopleInv

\* A step of the rebuild that moves no representative.
LEMMA RebuildMoves ==
  ASSUME PeopleInv, UNCHANGED <<rep, canon, tx, duels, rruns, starts, clearing, seized>>,
         rowlock' \in [Nicks -> Resolvers \cup {"none", "rebuild"}],
         crow' \in [Keys -> Resolvers \cup {"none", "rebuild"}],
         \A n \in Nicks : rowlock[n] \in Resolvers => rowlock'[n] = rowlock[n],
         rebuild' \in RebuildType, \A k \in Keys : rebuild'.new[k] \in OfKey(k), RebuildInv',
         rebuilds' \in Nat, rebuilds' = 0 => rebuilds = 0
  PROVE  PeopleInv'
<1>1. PeopleTypeOK' BY DEF PeopleInv, PeopleTypeOK
<1>2. DuelTwoPeople' BY DEF PeopleInv, DuelTwoPeople
<1>3. ASSUME NEW d \in Resolvers PROVE TxInv(d)'
  <2>1. \A k : View(d, k)' = View(d, k) BY DEF View
  <2>2. TxInv(d) /\ tx[d].blank \cup tx[d].firsts \subseteq Nicks BY DEF PeopleInv, PeopleTypeOK, TxType
  <2>3. \A n \in Nicks : rowlock[n] = d => rowlock'[n] = d OBVIOUS
  <2> QED BY <2>1, <2>2, <2>3 DEF TxInv
<1>4. /\ \A k \in Keys : rep'[k] # NoNick => canon'[rep'[k]] = rep'[k]
      /\ rebuilds' = 0 => \A k \in Keys \ seized' : (rruns' \cup starts') \cap NicksOf(k) \subseteq {rep'[k]}
  BY DEF PeopleInv
<1> QED BY <1>1, <1>2, <1>3, <1>4 DEF PeopleInv

\* No rebuild is under way.
LEMMA NoRebuildIs ==
  /\ NoRebuild \in RebuildType /\ NoRebuild.pc = "idle" /\ NoRebuild.listed = {}
  /\ \A k \in Keys : NoRebuild.new[k] = NoNick /\ NoRebuild.new[k] \in OfKey(k)
BY NicksHaveKeys DEF NoRebuild, RebuildType

\* rebuildCanonical lists and chooses, deletes, and takes the rows; or it fails.
LEMMA RebuildKeeps ==
  ASSUME PeopleInv, RebuildBegins \/ RebuildDelete \/ RebuildTakes \/ RebuildAborts PROVE PeopleInv'
<1>1. PeopleTypeOK /\ RebuildInv BY DEF PeopleInv
<1>2. /\ rowlock \in [Nicks -> Resolvers \cup {"none", "rebuild"}] /\ rebuild \in RebuildType /\ rebuilds \in Nat
      /\ crow \in [Keys -> Resolvers \cup {"none", "rebuild"}]
      /\ \A k \in Keys : rebuild.new[k] \in OfKey(k)
  BY <1>1 DEF PeopleTypeOK
<1>3. CASE RebuildBegins
  <2>1. PICK f \in [Keys -> Nicks \cup {NoNick}] :
          /\ \A k \in Keys : f[k] \in IF Listed \cap NicksOf(k) = {} THEN {NoNick} ELSE Listed \cap NicksOf(k)
          /\ rebuild' = [NoRebuild EXCEPT !.pc = "listed", !.listed = Listed, !.new = f]
    BY <1>3 DEF RebuildBegins
  <2>2. /\ UNCHANGED <<rep, canon, rowlock, crow, tx, duels, rruns, starts, clearing, seized>>
        /\ rebuilds' \in Nat /\ rebuilds' # 0
    <3>1. UNCHANGED <<rep, canon, rowlock, crow, tx, duels, rruns, starts, clearing, seized>> /\ rebuilds' = rebuilds + 1
      BY <1>3 DEF RebuildBegins
    <3>2. rebuilds' \in Nat /\ rebuilds' # 0 BY <1>2, <3>1
    <3> QED BY <3>1, <3>2
  <2>3. Listed \subseteq Nicks BY DEF Listed
  <2>4. rebuild' = [pc |-> "listed", listed |-> Listed, keys |-> {}, left |-> {}, new |-> f]
    BY <2>1 DEF NoRebuild
  <2>5. /\ rebuild' \in RebuildType /\ rebuild'.pc = "listed" /\ rebuild'.listed = Listed /\ rebuild'.new = f
    BY <2>3, <2>4 DEF RebuildType
  <2>6. \A k \in Keys : f[k] \in OfKey(k) /\ f[k] \in Listed \cup {NoNick} BY <2>1, NicksHaveKeys
  <2>7. \A n \in Listed : f[NickKey[n]] # NoNick
    <3> TAKE n \in Listed
    <3>1. n \in Nicks /\ NickKey[n] \in Keys /\ n \in NicksOf(NickKey[n]) BY <2>3, NicksHaveKeys
    <3>2. f[NickKey[n]] \in Listed BY <2>1, <3>1
    <3> QED BY <2>3, <3>2, ReplayAssumption
  <2>8. RebuildInv' BY <2>2, <2>5, <2>6, <2>7 DEF RebuildInv
  <2> QED BY <1>2, <2>2, <2>5, <2>6, <2>8, RebuildMoves
<1>4. CASE RebuildDelete
  <2> DEFINE ks == {k \in Keys : rep[k] # NoNick}
  <2>1. /\ rebuild.pc = "listed"
        /\ rebuild' = [rebuild EXCEPT !.pc = "rows", !.keys = ks, !.left = rebuild.listed]
        /\ UNCHANGED <<rep, canon, rowlock, crow, tx, duels, rruns, starts, clearing, rebuilds, seized>>
    BY <1>4 DEF RebuildDelete
  <2>2. ks \in SUBSET Keys OBVIOUS
  <2> HIDE DEF ks
  <2>3. /\ rebuild' \in RebuildType /\ rebuild'.listed = rebuild.listed /\ rebuild'.left = rebuild.listed
        /\ rebuild'.new = rebuild.new
    BY <1>2, <2>1, <2>2 DEF RebuildType
  <2>4. RebuildInv' BY <1>1, <2>1, <2>3 DEF RebuildInv
  <2> QED BY <1>2, <2>1, <2>3, <2>4, RebuildMoves
<1>5. CASE RebuildTakes
  <2>1. /\ rebuild.pc = "rows"
        /\ UNCHANGED <<rep, canon, tx, duels, rruns, starts, clearing, rebuilds, seized>>
    BY <1>5 DEF RebuildTakes
  <2>2. CASE \E k \in rebuild.keys :
               /\ crow[k] = "none" /\ crow' = [crow EXCEPT ![k] = "rebuild"]
               /\ rebuild' = [rebuild EXCEPT !.keys = @ \ {k}]
               /\ UNCHANGED rowlock
    <3>1. PICK k \in rebuild.keys : /\ crow' = [crow EXCEPT ![k] = "rebuild"]
                                    /\ rebuild' = [rebuild EXCEPT !.keys = rebuild.keys \ {k}]
                                    /\ UNCHANGED rowlock
      BY <2>2
    <3>2. /\ rebuild' \in RebuildType /\ rebuild'.listed = rebuild.listed /\ rebuild'.left = rebuild.left
          /\ rebuild'.new = rebuild.new /\ rebuild'.pc = rebuild.pc
      BY <1>2, <3>1 DEF RebuildType
    <3>3. k \in Keys BY <1>2, <3>1 DEF RebuildType
    <3>4. crow' \in [Keys -> Resolvers \cup {"none", "rebuild"}] BY <1>2, <3>1, <3>3
    <3>5. RebuildInv' BY <1>1, <2>1, <3>1, <3>2 DEF RebuildInv
    <3> QED BY <1>2, <2>1, <3>1, <3>2, <3>4, <3>5, RebuildMoves
  <2>3. CASE \E n \in rebuild.left :
               /\ rebuild.keys = {}
               /\ rowlock[n] = "none" /\ rowlock' = [rowlock EXCEPT ![n] = "rebuild"]
               /\ rebuild' = [rebuild EXCEPT !.left = @ \ {n}]
               /\ UNCHANGED crow
    <3>1. PICK n \in rebuild.left : /\ rowlock[n] = "none" /\ rowlock' = [rowlock EXCEPT ![n] = "rebuild"]
                                    /\ rebuild' = [rebuild EXCEPT !.left = rebuild.left \ {n}]
                                    /\ UNCHANGED crow
      BY <2>3
    <3>2. /\ rebuild' \in RebuildType /\ rebuild'.listed = rebuild.listed /\ rebuild'.left = rebuild.left \ {n}
          /\ rebuild'.new = rebuild.new /\ rebuild'.pc = rebuild.pc
      BY <1>2, <3>1 DEF RebuildType
    <3>3. n \in Nicks /\ rebuild.listed \subseteq Nicks BY <1>2, <3>1 DEF RebuildType
    <3>4. /\ rowlock' \in [Nicks -> Resolvers \cup {"none", "rebuild"}] /\ rowlock'[n] = "rebuild"
          /\ \A m \in Nicks \ {n} : rowlock'[m] = rowlock[m]
      BY <1>2, <3>1, <3>3
    <3>5. \A m \in Nicks : rowlock[m] \in Resolvers => rowlock'[m] = rowlock[m]
      BY <3>1, <3>4, ReplayAssumption
    <3>6. RebuildInv' BY <1>1, <2>1, <3>2, <3>3, <3>4 DEF RebuildInv
    <3> QED BY <1>2, <2>1, <3>1, <3>2, <3>4, <3>5, <3>6, RebuildMoves
  <2> QED BY <1>5, <2>2, <2>3 DEF RebuildTakes
<1>6. CASE RebuildAborts
  <2>1. /\ rebuild' = NoRebuild /\ rowlock' = Released("rebuild") /\ crow' = KeysReleased("rebuild")
        /\ UNCHANGED <<rep, canon, tx, duels, rruns, starts, clearing, rebuilds, seized>>
    BY <1>6 DEF RebuildAborts
  <2>2. /\ rowlock' \in [Nicks -> Resolvers \cup {"none", "rebuild"}]
        /\ crow' \in [Keys -> Resolvers \cup {"none", "rebuild"}]
        /\ \A n \in Nicks : rowlock'[n] = IF rowlock[n] = "rebuild" THEN "none" ELSE rowlock[n]
    BY <2>1, ReleasedIs
  <2>3. \A n \in Nicks : rowlock[n] \in Resolvers => rowlock'[n] = rowlock[n] BY <2>2, ReplayAssumption
  <2>4. RebuildInv' BY <2>1, NoRebuildIs DEF RebuildInv
  <2> QED BY <1>2, <2>1, <2>2, <2>3, <2>4, NoRebuildIs, RebuildMoves
<1> QED BY <1>3, <1>4, <1>5, <1>6

\* The rebuild commits: it moves the representatives of players whose rows it holds, and
\* whoever it overlooked is on record.
LEMMA RebuildEnds == ASSUME PeopleInv, RebuildCanonical PROVE PeopleInv'
<1> DEFINE new == rebuild.new
<1>1. /\ rebuild.pc = "rows" /\ rebuild.left = {}
      /\ rep' = [k \in Keys |-> IF new[k] = NoNick /\ crow[k] # "rebuild" THEN rep[k] ELSE new[k]]
      /\ canon' = [n \in Nicks |-> IF n \in rebuild.listed THEN new[NickKey[n]] ELSE canon[n]]
      /\ seized' = seized \cup Late
      /\ rebuild' = NoRebuild /\ rowlock' = Released("rebuild") /\ crow' = KeysReleased("rebuild")
      /\ UNCHANGED <<tx, duels, rruns, starts, clearing, rebuilds>>
  BY DEF RebuildCanonical
<1>2. /\ PeopleTypeOK /\ RebuildInv /\ \A e \in Resolvers : TxInv(e)
      /\ \A k \in Keys : rep[k] # NoNick => canon[rep[k]] = rep[k]
      /\ DuelTwoPeople
  BY DEF PeopleInv
<1>3. /\ \A k \in Keys : new[k] \in OfKey(k) /\ new[k] \in Nicks \cup {NoNick} /\ new[k] \in rebuild.listed \cup {NoNick}
      /\ rebuild.listed \subseteq Nicks
      /\ \A n \in rebuild.listed : rowlock[n] = "rebuild" /\ new[NickKey[n]] # NoNick
  BY <1>1, <1>2 DEF PeopleTypeOK, RebuildType, RebuildInv
<1>4. \A k \in Keys : rep'[k] = (IF new[k] = NoNick /\ crow[k] # "rebuild" THEN rep[k] ELSE new[k]) BY <1>1
<1>5. \A n \in Nicks : canon'[n] = IF n \in rebuild.listed THEN new[NickKey[n]] ELSE canon[n] BY <1>1
<1>6. /\ rowlock' \in [Nicks -> Resolvers \cup {"none", "rebuild"}]
      /\ crow' \in [Keys -> Resolvers \cup {"none", "rebuild"}]
      /\ \A n \in Nicks : rowlock'[n] = IF rowlock[n] = "rebuild" THEN "none" ELSE rowlock[n]
  BY <1>1, ReleasedIs
<1>7. Late \subseteq Keys /\ \A n \in Nicks \ rebuild.listed : rowlock[n] \in Resolvers => NickKey[n] \in Late
  BY NicksHaveKeys DEF Late
<1>8. rebuilds' # 0 BY <1>1, <1>2 DEF RebuildInv
<1>9. PeopleTypeOK'
  <2>1. rep' \in [Keys -> Nicks \cup {NoNick}] /\ \A k \in Keys : rep'[k] \in OfKey(k)
    <3>1. \A k \in Keys : rep[k] \in OfKey(k) /\ rep[k] \in Nicks \cup {NoNick} BY <1>2 DEF PeopleTypeOK
    <3> QED BY <1>1, <1>3, <1>4, <3>1
  <2>2. canon' \in [Nicks -> Nicks \cup {NoNick}] /\ \A n \in Nicks : canon'[n] \in OfKey(NickKey[n])
    <3>1. ASSUME NEW n \in Nicks PROVE canon'[n] \in OfKey(NickKey[n]) /\ canon'[n] \in Nicks \cup {NoNick}
      <4>1. canon[n] \in OfKey(NickKey[n]) /\ canon[n] \in Nicks \cup {NoNick} BY <1>2 DEF PeopleTypeOK
      <4>2. NickKey[n] \in Keys BY NicksHaveKeys
      <4> QED BY <1>3, <1>5, <4>1, <4>2
    <3> QED BY <1>1, <1>5, <3>1
  <2> QED BY <1>1, <1>2, <1>6, <1>7, <2>1, <2>2, NoRebuildIs DEF PeopleTypeOK
<1>10. RebuildInv' BY <1>1, NoRebuildIs DEF RebuildInv
<1>11. ASSUME NEW e \in Resolvers PROVE TxInv(e)'
  <2>1. TxInv(e) /\ tx[e] \in TxType /\ tx' = tx BY <1>1, <1>2 DEF PeopleTypeOK
  <2>2. \A n \in Nicks : rowlock[n] = e => rowlock'[n] = e BY <1>6, ReplayAssumption
  <2>3. tx[e].blank \cup tx[e].firsts \subseteq Nicks BY <2>1 DEF TxType
  <2>4. ASSUME NEW n \in Nicks, tx[e].ids[n] # NoNick
        PROVE  (View(e, NickKey[n])' = n => tx[e].ids[n] = n) /\ NickKey[n] \in seized'
    <3> DEFINE k == NickKey[n]
    <3>1. k \in Keys BY NicksHaveKeys
    <3>2. rowlock[n] = e /\ (View(e, k) = n => tx[e].ids[n] = n) BY <2>1, <2>4 DEF TxInv
    <3>3. n \notin rebuild.listed BY <1>3, <3>2, ReplayAssumption
    <3>4. View(e, k)' = FirstOr(tx[e].firsts, k, rep'[k]) /\ View(e, k) = FirstOr(tx[e].firsts, k, rep[k])
      BY <2>1 DEF View
    <3>5. CASE \E m \in tx[e].firsts : NickKey[m] = k
      <4>1. View(e, k)' = View(e, k) BY <3>4, <3>5, FirstIs
      <4> QED BY <1>1, <1>7, <3>2, <3>3, <4>1
    <3>6. CASE \A m \in tx[e].firsts : NickKey[m] # k
      <4>1. View(e, k)' = rep'[k] /\ View(e, k) = rep[k] BY <3>4, <3>6, FirstIs
      <4>2. n # NoNick BY ReplayAssumption
      <4>3. rep'[k] = n => rep[k] = n BY <1>3, <1>4, <3>1, <3>3, <4>2
      <4> QED BY <1>1, <1>7, <3>2, <3>3, <4>1, <4>3
    <3> QED BY <3>5, <3>6
  <2> QED BY <2>1, <2>2, <2>3, <2>4 DEF TxInv
<1>12. ASSUME NEW k \in Keys, rep'[k] # NoNick PROVE canon'[rep'[k]] = rep'[k]
  <2>1. CASE new[k] # NoNick
    <3>1. rep'[k] = new[k] /\ new[k] \in rebuild.listed /\ NickKey[new[k]] = k /\ new[k] \in Nicks
      BY <1>3, <1>4, <2>1, NicksHaveKeys
    <3> QED BY <1>5, <3>1
  <2>2. CASE new[k] = NoNick
    <3>1. rep'[k] = rep[k] BY <1>4, <1>12, <2>2
    <3>2. rep[k] \in Nicks /\ NickKey[rep[k]] = k BY <1>2, <1>12, <3>1, NicksHaveKeys DEF PeopleTypeOK
    <3>3. rep[k] \notin rebuild.listed BY <1>3, <2>2, <3>2
    <3> QED BY <1>2, <1>5, <1>12, <3>1, <3>2, <3>3
  <2> QED BY <2>1, <2>2
<1>13. DuelTwoPeople' BY <1>1, <1>2 DEF DuelTwoPeople
<1>14. \A k \in Keys : rep'[k] # NoNick => canon'[rep'[k]] = rep'[k] BY <1>12
<1>15. \A e \in Resolvers : TxInv(e)' BY <1>11
<1> QED BY <1>8, <1>9, <1>10, <1>13, <1>14, <1>15 DEF PeopleInv

\* The people's invariant holds under every step of the stores.
LEMMA PeopleAlways == ReplaySpec => []PeopleInv
<1>1. ASSUME PeopleInv, [ReplayNext]_replayVars PROVE PeopleInv'
  <2>1. CASE PeopleNext
    <3>1. ASSUME NEW d \in Resolvers,
                 Begin(d) \/ ResolvePlayer(d) \/ InsertFirst(d) \/ Commit(d) \/ Rollback(d)
          PROVE  PeopleInv'
      BY <1>1, <3>1, BeginTxKeeps, ResolveKeeps, InsertKeeps, CommitKeeps, RollbackKeeps
    <3> QED BY <1>1, <2>1, <3>1, ClearKeeps, RebuildKeeps, RebuildEnds DEF PeopleNext
  <2>2. CASE UNCHANGED peopleVars
    <3>1. UNCHANGED <<rep, canon, rowlock, crow, tx, duels, rruns, starts, clearing, rebuild, rebuilds, seized>>
      BY <2>2 DEF peopleVars
    <3>2. UNCHANGED <<rep, canon, tx, duels, rruns, starts, clearing, seized>> BY <3>1
    <3>3. RebuildInv' BY <1>1, <3>1 DEF PeopleInv, RebuildInv
    <3> QED BY <1>1, <3>1, <3>2, <3>3, RebuildMoves DEF PeopleInv, PeopleTypeOK
  <2> QED BY <1>1, <2>1, <2>2 DEF ReplayNext, replayVars, peopleVars
<1>2. ReplayInit => PeopleInv BY PeopleAtFirst DEF ReplayInit
<1> QED BY <1>1, <1>2, PTL DEF ReplaySpec

\* What the stores beside the race table promise: no ghost file is faster than its row, no
\* synced ghost is lost with the volume, no duel row puts a person against themselves, and
\* a person's nicks share one random run and one saved start - the last two but for the
\* keys whose representative was seized, or whose players a rebuild overlooked.
THEOREM StoresSound == ReplaySpec => []ReplaySound
<1>1. GhostInv => FileBehindRow /\ GhostDurable BY DEF GhostInv
<1>2. PeopleInv => DuelTwoPeople BY DEF PeopleInv
<1>3. ASSUME PeopleInv PROVE OneRowPerPerson
  <2>1. ASSUME NEW k \in Keys \ seized, rebuilds = 0, NEW rows, rows \subseteq rruns \cup starts
        PROVE  Cardinality(rows \cap NicksOf(k)) <= 1
    <3>1. rows \cap NicksOf(k) \subseteq {rep[k]} BY <1>3, <2>1 DEF PeopleInv
    <3>2. IsFiniteSet({rep[k]}) /\ Cardinality({rep[k]}) = 1 BY FS_Singleton
    <3>3. Cardinality(rows \cap NicksOf(k)) <= Cardinality({rep[k]}) BY <3>1, <3>2, FS_Subset
    <3> QED BY <3>2, <3>3
  <2> QED BY <2>1 DEF OneRowPerPerson
<1> QED BY <1>1, <1>2, <1>3, GhostAlways, PeopleAlways, PTL DEF ReplaySound

-----------------------------------------------------------------------------
(* Tournaments.                                                            *)

\* Ids and codes are the first natural numbers.
LEMMA TourIdsAre ==
  /\ TIds \subseteq Nat \ {0} /\ TCodes \subseteq Nat \ {0} /\ 0 \notin TIds /\ 0 \notin TCodes
  /\ Cardinality(TIds) \in Nat /\ TIds = 1..Cardinality(TIds) /\ 1 \in TIds
<1>1. Cardinality(TIds) \in Nat /\ TIds = 1..Cardinality(TIds) /\ TIds # {} BY TourAssumption, FS_CardinalityType
<1>2. Cardinality(TCodes) \in Nat /\ TCodes = 1..Cardinality(TCodes) BY TourAssumption, FS_CardinalityType
<1> QED BY <1>1, <1>2

\* There is no tournament at first.
LEMMA TourAtFirst == TourInit => TourInv
<1> SUFFICES ASSUME TourInit PROVE TourInv OBVIOUS
<1>1. tour = [t \in TIds |-> TUnused] /\ TUnused \in Editions
  BY TourIdsAre, TourAssumption DEF TourInit, TUnused, Editions, TStatuses
<1>2. tentry = [c \in TCodes |-> [t |-> 0, p |-> NoPlayer, dead |-> FALSE]] BY DEF TourInit
<1>3. tjoin = [j \in TJoiners |-> TNoJoin] /\ TNoJoin \in Joins BY DEF TourInit, TNoJoin, Joins
<1>4. tsweep = [r \in TReplicas |-> TNoSweep] /\ TNoSweep \in TourSweeps
  BY TourAssumption DEF TourInit, TNoSweep, TourSweeps
<1>5. tadmin = TIdle /\ tflight = TNoRun /\ truns = {} /\ tnow = 0 /\ tedits = 0
      /\ tpool = [t \in TIds |-> {}] /\ tstand = [t \in TIds |-> {}]
  BY DEF TourInit
<1>6. tadmin \in [pc : {"idle", "maps", "delete"}, t : {0} \cup TIds, pool : SUBSET TMaps, seen : SUBSET TCodes]
  BY <1>5 DEF TIdle
<1>7. tentry \in [TCodes -> Entrants] BY <1>2 DEF Entrants
<1>8. TourTypeOK BY <1>1, <1>3, <1>4, <1>5, <1>6, <1>7, TourAssumption DEF TourTypeOK
<1>9. OneEntry BY <1>2 DEF OneEntry
<1>10. RowsInv BY <1>1, <1>4, <1>5, TourIdsAre DEF RowsInv, Used, TUnused, TNoSweep
<1>11. EntriesInv BY <1>2, <1>3, <1>5 DEF EntriesInv, TNoJoin, TIdle
<1> QED BY <1>8, <1>9, <1>10, <1>11 DEF TourInv

\* How the row of a tournament may move.
RowMoves(t) ==
  \/ tour'[t] = tour[t]
  \/ /\ tour[t].status = "unused" /\ \A u \in TIds : u < t => Used(u)
     /\ tour'[t].edition <= t /\ tour'[t].status \in {"draft", "published"}
  \/ /\ tour[t].status \notin {"unused", "deleted", "finalized"} /\ tour'[t].status # "unused"
     /\ tour'[t].edition = tour[t].edition
     /\ tour'[t].status = "finalized" => tour'[t].end <= tnow
  \/ Used(t) /\ tour'[t] = [tour[t] EXCEPT !.status = "deleted"]

\* Rows that move so keep what is known of them, while nothing else moves ...
LEMMA RowsMove ==
  ASSUME TourInv, \A t \in TIds : RowMoves(t), tour' \in [TIds -> Editions],
         UNCHANGED <<tnow, tflight>>,
         \A r \in TReplicas : tsweep'[r].at <= tnow /\ \A t \in tsweep'[r].todo : t \in TIds /\ Used(t)
  PROVE  /\ RowsInv' /\ \A t \in TIds : Used(t) => Used(t)'
<1>1. tour \in [TIds -> Editions] /\ tnow \in Nat BY DEF TourInv, TourTypeOK
<1>2. \A t \in TIds : Used(t) => Used(t)' BY DEF RowMoves, Used, Editions
<1>3. ASSUME NEW t \in TIds, NEW u \in TIds, u < t, Used(t)' PROVE Used(u)'
  <2>1. CASE Used(t) BY <1>2, <1>3, <2>1 DEF TourInv, RowsInv
  <2>2. CASE ~Used(t)
    <3>1. \A v \in TIds : v < t => Used(v) BY <1>3, <2>2 DEF RowMoves, Used
    <3> QED BY <1>2, <1>3, <3>1
  <2> QED BY <2>1, <2>2
<1>4. ASSUME NEW t \in TIds PROVE tour'[t].edition <= t /\ (tour'[t].status = "finalized" => tour'[t].end <= tnow)
  BY <1>1 DEF RowMoves, TourInv, RowsInv, Editions
<1>5. ASSUME tflight # TNoRun, NEW t \in TIds \ tflight.open
      PROVE  \/ tour'[t].status = "deleted"
             \/ tour'[t].status = "finalized" /\ tour'[t].end <= tflight.at
  <2>1. \/ tour[t].status = "deleted"
        \/ tour[t].status = "finalized" /\ tour[t].end <= tflight.at
    BY <1>5 DEF TourInv, RowsInv
  <2> QED BY <1>1, <2>1 DEF RowMoves, Used, Editions
<1>6. \A r \in TReplicas : tsweep'[r].at <= tnow' /\ \A t \in tsweep'[r].todo : Used(t)' BY <1>2
<1> QED BY <1>2, <1>3, <1>4, <1>5, <1>6 DEF RowsInv

\* ... and where the rows stay, so does what is known of them.
LEMMA RowsStay ==
  ASSUME TourInv, UNCHANGED <<tour, tnow, tflight, tsweep>> PROVE RowsInv'
BY DEF TourInv, RowsInv, Used

\* Entries keep their word while editions, joins and codes rest.
LEMMA EntriesStay ==
  ASSUME TourInv, UNCHANGED <<tentry, tjoin>>, tadmin' = tadmin \/ tadmin'.pc # "delete",
         \A t \in TIds : Used(t) => Used(t)'
  PROVE  OneEntry' /\ EntriesInv'
<1>1. tadmin.t # 0 => tadmin.t \in TIds BY DEF TourInv, TourTypeOK
<1>2. OneEntry' BY DEF TourInv, OneEntry
<1> QED BY <1>1, <1>2 DEF TourInv, EntriesInv

\* The next free id is above all that are in use.
LEMMA FreshIs ==
  ASSUME TourInv, NEW t \in TFresh(TIds)
  PROVE  t \in TIds /\ tour[t].status = "unused" /\ \A u \in TIds : (u < t) <=> Used(u)
<1>1. t \in TIds /\ tour[t].status = "unused" /\ \A u \in TIds : u < t => Used(u) BY DEF TFresh, Used
<1>2. ASSUME NEW u \in TIds, Used(u) PROVE u < t
  <2>1. ~(t < u) BY <1>1, <1>2 DEF TourInv, RowsInv, Used
  <2> QED BY <1>1, <1>2, <2>1, TourIdsAre DEF Used
<1> QED BY <1>1, <1>2

\* createTournament: a fresh edition under a fresh id.
LEMMA CreateKeeps ==
  ASSUME TourInv, NEW start \in 0..(TMaxTime - TLen), NEW status \in {"draft", "published"},
         NEW pool \in SUBSET TMaps, NEW repeat \in BOOLEAN, AdminCreate(start, status, repeat, pool)
  PROVE  TourInv'
<1>1. PICK t \in TFresh(TIds) :
        /\ tour' = [tour EXCEPT ![t] = [status |-> status, start |-> start, end |-> start + TLen,
                                        repeat |-> repeat, series |-> t, edition |-> 1, auto |-> FALSE]]
        /\ tadmin' = [TIdle EXCEPT !.pc = "maps", !.t = t, !.pool = pool]
  BY DEF AdminCreate
<1> DEFINE row == [status |-> status, start |-> start, end |-> start + TLen,
                   repeat |-> repeat, series |-> t, edition |-> 1, auto |-> FALSE]
<1>2. t \in TIds /\ tour[t].status = "unused" /\ \A u \in TIds : (u < t) <=> Used(u) BY FreshIs
<1>3. /\ tour \in [TIds -> Editions] /\ tnow \in Nat /\ tedits \in 0..TMaxEdits
      /\ \A r \in TReplicas : tsweep[r] \in TourSweeps
  BY DEF TourInv, TourTypeOK
<1>4. UNCHANGED <<tnow, tpool, tentry, truns, tflight, tstand, tjoin, tsweep>> /\ tedits' \in 0..TMaxEdits
  BY <1>3, TourAssumption DEF AdminCreate, Request
<1>5. row \in Editions
  <2>1. start \in 0..TMaxTime /\ start + TLen \in 0..TMaxTime BY TourAssumption
  <2> QED BY <1>2, <2>1, TourIdsAre DEF Editions, TStatuses
<1>6. row.status \in {"draft", "published"} /\ row.edition = 1 OBVIOUS
<1> HIDE DEF row
<1>7. tour' = [tour EXCEPT ![t] = row] BY <1>1 DEF row
<1>8. tour' \in [TIds -> Editions] /\ \A u \in TIds : tour'[u] = IF u = t THEN row ELSE tour[u]
  BY <1>2, <1>3, <1>5, <1>7
<1>9. \A u \in TIds : RowMoves(u)
  <2> TAKE u \in TIds
  <2>1. CASE u = t
    <3>1. 1 <= t BY <1>2, TourIdsAre
    <3> QED BY <1>2, <1>6, <1>8, <2>1, <3>1 DEF RowMoves
  <2>2. CASE u # t BY <1>8, <2>2 DEF RowMoves
  <2> QED BY <2>1, <2>2
<1>10. RowsInv' /\ \A u \in TIds : Used(u) => Used(u)'
  <2>1. \A r \in TReplicas : tsweep'[r].at <= tnow /\ \A u \in tsweep'[r].todo : u \in TIds /\ Used(u)
    BY <1>3, <1>4 DEF TourInv, RowsInv, TourSweeps
  <2> QED BY <1>4, <1>8, <1>9, <2>1, RowsMove
<1>11. tadmin' \in [pc : {"idle", "maps", "delete"}, t : {0} \cup TIds, pool : SUBSET TMaps, seen : SUBSET TCodes]
       /\ tadmin'.pc # "delete"
  BY <1>1, <1>2 DEF TIdle
<1>12. OneEntry' /\ EntriesInv' BY <1>4, <1>10, <1>11, EntriesStay
<1>13. TourTypeOK' BY <1>4, <1>8, <1>11 DEF TourInv, TourTypeOK
<1> QED BY <1>10, <1>12, <1>13 DEF TourInv

\* A row that is not settled is edited.
LEMMA EditKept ==
  ASSUME TourInv, NEW t \in TRows, tour[t].status # "finalized", NEW row \in Editions,
         tour' = [tour EXCEPT ![t] = row], row.edition = tour[t].edition, row.status # "unused",
         row.status = "finalized" => row.end <= tnow,
         UNCHANGED <<tnow, tflight, tentry, tjoin>>, tadmin' = tadmin \/ tadmin'.pc # "delete",
         \A r \in TReplicas : tsweep'[r].at <= tnow /\ \A u \in tsweep'[r].todo : u \in TIds /\ Used(u)
  PROVE  /\ RowsInv' /\ OneEntry' /\ EntriesInv' /\ tour' \in [TIds -> Editions]
         /\ \A u \in TIds : tour'[u] = IF u = t THEN row ELSE tour[u]
<1>1. tour \in [TIds -> Editions] /\ t \in TIds /\ tour[t].status \notin {"unused", "deleted", "finalized"}
  BY DEF TourInv, TourTypeOK, TRows
<1>2. tour' \in [TIds -> Editions] /\ \A u \in TIds : tour'[u] = IF u = t THEN row ELSE tour[u]
  BY <1>1
<1>3. \A u \in TIds : RowMoves(u) BY <1>1, <1>2 DEF RowMoves
<1>4. RowsInv' /\ \A u \in TIds : Used(u) => Used(u)' BY <1>2, <1>3, RowsMove
<1> QED BY <1>2, <1>4, EntriesStay

\* The sweeps as they are.
LEMMA SweepsAre ==
  ASSUME TourInv
  PROVE  /\ tnow \in 0..TMaxTime /\ TMaxTime \in Nat /\ tsweep \in [TReplicas -> TourSweeps]
         /\ \A r \in TReplicas : tsweep[r].at <= tnow /\ \A u \in tsweep[r].todo : u \in TIds /\ Used(u)
BY TourAssumption DEF TourInv, TourTypeOK, RowsInv, TourSweeps

\* updateTournament: an edit of an edition that is not final.
LEMMA UpdateKeeps ==
  ASSUME TourInv, NEW t \in TIds, NEW start \in 0..(TMaxTime - TLen), NEW status \in {"draft", "published"},
         NEW pool \in SUBSET TMaps, AdminUpdate(t, start, status, pool)
  PROVE  TourInv'
<1> DEFINE row == [tour[t] EXCEPT !.status = status, !.start = start, !.end = start + TLen]
<1>1. /\ tour \in [TIds -> Editions] /\ tedits \in 0..TMaxEdits BY DEF TourInv, TourTypeOK
<1>2. t \in TRows /\ tour[t].status # "finalized" /\ tadmin' = [TIdle EXCEPT !.pc = "maps", !.t = t, !.pool = pool]
      /\ UNCHANGED <<tnow, tpool, tentry, truns, tflight, tstand, tjoin, tsweep>>
  BY DEF AdminUpdate
<1>3. tour' = [tour EXCEPT ![t] = row] BY DEF AdminUpdate
<1>4. row \in Editions /\ row.edition = tour[t].edition /\ row.status \in {"draft", "published"}
  <2>1. start \in 0..TMaxTime /\ start + TLen \in 0..TMaxTime BY TourAssumption
  <2>2. tour[t] \in Editions BY <1>1
  <2> QED BY <2>1, <2>2 DEF Editions, TStatuses
<1>5. tedits' \in 0..TMaxEdits BY <1>1, TourAssumption DEF AdminUpdate, Request
<1>6. tadmin' \in [pc : {"idle", "maps", "delete"}, t : {0} \cup TIds, pool : SUBSET TMaps, seen : SUBSET TCodes]
      /\ tadmin'.pc # "delete"
  BY <1>2 DEF TIdle
<1> HIDE DEF row
<1>7. RowsInv' /\ OneEntry' /\ EntriesInv' /\ tour' \in [TIds -> Editions]
  BY <1>2, <1>3, <1>4, <1>6, SweepsAre, EditKept
<1>8. TourTypeOK' BY <1>2, <1>5, <1>6, <1>7 DEF TourInv, TourTypeOK
<1> QED BY <1>7, <1>8 DEF TourInv

\* The clock's turn of an edition's status.
LEMMA StatusKeeps ==
  ASSUME TourInv, NEW t \in TIds, NEW status \in {"draft", "published", "cancelled"}, SetTournamentStatus(t, status)
  PROVE  TourInv'
<1> DEFINE row == [tour[t] EXCEPT !.status = status]
<1>1. /\ tour \in [TIds -> Editions] /\ tedits \in 0..TMaxEdits BY DEF TourInv, TourTypeOK
<1>2. t \in TRows /\ tour[t].status # "finalized"
      /\ UNCHANGED <<tnow, tpool, tentry, truns, tflight, tstand, tadmin, tjoin, tsweep>>
  BY DEF SetTournamentStatus
<1>3. tour' = [tour EXCEPT ![t] = row] BY DEF SetTournamentStatus
<1>4. row \in Editions /\ row.edition = tour[t].edition /\ row.status \in {"draft", "published", "cancelled"}
  <2>1. tour[t] \in Editions BY <1>1
  <2> QED BY <2>1 DEF Editions, TStatuses
<1>5. tedits' \in 0..TMaxEdits BY <1>1, TourAssumption DEF SetTournamentStatus, Request
<1> HIDE DEF row
<1>6. RowsInv' /\ OneEntry' /\ EntriesInv' /\ tour' \in [TIds -> Editions]
  BY <1>2, <1>3, <1>4, SweepsAre, EditKept
<1>7. TourTypeOK' BY <1>2, <1>5, <1>6 DEF TourInv, TourTypeOK
<1> QED BY <1>6, <1>7 DEF TourInv

\* A freeze takes a closed window.
LEMMA FreezeKeeps ==
  ASSUME TourInv, NEW t \in TIds, NEW now \in Nat, now <= tnow, Finalize(t, now),
         UNCHANGED <<tnow, tedits, tpool, tentry, truns, tflight, tadmin, tjoin>>,
         tsweep' \in [TReplicas -> TourSweeps],
         \A r \in TReplicas : tsweep'[r].at <= tnow /\ \A u \in tsweep'[r].todo : u \in TIds /\ Used(u)
  PROVE  TourInv'
<1>1. CASE t \in TRows /\ tour[t].status = "published" /\ tour[t].end <= now
  <2> DEFINE row == [tour[t] EXCEPT !.status = "finalized"]
  <2>1. tour \in [TIds -> Editions] /\ tour[t] \in Editions /\ tnow \in 0..TMaxTime /\ TMaxTime \in Nat
        /\ tstand \in [TIds -> SUBSET (TPlayers \X TMaps)]
    BY TourAssumption DEF TourInv, TourTypeOK
  <2>2. tour' = [tour EXCEPT ![t] = row] /\ tstand' = [tstand EXCEPT ![t] = @ \cup Standings(t)]
    BY <1>1 DEF Finalize, Freeze
  <2>3. row \in Editions /\ row.edition = tour[t].edition /\ row.status = "finalized" /\ row.end <= tnow
    <3>1. tour[t].end \in 0..TMaxTime BY <2>1 DEF Editions
    <3>2. tour[t].end <= tnow BY <1>1, <2>1, <3>1
    <3> QED BY <2>1, <3>2 DEF Editions, TStatuses
  <2>4. Standings(t) \subseteq TPlayers \X TMaps BY DEF Standings, TourInv, TourTypeOK
  <2>5. tstand' \in [TIds -> SUBSET (TPlayers \X TMaps)] BY <2>1, <2>2, <2>4
  <2> HIDE DEF row
  <2>6. RowsInv' /\ OneEntry' /\ EntriesInv' /\ tour' \in [TIds -> Editions]
    BY <1>1, <2>2, <2>3, EditKept
  <2>7. TourTypeOK' BY <2>5, <2>6 DEF TourInv, TourTypeOK
  <2> QED BY <2>6, <2>7 DEF TourInv
<1>2. CASE UNCHANGED <<tstand, tour>>
  <2>1. \A u \in TIds : RowMoves(u) BY <1>2 DEF RowMoves
  <2>2. tour' \in [TIds -> Editions] BY <1>2 DEF TourInv, TourTypeOK
  <2>3. RowsInv' /\ \A u \in TIds : Used(u) => Used(u)' BY <2>1, <2>2, RowsMove
  <2>4. OneEntry' /\ EntriesInv' BY <2>3, EntriesStay
  <2>5. TourTypeOK' BY <1>2, <2>2 DEF TourInv, TourTypeOK
  <2> QED BY <2>3, <2>4, <2>5 DEF TourInv
<1> QED BY <1>1, <1>2 DEF Finalize

\* An item of a sweep is done, or fails.
LEMMA ItemDone ==
  ASSUME TourInv, NEW r \in TReplicas, NEW t, tsweep' = [tsweep EXCEPT ![r].todo = @ \ {t}]
  PROVE  /\ tsweep' \in [TReplicas -> TourSweeps]
         /\ \A s \in TReplicas : tsweep'[s].at <= tnow /\ \A u \in tsweep'[s].todo : u \in TIds /\ Used(u)
<1>1. tsweep \in [TReplicas -> TourSweeps] BY DEF TourInv, TourTypeOK
<1>2. tsweep[r] \in TourSweeps BY <1>1
<1>3. [tsweep[r] EXCEPT !.todo = @ \ {t}] \in TourSweeps BY <1>2 DEF TourSweeps
<1>4. \A s \in TReplicas : tsweep'[s] = IF s = r THEN [tsweep[r] EXCEPT !.todo = @ \ {t}] ELSE tsweep[s] BY <1>1
<1>5. tsweep' \in [TReplicas -> TourSweeps] BY <1>1, <1>3
<1>6. ASSUME NEW s \in TReplicas PROVE tsweep'[s].at = tsweep[s].at /\ tsweep'[s].todo \subseteq tsweep[s].todo
  <2>1. CASE s = r BY <1>2, <1>4, <2>1 DEF TourSweeps
  <2>2. CASE s # r BY <1>4, <2>2
  <2> QED BY <2>1, <2>2
<1> QED BY <1>5, <1>6, SweepsAre

\* The sweep's freeze of the standings, and the next of the series.
LEMMA FinalizeKeeps ==
  ASSUME TourInv, NEW r \in TReplicas, SweepFinalize(r) PROVE TourInv'
<1>1. PICK t \in tsweep[r].todo : tsweep' = [tsweep EXCEPT ![r].todo = @ \ {t}] /\ Finalize(t, tsweep[r].at)
  BY DEF SweepFinalize
<1>2. tsweep[r].at \in Nat /\ tsweep[r].at <= tnow /\ t \in TIds BY SweepsAre DEF TourSweeps
<1>3. UNCHANGED <<tnow, tedits, tpool, tentry, truns, tflight, tadmin, tjoin>> BY DEF SweepFinalize
<1> QED BY <1>1, <1>2, <1>3, ItemDone, FreezeKeeps

\* The admin's freeze of the standings.
LEMMA AdminFinalizeKeeps ==
  ASSUME TourInv, NEW t \in TIds, AdminFinalize(t) PROVE TourInv'
<1>1. Finalize(t, tnow) /\ UNCHANGED <<tnow, tedits, tpool, tentry, truns, tflight, tadmin, tjoin, tsweep>>
  BY DEF AdminFinalize
<1>2. tnow \in Nat BY SweepsAre
<1>3. tsweep' \in [TReplicas -> TourSweeps]
      /\ \A s \in TReplicas : tsweep'[s].at <= tnow /\ \A u \in tsweep'[s].todo : u \in TIds /\ Used(u)
  BY <1>1, SweepsAre
<1> QED BY <1>1, <1>2, <1>3, FreezeKeeps

\* Steps ahead are at least as many days.
LEMMA StepsAre == ASSUME NEW k \in Nat, NEW s \in Nat \ {0} PROVE k * s \in Nat /\ k * s >= k
<1>1. k * (s - 1) \in Nat
  <2>1. s - 1 \in Nat OBVIOUS
  <2> QED BY <2>1
<1>2. k * s = k * (s - 1) + k OBVIOUS
<1> QED BY <1>1, <1>2

\* The next window is found within the bound on the clock.
LEMMA NextStartIs ==
  ASSUME NEW prev \in Editions, NEW now \in 0..TMaxTime
  PROVE  NextStart(prev, now) \in Nat
<1> DEFINE first == prev.end + TGap
           past(k) == first + k * TStep + TLen <= now
           S == {k \in 0..TMaxTime : ~past(k)}
           Least(k) == ~past(k) /\ \A j \in 0..TMaxTime : j < k => past(j)
           k0 == CHOOSE k \in 0..TMaxTime : Least(k)
<1>1. first \in Nat /\ TLen \in Nat \ {0} /\ TStep \in Nat \ {0} /\ TMaxTime \in Nat
  BY TourAssumption DEF Editions
<1>2. TMaxTime * TStep \in Nat /\ TMaxTime * TStep >= TMaxTime BY <1>1, StepsAre
<1>3. ~past(TMaxTime) BY <1>1, <1>2
<1>4. TMaxTime \in S /\ S \in SUBSET Nat BY <1>1, <1>3
<1> HIDE DEF past
<1>5. PICK k \in S : \A j \in S : k <= j BY <1>4, LeastNat
<1>6. k \in 0..TMaxTime /\ Least(k)
  <2>1. ASSUME NEW j \in 0..TMaxTime, j < k PROVE past(j) BY <1>1, <1>4, <1>5, <2>1
  <2> QED BY <1>5, <2>1
<1> HIDE DEF Least
<1>7. k0 \in 0..TMaxTime BY <1>6
<1> HIDE DEF k0
<1>8. k0 * TStep \in Nat BY <1>1, <1>7, StepsAre
<1>9. NextStart(prev, now) = first + k0 * TStep BY DEF NextStart, k0, Least, past
<1> QED BY <1>1, <1>8, <1>9

\* The next edition of a series takes a fresh id.
LEMMA ScheduleKeeps ==
  ASSUME TourInv, NEW r \in TReplicas, SweepSchedule(r) PROVE TourInv'
<1>1. PICK t \in tsweep[r].todo : tsweep' = [tsweep EXCEPT ![r].todo = @ \ {t}] /\ ScheduleNext(t, tsweep[r].at)
  BY DEF SweepSchedule
<1>2. /\ tsweep[r].at \in 0..TMaxTime /\ t \in TIds /\ Used(t) BY SweepsAre DEF TourSweeps
<1>3. UNCHANGED <<tnow, tedits, tentry, truns, tflight, tstand, tadmin, tjoin>> BY DEF SweepSchedule
<1>4. /\ tsweep' \in [TReplicas -> TourSweeps]
      /\ \A s \in TReplicas : tsweep'[s].at <= tnow /\ \A u \in tsweep'[s].todo : u \in TIds /\ Used(u)
  BY <1>1, ItemDone
<1>5. tour \in [TIds -> Editions] /\ tour[t] \in Editions /\ tpool \in [TIds -> SUBSET TMaps]
  BY <1>2 DEF TourInv, TourTypeOK
<1>6. tour' \in [TIds -> Editions] /\ tpool' \in [TIds -> SUBSET TMaps] /\ \A u \in TIds : RowMoves(u)
  <2>1. CASE UNCHANGED <<tour, tpool>> BY <1>5, <2>1 DEF RowMoves
  <2>2. CASE ~UNCHANGED <<tour, tpool>>
    <3> DEFINE start == NextStart(tour[t], tsweep[r].at)
               row == [tour[t] EXCEPT !.status = "published", !.start = start,
                         !.end = start + TLen, !.edition = tour[t].edition + 1, !.auto = TRUE]
    <3>1. PICK n \in TFresh(TIds) : tour' = [tour EXCEPT ![n] = row] /\ tpool' = [tpool EXCEPT ![n] = tpool[t]]
      BY <1>1, <2>2 DEF ScheduleNext
    <3>2. ~(start + TLen > TMaxTime) BY <1>1, <2>2 DEF ScheduleNext
    <3>3. n \in TIds /\ tour[n].status = "unused" /\ \A u \in TIds : (u < n) <=> Used(u) BY FreshIs
    <3>4. start \in Nat BY <1>2, <1>5, NextStartIs
    <3> HIDE DEF start
    <3>5. start \in 0..TMaxTime /\ start + TLen \in 0..TMaxTime BY <3>2, <3>4, TourAssumption
    <3>6. tour[t].edition <= t /\ t < n /\ tour[t].edition \in Nat \ {0}
      BY <1>2, <1>5, <3>3, TourIdsAre DEF TourInv, RowsInv, Editions
    <3>7. tour[t].edition + 1 <= n /\ tour[t].edition + 1 \in 1..(Cardinality(TIds) + 1)
      BY <1>2, <3>3, <3>6, TourIdsAre
    <3>8. row \in Editions /\ row.edition <= n /\ row.status = "published"
      BY <1>5, <3>5, <3>7 DEF Editions, TStatuses
    <3> HIDE DEF row
    <3>9. tour' \in [TIds -> Editions] /\ \A u \in TIds : tour'[u] = IF u = n THEN row ELSE tour[u]
      BY <1>5, <3>1, <3>3, <3>8
    <3>10. tpool' \in [TIds -> SUBSET TMaps] BY <1>2, <1>5, <3>1, <3>3
    <3>11. ASSUME NEW u \in TIds PROVE RowMoves(u)
      <4>1. CASE u = n BY <3>3, <3>8, <3>9, <4>1 DEF RowMoves
      <4>2. CASE u # n BY <3>9, <4>2 DEF RowMoves
      <4> QED BY <4>1, <4>2
    <3> QED BY <3>9, <3>10, <3>11
  <2> QED BY <2>1, <2>2
<1>7. RowsInv' /\ \A u \in TIds : Used(u) => Used(u)' BY <1>3, <1>4, <1>6, RowsMove
<1>8. OneEntry' /\ EntriesInv' BY <1>3, <1>7, EntriesStay
<1>9. TourTypeOK' BY <1>3, <1>4, <1>6 DEF TourInv, TourTypeOK
<1> QED BY <1>7, <1>8, <1>9 DEF TourInv

\* The steps of the admin's form and of a sweep that write no row.
LEMMA FormKeeps ==
  ASSUME TourInv, SetTournamentMaps \/ AdminLost \/ \E t \in TIds : DeleteCheck(t) PROVE TourInv'
<1>1. /\ tpool \in [TIds -> SUBSET TMaps] /\ tedits \in 0..TMaxEdits
      /\ tadmin \in [pc : {"idle", "maps", "delete"}, t : {0} \cup TIds, pool : SUBSET TMaps, seen : SUBSET TCodes]
  BY DEF TourInv, TourTypeOK
<1>2. UNCHANGED <<tnow, tour, tentry, truns, tflight, tstand, tjoin, tsweep>>
  BY DEF SetTournamentMaps, AdminLost, DeleteCheck
<1>3. RowsInv' BY <1>2, RowsStay
<1>4. \A u \in TIds : Used(u) => Used(u)' BY <1>2 DEF Used
<1>5. tedits' \in 0..TMaxEdits
  <2>1. CASE UNCHANGED tedits BY <1>1, <2>1
  <2>2. CASE Request BY <1>1, <2>2, TourAssumption DEF Request
  <2> QED BY <2>1, <2>2 DEF SetTournamentMaps, AdminLost, DeleteCheck
<1>6. TIdle \in [pc : {"idle", "maps", "delete"}, t : {0} \cup TIds, pool : SUBSET TMaps, seen : SUBSET TCodes]
      /\ TIdle.pc = "idle"
  BY DEF TIdle
<1>7. CASE SetTournamentMaps \/ AdminLost
  <2>1. tadmin' = TIdle BY <1>7 DEF SetTournamentMaps, AdminLost
  <2>2. tpool' \in [TIds -> SUBSET TMaps]
    <3>1. CASE UNCHANGED tpool BY <1>1, <3>1
    <3>2. CASE tpool' = [tpool EXCEPT ![tadmin.t] = tadmin.pool] BY <1>1, <3>2
    <3> QED BY <1>7, <3>1, <3>2 DEF SetTournamentMaps, AdminLost
  <2>3. OneEntry' /\ EntriesInv' BY <1>2, <1>4, <1>6, <2>1, EntriesStay
  <2>4. TourTypeOK' BY <1>2, <1>5, <1>6, <2>1, <2>2 DEF TourInv, TourTypeOK
  <2> QED BY <1>3, <2>3, <2>4 DEF TourInv
<1>8. ASSUME NEW t \in TIds, DeleteCheck(t) PROVE TourInv'
  <2>1. /\ t \in TRows /\ \A p \in TPlayers : ~Entered(t, p)
        /\ tadmin' = [TIdle EXCEPT !.pc = "delete", !.t = t, !.seen = Claimed(t)] /\ UNCHANGED tpool
    BY <1>8 DEF DeleteCheck
  <2>2. Claimed(t) = {} BY <2>1 DEF Claimed, Entered, TourInv, TourTypeOK, Entrants
  <2>3. tadmin' = [pc |-> "delete", t |-> t, pool |-> {}, seen |-> {}] BY <2>1, <2>2 DEF TIdle
  <2>4. t # 0 /\ Used(t) BY <2>1, TourIdsAre DEF TRows, Used
  <2>5. OneEntry' BY <1>2 DEF TourInv, OneEntry
  <2>6. EntriesInv' BY <1>2, <2>3, <2>4 DEF TourInv, EntriesInv, Used
  <2>7. tadmin' \in [pc : {"idle", "maps", "delete"}, t : {0} \cup TIds, pool : SUBSET TMaps, seen : SUBSET TCodes]
    BY <2>3
  <2>8. TourTypeOK' BY <1>1, <1>2, <1>5, <2>1, <2>7 DEF TourInv, TourTypeOK
  <2> QED BY <1>3, <2>5, <2>6, <2>8 DEF TourInv
<1> QED BY <1>7, <1>8

\* deleteTournament takes the edition with its entries.
LEMMA DeleteKeeps == ASSUME TourInv, DeleteTournament PROVE TourInv'
<1> DEFINE t == tadmin.t
<1>1. /\ tour \in [TIds -> Editions] /\ tpool \in [TIds -> SUBSET TMaps] /\ tentry \in [TCodes -> Entrants]
      /\ tstand \in [TIds -> SUBSET (TPlayers \X TMaps)]
  BY DEF TourInv, TourTypeOK
<1>2. t \in TIds /\ Used(t) BY DEF TourInv, TourTypeOK, EntriesInv, DeleteTournament
<1>3. /\ tour' = [tour EXCEPT ![t].status = "deleted"] /\ tpool' = [tpool EXCEPT ![t] = {}]
      /\ tentry' = [c \in TCodes |-> IF tentry[c].t = t
                                     THEN [tentry[c] EXCEPT !.p = NoPlayer, !.dead = TRUE] ELSE tentry[c]]
      /\ tstand' = [tstand EXCEPT ![t] = {}] /\ tadmin' = TIdle
      /\ UNCHANGED <<tnow, tedits, truns, tflight, tjoin, tsweep>>
  BY DEF DeleteTournament
<1> HIDE DEF t
<1>4. tour' \in [TIds -> Editions] /\ \A u \in TIds : tour'[u] = IF u = t THEN [tour[t] EXCEPT !.status = "deleted"] ELSE tour[u]
  <2>1. [tour[t] EXCEPT !.status = "deleted"] \in Editions BY <1>1, <1>2 DEF Editions, TStatuses
  <2> QED BY <1>1, <1>2, <1>3, <2>1
<1>5. \A u \in TIds : RowMoves(u) BY <1>2, <1>4 DEF RowMoves
<1>6. RowsInv' BY <1>3, <1>4, <1>5, SweepsAre, RowsMove
<1>7. tentry' \in [TCodes -> Entrants]
      /\ \A c \in TCodes : tentry'[c].t = tentry[c].t /\ (tentry'[c].p = tentry[c].p \/ tentry'[c].p = NoPlayer)
  <2>1. ASSUME NEW c \in TCodes
        PROVE  tentry'[c] \in Entrants /\ tentry'[c].t = tentry[c].t
               /\ (tentry'[c].p = tentry[c].p \/ tentry'[c].p = NoPlayer)
    <3>1. tentry[c] \in Entrants BY <1>1
    <3>2. tentry'[c] = [tentry[c] EXCEPT !.p = NoPlayer, !.dead = TRUE] \/ tentry'[c] = tentry[c] BY <1>3
    <3> QED BY <3>1, <3>2 DEF Entrants
  <2>2. tentry' = [c \in TCodes |-> tentry'[c]] BY <1>3
  <2> QED BY <2>1, <2>2
<1>8. OneEntry' BY <1>7 DEF TourInv, OneEntry
<1>9. \A j \in TJoiners : tjoin[j].code # 0 => tjoin[j].code \in TCodes BY DEF TourInv, TourTypeOK, Joins
<1>10. EntriesInv' BY <1>3, <1>7, <1>9 DEF TourInv, EntriesInv, TIdle
<1>11. TourTypeOK' 
  <2>1. tpool' \in [TIds -> SUBSET TMaps] /\ tstand' \in [TIds -> SUBSET (TPlayers \X TMaps)] BY <1>1, <1>3
  <2>2. TIdle \in [pc : {"idle", "maps", "delete"}, t : {0} \cup TIds, pool : SUBSET TMaps, seen : SUBSET TCodes]
    BY DEF TIdle
  <2> QED BY <1>3, <1>4, <1>7, <2>1, <2>2 DEF TourInv, TourTypeOK
<1> QED BY <1>6, <1>8, <1>10, <1>11 DEF TourInv

\* A free code is nobody's.
LEMMA CodeIs ==
  ASSUME TourInv, NEW c \in TFreshCode
  PROVE  c \in TCodes /\ tentry[c].t = 0 /\ tentry[c].p = NoPlayer /\ \A j \in TJoiners : tjoin[j].code # c
<1>1. c \in TCodes /\ tentry[c].t = 0 /\ tentry[c].p = NoPlayer BY DEF TFreshCode, TourInv, EntriesInv
<1>2. ASSUME NEW j \in TJoiners, tjoin[j].code = c PROVE FALSE
  <2>1. tjoin[j].code # 0 BY <1>1, <1>2, TourIdsAre
  <2>2. tjoin[j].pc = "enter" /\ tentry[c].t = tjoin[j].t /\ tjoin[j].t # 0
    BY <1>2, <2>1 DEF TourInv, EntriesInv
  <2> QED BY <1>1, <2>2
<1> QED BY <1>1, <1>2

\* A join begins.
LEMMA JoinBegins ==
  ASSUME TourInv, NEW j \in TJoiners, NEW q \in Joins, tjoin' = [tjoin EXCEPT ![j] = q],
         q.pc = "enter", q.t # 0,
         q.code # 0 => /\ tentry[q.code].t = q.t /\ tentry[q.code].p = NoPlayer
                       /\ \A k \in TJoiners : tjoin[k].code # q.code,
         UNCHANGED <<tnow, tedits, tour, tpool, tentry, truns, tflight, tstand, tadmin, tsweep>>
  PROVE  TourInv'
<1>1. tjoin \in [TJoiners -> Joins] BY DEF TourInv, TourTypeOK
<1>2. tjoin' \in [TJoiners -> Joins] /\ \A k \in TJoiners : tjoin'[k] = IF k = j THEN q ELSE tjoin[k] BY <1>1
<1>3. RowsInv' BY RowsStay
<1>4. OneEntry' BY DEF TourInv, OneEntry
<1>5. TourTypeOK' BY <1>2 DEF TourInv, TourTypeOK
<1>6. ASSUME NEW k \in TJoiners, tjoin'[k].code # 0
      PROVE  /\ tentry[tjoin'[k].code].t = tjoin'[k].t /\ tentry[tjoin'[k].code].p = NoPlayer
             /\ tjoin'[k].pc = "enter" /\ \A l \in TJoiners \ {k} : tjoin'[l].code # tjoin'[k].code
  <2>1. CASE k = j BY <1>2, <1>6, <2>1
  <2>2. CASE k # j BY <1>2, <1>6, <2>2 DEF TourInv, EntriesInv
  <2> QED BY <2>1, <2>2
<1>7. \A k \in TJoiners : tjoin'[k].pc = "enter" => tjoin'[k].t # 0 BY <1>2 DEF TourInv, EntriesInv
<1>8. EntriesInv' BY <1>6, <1>7 DEF TourInv, EntriesInv, Used
<1> QED BY <1>3, <1>4, <1>5, <1>8 DEF TourInv

\* A player's way in by a server: the code is issued once.
LEMMA JoinKeeps ==
  ASSUME TourInv, NEW j \in TJoiners, NEW p \in TPlayers, JoinCheck(j, p) PROVE TourInv'
<1>1. PICK t \in CurrentOrNext(tnow) : tjoin' = [tjoin EXCEPT ![j] = [pc |-> "enter", t |-> t, code |-> 0, p |-> p]]
  BY DEF JoinCheck
<1>2. t \in TIds BY DEF CurrentOrNext, TRows
<1>3. [pc |-> "enter", t |-> t, code |-> 0, p |-> p] \in Joins BY <1>2 DEF Joins
<1>4. UNCHANGED <<tnow, tedits, tour, tpool, tentry, truns, tflight, tstand, tadmin, tsweep>> BY DEF JoinCheck
<1> QED BY <1>1, <1>2, <1>3, <1>4, TourIdsAre, JoinBegins

\* A code is redeemed by its player.
LEMMA RedeemKeeps ==
  ASSUME TourInv, NEW j \in TJoiners, NEW p \in TPlayers, NEW c \in TCodes, RedeemCheck(j, c, p) PROVE TourInv'
<1> DEFINE q == [pc |-> "enter", t |-> tentry[c].t, code |-> c, p |-> p]
<1>1. /\ tjoin' = [tjoin EXCEPT ![j] = q] /\ tentry[c].t # 0 /\ tentry[c].p = NoPlayer
      /\ \A k \in TJoiners : tjoin[k].code # c
      /\ UNCHANGED <<tnow, tedits, tour, tpool, tentry, truns, tflight, tstand, tadmin, tsweep>>
  BY DEF RedeemCheck
<1>2. q \in Joins BY DEF TourInv, TourTypeOK, Entrants, Joins
<1> QED BY <1>1, <1>2, JoinBegins

\* An entrant row that nobody's join holds is taken, or the one a join holds.
LEMMA EntryMade ==
  ASSUME TourInv, NEW c \in TCodes, NEW e \in Entrants, tentry' = [tentry EXCEPT ![c] = e],
         tentry[c].p = NoPlayer, e.t # 0,
         e.p # NoPlayer => ~Entered(e.t, e.p)
  PROVE  /\ tentry' \in [TCodes -> Entrants] /\ OneEntry'
         /\ \A d \in TCodes : tentry'[d] = IF d = c THEN e ELSE tentry[d]
<1>1. tentry \in [TCodes -> Entrants] BY DEF TourInv, TourTypeOK
<1>2. tentry' \in [TCodes -> Entrants] /\ \A d \in TCodes : tentry'[d] = IF d = c THEN e ELSE tentry[d]
  BY <1>1
<1>3. OneEntry'
  <2> SUFFICES ASSUME NEW a \in TCodes, NEW b \in TCodes, a # b, tentry'[a].p # NoPlayer, tentry'[a].t = tentry'[b].t
               PROVE  tentry'[a].p # tentry'[b].p
    BY DEF OneEntry
  <2>1. CASE a = c BY <1>2, <2>1 DEF Entered
  <2>2. CASE b = c BY <1>2, <2>2 DEF Entered
  <2>3. CASE a # c /\ b # c BY <1>2, <2>3 DEF TourInv, OneEntry
  <2> QED BY <2>1, <2>2, <2>3
<1> QED BY <1>2, <1>3

\* What an unredeemed code is for stays what it is.
LEMMA CodeKeeps ==
  ASSUME TourInv, NEW t \in TIds, CreateEntryCode(t) PROVE TourInv'
<1>1. PICK c \in TFreshCode : tentry' = [tentry EXCEPT ![c].t = t] BY DEF CreateEntryCode
<1> DEFINE e == [tentry[c] EXCEPT !.t = t]
<1>2. c \in TCodes /\ tentry[c].t = 0 /\ tentry[c].p = NoPlayer /\ \A j \in TJoiners : tjoin[j].code # c BY CodeIs
<1>3. tentry[c] \in Entrants BY <1>2 DEF TourInv, TourTypeOK
<1>4. e \in Entrants /\ e.t = t /\ e.p = NoPlayer BY <1>2, <1>3 DEF Entrants
<1>5. tentry' = [tentry EXCEPT ![c] = e] BY <1>1
<1> HIDE DEF e
<1>6. UNCHANGED <<tnow, tedits, tour, tpool, truns, tflight, tstand, tadmin, tjoin, tsweep>> BY DEF CreateEntryCode
<1>7. /\ tentry' \in [TCodes -> Entrants] /\ OneEntry'
      /\ \A d \in TCodes : tentry'[d] = IF d = c THEN e ELSE tentry[d]
  BY <1>2, <1>4, <1>5, TourIdsAre, EntryMade
<1>8. RowsInv' BY <1>6, RowsStay
<1>9. TourTypeOK' BY <1>6, <1>7 DEF TourInv, TourTypeOK
<1>10. \A j \in TJoiners : tjoin[j].code # 0 => tjoin[j].code \in TCodes BY DEF TourInv, TourTypeOK, Joins
<1>11. \A d \in TCodes : tentry'[d].t = 0 => tentry'[d].p = NoPlayer BY <1>4, <1>7 DEF TourInv, EntriesInv
<1>12. EntriesInv' BY <1>2, <1>6, <1>7, <1>10, <1>11 DEF TourInv, EntriesInv, Used
<1> QED BY <1>7, <1>8, <1>9, <1>12 DEF TourInv

\* The page's entry: at most one per player and edition.
LEMMA EnterKeeps ==
  ASSUME TourInv, NEW j \in TJoiners, EnterCommit(j) PROVE TourInv'
<1> DEFINE q == tjoin[j]
<1>1. tjoin \in [TJoiners -> Joins] /\ tentry \in [TCodes -> Entrants] BY DEF TourInv, TourTypeOK
<1>2. /\ q.pc = "enter" /\ tjoin' = [tjoin EXCEPT ![j] = TNoJoin] /\ q \in Joins /\ q.t # 0
      /\ UNCHANGED <<tnow, tedits, tour, tpool, truns, tflight, tstand, tadmin, tsweep>>
  BY <1>1 DEF EnterCommit, TourInv, EntriesInv
<1>3. TNoJoin \in Joins /\ TNoJoin.code = 0 /\ TNoJoin.pc = "idle" BY DEF TNoJoin, Joins
<1>4. tjoin' \in [TJoiners -> Joins] /\ \A k \in TJoiners : tjoin'[k] = IF k = j THEN TNoJoin ELSE tjoin[k]
  BY <1>1, <1>2, <1>3
<1>5. RowsInv' BY <1>2, RowsStay
<1>6. \A k \in TJoiners : tjoin[k].code # 0 => tjoin[k].code \in TCodes BY <1>1 DEF Joins
<1>7. \A k \in TJoiners : tjoin'[k].code # 0 =>
         tjoin'[k] = tjoin[k] /\ tjoin[k].pc = "enter" /\ \A l \in TJoiners \ {k} : tjoin'[l].code # tjoin[k].code
  BY <1>3, <1>4 DEF TourInv, EntriesInv
<1>8. CASE UNCHANGED tentry
  <2>1. OneEntry' BY <1>8 DEF TourInv, OneEntry
  <2>2. EntriesInv' BY <1>2, <1>3, <1>4, <1>7, <1>8 DEF TourInv, EntriesInv, Used
  <2>3. TourTypeOK' BY <1>2, <1>4, <1>8 DEF TourInv, TourTypeOK
  <2> QED BY <1>5, <2>1, <2>2, <2>3 DEF TourInv
<1>9. ASSUME NEW c \in TCodes, tentry' = [tentry EXCEPT ![c] = [tentry[c] EXCEPT !.t = q.t, !.p = q.p]],
             tentry[c].p = NoPlayer, ~Entered(q.t, q.p), \A k \in TJoiners \ {j} : tjoin[k].code # c
      PROVE  TourInv'
  <2> DEFINE e == [tentry[c] EXCEPT !.t = q.t, !.p = q.p]
  <2>1. e \in Entrants /\ e.t = q.t /\ e.p = q.p
    <3>1. tentry[c] \in Entrants BY <1>1
    <3>2. q.t \in TIds /\ q.p \in TPlayers \cup {NoPlayer} BY <1>2 DEF Joins
    <3> QED BY <3>1, <3>2 DEF Entrants
  <2> HIDE DEF e
  <2>2. tentry' = [tentry EXCEPT ![c] = e] BY <1>9 DEF e
  <2>3. /\ tentry' \in [TCodes -> Entrants] /\ OneEntry'
        /\ \A d \in TCodes : tentry'[d] = IF d = c THEN e ELSE tentry[d]
    BY <1>2, <1>9, <2>1, <2>2, EntryMade
  <2>4. \A d \in TCodes : tentry'[d].t = 0 => tentry'[d].p = NoPlayer
    BY <1>2, <2>1, <2>3 DEF TourInv, EntriesInv
  <2>5. \A k \in TJoiners : tjoin'[k].code # 0 => tjoin'[k].code # c BY <1>3, <1>4, <1>9
  <2>6. EntriesInv' BY <1>2, <1>3, <1>4, <1>6, <1>7, <2>3, <2>4, <2>5 DEF TourInv, EntriesInv, Used
  <2>7. TourTypeOK' BY <1>2, <1>4, <2>3 DEF TourInv, TourTypeOK
  <2> QED BY <1>5, <2>3, <2>6, <2>7 DEF TourInv
<1>10. CASE q.t \in TRows /\ ~Entered(q.t, q.p) /\ q.code # 0
  <2>1. tentry' = [tentry EXCEPT ![q.code].p = q.p] BY <1>10 DEF EnterCommit
  <2>2. q.code \in TCodes /\ tentry[q.code].t = q.t /\ tentry[q.code].p = NoPlayer
        /\ \A k \in TJoiners \ {j} : tjoin[k].code # q.code
    BY <1>6, <1>10 DEF TourInv, EntriesInv
  <2>3. [tentry[q.code] EXCEPT !.p = q.p] = [tentry[q.code] EXCEPT !.t = q.t, !.p = q.p]
    <3>1. tentry[q.code] \in Entrants BY <1>1, <2>2
    <3> QED BY <2>2, <3>1 DEF Entrants
  <2> QED BY <1>9, <1>10, <2>1, <2>2, <2>3
<1>11. CASE q.t \in TRows /\ ~Entered(q.t, q.p) /\ q.code = 0
  <2>1. PICK c \in TFreshCode : tentry' = [tentry EXCEPT ![c].t = q.t, ![c].p = q.p] BY <1>11 DEF EnterCommit
  <2>2. c \in TCodes /\ tentry[c].p = NoPlayer /\ \A k \in TJoiners : tjoin[k].code # c BY CodeIs
  <2>3. tentry' = [tentry EXCEPT ![c] = [tentry[c] EXCEPT !.t = q.t, !.p = q.p]] BY <1>1, <2>1, <2>2
  <2> QED BY <1>9, <1>11, <2>2, <2>3
<1> QED BY <1>8, <1>10, <1>11 DEF EnterCommit

\* Runs and the clock.
LEMMA RunsKeep ==
  ASSUME TourInv, (\E p \in TPlayers, m \in TMaps : RunStamp(p, m)) \/ RunCommit PROVE TourInv'
<1>1. UNCHANGED <<tnow, tedits, tour, tpool, tentry, tstand, tadmin, tjoin, tsweep>> BY DEF RunStamp, RunCommit
<1>2. /\ tour \in [TIds -> Editions] /\ tnow \in 0..TMaxTime
      /\ truns \subseteq [p : TPlayers, m : TMaps, at : 0..TMaxTime]
      /\ tflight = TNoRun \/ tflight \in [p : TPlayers, m : TMaps, at : 0..TMaxTime, open : SUBSET TIds]
  BY DEF TourInv, TourTypeOK
<1>3. OneEntry' BY <1>1 DEF TourInv, OneEntry
<1>4. EntriesInv' BY <1>1 DEF TourInv, EntriesInv, Used
<1>5. CASE RunCommit
  <2>1. /\ tflight # TNoRun /\ tflight' = TNoRun
        /\ truns' = truns \cup {[p |-> tflight.p, m |-> tflight.m, at |-> tflight.at]}
    BY <1>5 DEF RunCommit
  <2>2. TourTypeOK' BY <1>1, <1>2, <2>1 DEF TourInv, TourTypeOK
  <2>3. RowsInv' BY <1>1, <2>1 DEF TourInv, RowsInv, Used
  <2> QED BY <1>3, <1>4, <2>2, <2>3 DEF TourInv
<1>6. ASSUME NEW p \in TPlayers, NEW m \in TMaps, RunStamp(p, m) PROVE TourInv'
  <2> DEFINE run == [p |-> p, m |-> m, at |-> tnow, open |-> {t \in TIds : tour[t].status # "finalized"}]
  <2>1. tflight' = run /\ UNCHANGED truns BY <1>6 DEF RunStamp
  <2>2. run \in [p : TPlayers, m : TMaps, at : 0..TMaxTime, open : SUBSET TIds] BY <1>2
  <2>3. \A t \in TIds \ run.open : tour[t].status = "finalized" /\ tour[t].end <= run.at
    BY DEF TourInv, RowsInv
  <2> HIDE DEF run
  <2>4. TourTypeOK' BY <1>1, <2>1, <2>2 DEF TourInv, TourTypeOK
  <2>5. RowsInv' BY <1>1, <2>1, <2>3 DEF TourInv, RowsInv, Used
  <2> QED BY <1>3, <1>4, <2>4, <2>5 DEF TourInv
<1> QED BY <1>5, <1>6

\* Time passes.
LEMMA TourTickKeeps == ASSUME TourInv, TourTick PROVE TourInv'
<1>1. tnow \in Nat /\ tnow' = tnow + 1 /\ tnow' \in 0..TMaxTime
      /\ UNCHANGED <<tedits, tour, tpool, tentry, truns, tflight, tstand, tadmin, tjoin, tsweep>>
  BY TourAssumption DEF TourInv, TourTypeOK, TourTick
<1>2. tour \in [TIds -> Editions] /\ tsweep \in [TReplicas -> TourSweeps] /\ TMaxTime \in Nat
  BY TourAssumption DEF TourInv, TourTypeOK
<1>3. TourTypeOK' BY <1>1 DEF TourInv, TourTypeOK
<1>4. OneEntry' BY <1>1 DEF TourInv, OneEntry
<1>5. EntriesInv' BY <1>1 DEF TourInv, EntriesInv, Used
<1>6. \A t \in TIds : tour[t].end \in Nat /\ tour[t].edition <= t BY <1>2 DEF Editions, TourInv, RowsInv
<1>7. \A r \in TReplicas : tsweep[r].at \in Nat BY <1>2 DEF TourSweeps
<1>8. RowsInv' BY <1>1, <1>6, <1>7 DEF TourInv, RowsInv, Used
<1> QED BY <1>3, <1>4, <1>5, <1>8 DEF TourInv

\* A sweep moves on without touching what it decides about.
LEMMA SweepMoves ==
  ASSUME TourInv, NEW r \in TReplicas,
         SweepStart(r) \/ SweepItemFails(r) \/ SweepOrphans(r) \/ SweepEnd(r) \/ SweepCut(r)
  PROVE  TourInv'
<1>1. UNCHANGED <<tnow, tour, tpool, tentry, truns, tflight, tstand, tadmin, tjoin>>
  BY DEF SweepStart, SweepItemFails, SweepOrphans, SweepEnd, SweepCut
<1>2. tedits \in 0..TMaxEdits BY DEF TourInv, TourTypeOK
<1>3. tedits' \in 0..TMaxEdits
  <2>1. CASE UNCHANGED tedits BY <1>2, <2>1
  <2>2. CASE Request BY <1>2, <2>2, TourAssumption DEF Request
  <2> QED BY <2>1, <2>2 DEF SweepStart, SweepItemFails, SweepOrphans, SweepEnd, SweepCut
<1>4. /\ tsweep' \in [TReplicas -> TourSweeps]
      /\ \A s \in TReplicas : tsweep'[s].at <= tnow /\ \A u \in tsweep'[s].todo : u \in TIds /\ Used(u)
  <2>1. CASE SweepItemFails(r)
    <3>1. PICK t : tsweep' = [tsweep EXCEPT ![r].todo = @ \ {t}] BY <2>1 DEF SweepItemFails
    <3> QED BY <3>1, ItemDone
  <2>2. ASSUME NEW w \in TourSweeps, tsweep' = [tsweep EXCEPT ![r] = w],
               w.at <= tnow, \A u \in w.todo : u \in TIds /\ Used(u)
        PROVE  /\ tsweep' \in [TReplicas -> TourSweeps]
               /\ \A s \in TReplicas : tsweep'[s].at <= tnow /\ \A u \in tsweep'[s].todo : u \in TIds /\ Used(u)
    <3>1. tsweep \in [TReplicas -> TourSweeps] BY SweepsAre
    <3>2. tsweep' \in [TReplicas -> TourSweeps] /\ \A s \in TReplicas : tsweep'[s] = IF s = r THEN w ELSE tsweep[s]
      BY <2>2, <3>1
    <3> QED BY <2>2, <3>2, SweepsAre
  <2>3. CASE SweepStart(r)
    <3> DEFINE w == [pc |-> "finalize", at |-> tnow,
                     todo |-> {t \in TRows : tour[t].status = "published" /\ tour[t].end <= tnow}]
    <3>1. w \in TourSweeps BY SweepsAre DEF TourSweeps, TRows
    <3>2. w.at <= tnow BY SweepsAre
    <3>3. \A u \in w.todo : u \in TIds /\ Used(u) BY DEF TRows, Used
    <3>4. tsweep' = [tsweep EXCEPT ![r] = w] BY <2>3 DEF SweepStart
    <3> HIDE DEF w
    <3> QED BY <2>2, <3>1, <3>2, <3>3, <3>4
  <2>4. CASE SweepOrphans(r)
    <3> DEFINE w == [tsweep[r] EXCEPT !.pc = "schedule", !.todo = Orphans]
    <3>1. tsweep[r] \in TourSweeps /\ tsweep[r].at <= tnow BY SweepsAre
    <3>2. Orphans \subseteq TIds /\ \A u \in Orphans : Used(u) BY DEF Orphans, TRows, Used
    <3>3. w \in TourSweeps /\ w.at = tsweep[r].at /\ w.todo = Orphans BY <3>1, <3>2 DEF TourSweeps
    <3>4. tsweep' = [tsweep EXCEPT ![r] = w]
      <4>1. tsweep' = [tsweep EXCEPT ![r].pc = "schedule", ![r].todo = Orphans] BY <2>4 DEF SweepOrphans
      <4>2. tsweep \in [TReplicas -> TourSweeps] BY SweepsAre
      <4> QED BY <4>1, <4>2
    <3> HIDE DEF w
    <3> QED BY <2>2, <3>1, <3>2, <3>3, <3>4
  <2>5. CASE SweepEnd(r) \/ SweepCut(r)
    <3>1. tsweep' = [tsweep EXCEPT ![r] = TNoSweep] BY <2>5 DEF SweepEnd, SweepCut
    <3>2. TNoSweep \in TourSweeps /\ TNoSweep.at <= tnow /\ TNoSweep.todo = {} BY SweepsAre DEF TNoSweep, TourSweeps
    <3> QED BY <2>2, <3>1, <3>2
  <2> QED BY <2>1, <2>3, <2>4, <2>5
<1>5. tour' \in [TIds -> Editions] BY <1>1 DEF TourInv, TourTypeOK
<1>6. \A t \in TIds : RowMoves(t) BY <1>1 DEF RowMoves
<1>7. RowsInv' /\ \A u \in TIds : Used(u) => Used(u)' BY <1>1, <1>4, <1>5, <1>6, RowsMove
<1>8. OneEntry' /\ EntriesInv' BY <1>1, <1>7, EntriesStay
<1>9. TourTypeOK' BY <1>1, <1>3, <1>4 DEF TourInv, TourTypeOK
<1> QED BY <1>7, <1>8, <1>9 DEF TourInv

\* Nothing of the tournaments moves.
LEMMA TourStutters == ASSUME TourInv, UNCHANGED tourVars PROVE TourInv'
<1>1. UNCHANGED <<tnow, tedits, tour, tpool, tentry, truns, tflight, tstand, tadmin, tjoin, tsweep>> BY DEF tourVars
<1>2. TourTypeOK' BY <1>1 DEF TourInv, TourTypeOK
<1>3. OneEntry' BY <1>1 DEF TourInv, OneEntry
<1>4. EntriesInv' BY <1>1 DEF TourInv, EntriesInv, Used
<1> QED BY <1>1, <1>2, <1>3, <1>4, RowsStay DEF TourInv

\* The inductive invariant of tournaments.
LEMMA TourAlways == TourSpec => []TourInv
<1>1. ASSUME TourInv, TourNext PROVE TourInv'
  <2>1. CASE TourAdmin
    BY <1>1, <2>1, CreateKeeps, UpdateKeeps, StatusKeeps, FormKeeps, DeleteKeeps, AdminFinalizeKeeps DEF TourAdmin
  <2>2. CASE TourPlayers BY <1>1, <2>2, CodeKeeps, JoinKeeps, RedeemKeeps, EnterKeeps, RunsKeep DEF TourPlayers
  <2>3. CASE TourSweep
    BY <1>1, <2>3, FinalizeKeeps, ScheduleKeeps, SweepMoves DEF TourSweep, SweepTournaments
  <2>4. CASE TourTick BY <1>1, <2>4, TourTickKeeps
  <2> QED BY <1>1, <2>1, <2>2, <2>3, <2>4 DEF TourNext
<1> QED BY <1>1, TourAtFirst, TourStutters, PTL DEF TourSpec

\* What a step does to final results, late runs and entries.
FinalStays ==
  \A t \in TIds : tour[t].status = "finalized" =>
    \/ tour'[t].status = "deleted"
    \/ /\ tour'[t] = tour[t] /\ tstand'[t] = tstand[t]
       /\ tpool'[t] # tpool[t] => tadmin.pc = "maps" /\ tadmin.t = t
LateWasInFlight ==
  \A t \in TIds :
    /\ truns' # truns /\ t \in TRows /\ tour[t].status = "finalized"
    /\ tour[t].start <= tflight.at /\ tflight.at < tour[t].end
    => t \in tflight.open
EntryStays ==
  \A c \in TCodes : tentry[c].p # NoPlayer /\ tentry'[c].p # tentry[c].p =>
    tadmin.pc = "delete" /\ tadmin.t = tentry[c].t /\ c \notin tadmin.seen

\* No step touches final standings.
LEMMA FinalSteps == ASSUME TourInv, TourNext PROVE FinalStays
<1>1. tour \in [TIds -> Editions] /\ tpool \in [TIds -> SUBSET TMaps] /\ tstand \in [TIds -> SUBSET (TPlayers \X TMaps)]
  BY DEF TourInv, TourTypeOK
<1>2. CASE UNCHANGED <<tour, tpool, tstand>> BY <1>2 DEF FinalStays
<1>3. ASSUME NEW start, NEW status, NEW pool, NEW repeat, AdminCreate(start, status, repeat, pool) PROVE FinalStays
  <2>1. PICK n \in TFresh(TIds) : \E row : tour' = [tour EXCEPT ![n] = row] BY <1>3 DEF AdminCreate
  <2>2. tour[n].status = "unused" /\ UNCHANGED <<tpool, tstand>> BY <1>3, FreshIs DEF AdminCreate
  <2> QED BY <1>1, <2>1, <2>2 DEF FinalStays
<1>4. ASSUME NEW t \in TIds, NEW start, NEW status, NEW pool, AdminUpdate(t, start, status, pool) PROVE FinalStays
  BY <1>1, <1>4 DEF AdminUpdate, FinalStays
<1>5. ASSUME NEW t \in TIds, NEW status, SetTournamentStatus(t, status) PROVE FinalStays
  BY <1>1, <1>5 DEF SetTournamentStatus, FinalStays
<1>6. CASE SetTournamentMaps BY <1>1, <1>6 DEF SetTournamentMaps, FinalStays
<1>7. CASE DeleteTournament
  <2>1. \A t \in TIds : tour'[t] = IF t = tadmin.t THEN [tour[t] EXCEPT !.status = "deleted"] ELSE tour[t]
    BY <1>1, <1>7 DEF DeleteTournament
  <2>2. \A t \in TIds : t # tadmin.t => tpool'[t] = tpool[t] /\ tstand'[t] = tstand[t]
    BY <1>1, <1>7 DEF DeleteTournament
  <2> QED BY <1>1, <2>1, <2>2 DEF FinalStays, Editions
<1>8. ASSUME NEW t \in TIds, NEW now, Finalize(t, now), UNCHANGED tpool PROVE FinalStays
  <2>1. CASE UNCHANGED <<tstand, tour>> BY <1>8, <2>1 DEF FinalStays
  <2>2. CASE tour[t].status = "published" /\ Freeze(t) BY <1>1, <1>8, <2>2 DEF Freeze, FinalStays
  <2> QED BY <1>8, <2>1, <2>2 DEF Finalize
<1>9. ASSUME NEW r \in TReplicas, SweepFinalize(r) PROVE FinalStays
  <2>1. PICK t \in TIds : Finalize(t, tsweep[r].at) BY <1>9, SweepsAre DEF SweepFinalize
  <2> QED BY <1>8, <1>9, <2>1 DEF SweepFinalize
<1>10. ASSUME NEW r \in TReplicas, SweepSchedule(r) PROVE FinalStays
  <2>1. PICK t \in tsweep[r].todo : ScheduleNext(t, tsweep[r].at) BY <1>10 DEF SweepSchedule
  <2>2. CASE UNCHANGED <<tour, tpool>> BY <1>10, <2>2 DEF SweepSchedule, FinalStays
  <2>3. ASSUME NEW n \in TFresh(TIds), NEW row, tour' = [tour EXCEPT ![n] = row], tpool' = [tpool EXCEPT ![n] = tpool[t]]
        PROVE  FinalStays
    <3>1. tour[n].status = "unused" /\ UNCHANGED tstand BY <1>10, FreshIs DEF SweepSchedule
    <3> QED BY <1>1, <2>3, <3>1 DEF FinalStays
  <2> QED BY <2>1, <2>2, <2>3 DEF ScheduleNext
<1>11. ASSUME NEW t \in TIds, AdminFinalize(t) PROVE FinalStays BY <1>8, <1>11 DEF AdminFinalize
<1>12. CASE TourAdmin
  <2>1. (AdminLost \/ \E t \in TIds : DeleteCheck(t)) => UNCHANGED <<tour, tpool, tstand>> BY DEF AdminLost, DeleteCheck
  <2> QED BY <1>2, <1>3, <1>4, <1>5, <1>6, <1>7, <1>11, <1>12, <2>1 DEF TourAdmin
<1>13. CASE TourPlayers \/ TourTick
  BY <1>2, <1>13
     DEF TourPlayers, TourTick, CreateEntryCode, JoinCheck, RedeemCheck, EnterCommit, RunStamp, RunCommit
<1>14. CASE TourSweep
  <2>1. \A r \in TReplicas : SweepStart(r) \/ SweepOrphans(r) \/ SweepEnd(r) \/ SweepItemFails(r) \/ SweepCut(r)
                               => UNCHANGED <<tour, tpool, tstand>>
    BY DEF SweepStart, SweepOrphans, SweepEnd, SweepItemFails, SweepCut
  <2> QED BY <1>2, <1>9, <1>10, <1>14, <2>1 DEF TourSweep, SweepTournaments
<1> QED BY <1>12, <1>13, <1>14 DEF TourNext

\* A run is left out only when it was in flight at the freeze.
LEMMA LateSteps == ASSUME TourInv, TourNext PROVE LateWasInFlight
<1>1. CASE RunCommit
  <2> SUFFICES ASSUME NEW t \in TIds, t \in TRows, tour[t].status = "finalized",
                      tour[t].start <= tflight.at, tflight.at < tour[t].end, t \notin tflight.open
               PROVE  FALSE
    BY DEF LateWasInFlight
  <2>1. tflight # TNoRun BY <1>1 DEF RunCommit
  <2>2. tour[t].end <= tflight.at BY <2>1 DEF TourInv, RowsInv
  <2>3. tflight.at \in Nat /\ tour[t].end \in Nat BY <2>1, TourAssumption DEF TourInv, TourTypeOK, Editions
  <2> QED BY <2>2, <2>3
<1>2. ~RunCommit => UNCHANGED truns
  <2>1. TourAdmin => UNCHANGED truns
    BY DEF TourAdmin, AdminCreate, AdminUpdate, SetTournamentMaps, AdminLost, DeleteTournament, DeleteCheck,
           AdminFinalize, SetTournamentStatus
  <2>2. TourPlayers /\ ~RunCommit => UNCHANGED truns
    BY DEF TourPlayers, CreateEntryCode, JoinCheck, RedeemCheck, EnterCommit, RunStamp
  <2>3. TourSweep \/ TourTick => UNCHANGED truns
    BY DEF TourSweep, SweepTournaments, TourTick, SweepStart, SweepFinalize, SweepOrphans, SweepSchedule, SweepEnd,
           SweepItemFails, SweepCut
  <2> QED BY <2>1, <2>2, <2>3 DEF TourNext
<1> QED BY <1>1, <1>2 DEF LateWasInFlight

\* No step takes an entry away from an edition that stays.
LEMMA EntrySteps == ASSUME TourInv, TourNext PROVE EntryStays
<1>1. tentry \in [TCodes -> Entrants] BY DEF TourInv, TourTypeOK
<1>2. CASE UNCHANGED tentry BY <1>2 DEF EntryStays
<1>3. CASE DeleteTournament BY <1>1, <1>3 DEF DeleteTournament, EntryStays, TourInv, EntriesInv
<1>4. ASSUME NEW t \in TIds, CreateEntryCode(t) PROVE EntryStays
  <2>1. PICK c \in TFreshCode : tentry' = [tentry EXCEPT ![c].t = t] BY <1>4 DEF CreateEntryCode
  <2>2. c \in TCodes /\ tentry[c].p = NoPlayer BY CodeIs
  <2> QED BY <1>1, <2>1, <2>2 DEF EntryStays
<1>5. ASSUME NEW j \in TJoiners, EnterCommit(j) PROVE EntryStays
  <2>1. ASSUME NEW c \in TCodes, tentry[c].p = NoPlayer, \A d \in TCodes : d # c => tentry'[d] = tentry[d]
        PROVE  EntryStays
    BY <2>1 DEF EntryStays
  <2>2. tjoin[j].code # 0 => tjoin[j].code \in TCodes /\ tentry[tjoin[j].code].p = NoPlayer
    BY DEF TourInv, TourTypeOK, Joins, EntriesInv
  <2>3. CASE tjoin[j].code # 0 /\ tentry' = [tentry EXCEPT ![tjoin[j].code].p = tjoin[j].p] BY <1>1, <2>1, <2>2, <2>3
  <2>4. ASSUME NEW c \in TFreshCode, tentry' = [tentry EXCEPT ![c].t = tjoin[j].t, ![c].p = tjoin[j].p]
        PROVE  EntryStays
    <3>1. c \in TCodes /\ tentry[c].p = NoPlayer BY CodeIs
    <3> QED BY <1>1, <2>1, <2>4, <3>1
  <2> QED BY <1>2, <1>5, <2>3, <2>4 DEF EnterCommit
<1>6. CASE TourAdmin /\ ~DeleteTournament
  <2>1. /\ \A start, status, repeat, pool : AdminCreate(start, status, repeat, pool) => UNCHANGED tentry
        /\ \A t, start, status, pool : AdminUpdate(t, start, status, pool) => UNCHANGED tentry
    BY DEF AdminCreate, AdminUpdate
  <2>2. SetTournamentMaps \/ AdminLost => UNCHANGED tentry BY DEF SetTournamentMaps, AdminLost
  <2>3. /\ \A t : DeleteCheck(t) => UNCHANGED tentry
        /\ \A t : AdminFinalize(t) => UNCHANGED tentry
        /\ \A t, status : SetTournamentStatus(t, status) => UNCHANGED tentry
    BY DEF DeleteCheck, AdminFinalize, SetTournamentStatus
  <2>4. UNCHANGED tentry
    <3>1. CASE SetTournamentMaps \/ AdminLost BY <2>2, <3>1
    <3>2. CASE \E start \in 0..(TMaxTime - TLen), status \in {"draft", "published"}, pool \in (SUBSET TMaps) \ {{}} :
                  \/ \E repeat \in BOOLEAN : AdminCreate(start, status, repeat, pool)
                  \/ \E t \in TIds : AdminUpdate(t, start, status, pool)
      BY <2>1, <3>2, Zenon
    <3>3. CASE \E t \in TIds : DeleteCheck(t) \/ AdminFinalize(t) BY <2>3, <3>3, Zenon
    <3>4. CASE \E t \in TIds, status \in {"draft", "published", "cancelled"} : SetTournamentStatus(t, status)
      BY <2>3, <3>4, Zenon
    <3> QED BY <1>6, <3>1, <3>2, <3>3, <3>4 DEF TourAdmin
  <2> QED BY <1>2, <2>4
<1>7. CASE TourPlayers
  BY <1>2, <1>4, <1>5, <1>7 DEF TourPlayers, JoinCheck, RedeemCheck, RunStamp, RunCommit
<1>8. CASE TourSweep \/ TourTick
  BY <1>2, <1>8 DEF TourSweep, SweepTournaments, TourTick, SweepStart, SweepFinalize, SweepOrphans, SweepSchedule,
                    SweepEnd, SweepItemFails, SweepCut
<1> QED BY <1>3, <1>6, <1>7, <1>8 DEF TourNext

\* What tournaments have settled stays so, for any number of editions, entrants and sweeps.
LEMMA SettledStays == TourSpec => FinalIsFinal /\ MissedOnlyInFlight /\ EntryHonoured
<1>1. ASSUME TourInv, [TourNext]_tourVars
      PROVE  [FinalStays]_tourVars /\ [LateWasInFlight]_tourVars /\ [EntryStays]_tourVars
  BY <1>1, FinalSteps, LateSteps, EntrySteps
<1> QED BY <1>1, TourAlways, PTL
        DEF TourSpec, FinalIsFinal, MissedOnlyInFlight, EntryHonoured, FinalStays, LateWasInFlight, EntryStays

-----------------------------------------------------------------------------
(* The monthly cup.                                                        *)

\* The greatest of some numbers.
LEMMA MaxIs ==
  ASSUME NEW n \in Nat, NEW S \in SUBSET (0..n), S # {}
  PROVE  Max(S) \in S /\ \A y \in S : y <= Max(S)
<1> DEFINE T == {n - x : x \in S}
<1>0. \A x \in S : x \in 0..n OBVIOUS
<1>1. T \in SUBSET Nat BY <1>0
<1>2. T # {} OBVIOUS
<1>3. PICK t \in T : \A y \in T : t <= y BY <1>1, <1>2, LeastNat
<1>4. PICK x \in S : t = n - x BY <1>3
<1>5. \A y \in S : x >= y BY <1>0, <1>3, <1>4
<1> QED BY <1>0, <1>5 DEF Max

\* The period of a moment before the end is a month.
LEMMA MonthsAre ==
  ASSUME NEW now \in Nat
  PROVE  /\ Cardinality(Months) \in Nat /\ Months \subseteq Nat
         /\ now < 3 * Cardinality(Months) => Period(now) \in Months
         /\ (now + 1) % 3 # 0 => Period(now + 1) = Period(now)
         /\ Period(now) \in Nat /\ Period(now + 1) >= Period(now)
<1>1. Cardinality(Months) \in Nat /\ Months = 0..(Cardinality(Months) - 1)
  BY CupAssumption, FS_CardinalityType
<1> HIDE DEF Period
<1>2. now < 3 * Cardinality(Months) => Period(now) \in 0..(Cardinality(Months) - 1) BY <1>1 DEF Period
<1>3. (now + 1) % 3 # 0 => Period(now + 1) = Period(now) BY DEF Period
<1>4. Period(now) \in Nat /\ Period(now + 1) >= Period(now) BY DEF Period
<1> QED BY <1>1, <1>2, <1>3, <1>4

\* Before the first month all is as it should be.
LEMMA CupAtFirst == CupInit => CupInv
<1> SUFFICES ASSUME CupInit PROVE CupInv OBVIOUS
<1>1. Cardinality(Months) \in Nat /\ Months = 0..(Cardinality(Months) - 1) /\ 0 \in Months
  BY CupAssumption, FS_CardinalityType
<1>2. CupTypeOK BY <1>1, CupAssumption DEF CupInit, CupTypeOK, CupRows, CupPasses, Decisions, NoRow, NoPass, NoMap
<1>3. mnow < 3 * Cardinality(Months) BY <1>1 DEF CupInit
<1>4. SeriesNotStarved
  <2> SUFFICES ASSUME NEW k \in Months, k >= MaxSkipStreak
               PROVE  \E j \in (k - MaxSkipStreak)..k : mrow[j].decision # "skipped_overlap"
    BY DEF SeriesNotStarved
  <2>1. k \in (k - MaxSkipStreak)..k BY <1>1, CupAssumption
  <2>2. mrow[k].decision # "skipped_overlap" BY DEF CupInit, NoRow
  <2> QED BY <2>1, <2>2
<1> QED BY <1>2, <1>3, <1>4 DEF CupInit, CupInv, NoRow, NoPass

\* A pass goes one step further and writes nothing.
LEMMA PassMoves ==
  ASSUME CupInv, ReadOnly, NEW r \in CupReplicas, NEW q, Continue(r, q),
         q \in CupPasses,
         q.pc # "idle" => q.k = Period(mnow),
         q.pc \in {"record", "upsert"} /\ q.decision = "skipped_overlap" /\ MaxSkipStreak > 0 => StreakEnds(q.k)
  PROVE  CupInv'
<1>1. UNCHANGED <<mnow, mrow, mcup, mother, mops, mmade>> BY DEF ReadOnly
<1>2. mpass' = [mpass EXCEPT ![r] = q] BY DEF Continue
<1>3. mpass \in [CupReplicas -> CupPasses]
  BY DEF CupInv, CupTypeOK
<1>4. \A s \in CupReplicas : mpass'[s] = IF s = r THEN q ELSE mpass[s] BY <1>2, <1>3
<1>5. CupTypeOK' BY <1>1, <1>2, <1>3 DEF CupInv, CupTypeOK
<1>6. \A k : StreakEnds(k)' = StreakEnds(k) BY <1>1 DEF StreakEnds, Overlapped
<1>7. Period(mnow)' = Period(mnow) BY <1>1
<1>8. SeriesNotStarved' = SeriesNotStarved BY <1>1 DEF SeriesNotStarved
<1> QED BY <1>1, <1>4, <1>5, <1>6, <1>7, <1>8 DEF CupInv

\* The pass that reads.
LEMMA ReadsKeep ==
  ASSUME CupInv, NEW r \in CupReplicas,
         PassStart(r) \/ PassHolder(r) \/ PassBlockers(r) \/ RecordRead(r) \/ PassFails(r)
  PROVE  CupInv'
<1> DEFINE q == mpass'[r]
<1>1. mpass \in [CupReplicas -> CupPasses]
  BY DEF CupInv, CupTypeOK
<1>2. ReadOnly /\ Continue(r, q)
  BY <1>1 DEF PassStart, PassHolder, PassBlockers, RecordRead, PassFails, Return, Continue
<1>3. Months \subseteq Nat /\ 0 \in Months
  BY CupAssumption, FS_CardinalityType
<1>4. mrow \in [Months -> CupRows]
  BY DEF CupInv, CupTypeOK
<1>5. \/ q = NoPass
      \/ /\ Period(mnow) \in Months /\ q = [NoPass EXCEPT !.pc = "holder", !.k = Period(mnow), !.carry = mrow[Period(mnow)].force,
                    !.forced = mrow[Period(mnow)].decision = "forced" \/ mrow[Period(mnow)].force]
      \/ \E d \in {"cancelled", "scheduled", "blocked"} : mpass[r].pc # "idle" /\ q = [mpass[r] EXCEPT !.pc = "record", !.decision = d]
      \/ \E d \in {"blockers", "decide"} : mpass[r].pc # "idle" /\ q = [mpass[r] EXCEPT !.pc = d]
      \/ mpass[r].pc = "record" /\ q = [mpass[r] EXCEPT !.pc = "upsert"]
  BY <1>1 DEF PassStart, PassHolder, PassBlockers, RecordRead, PassFails, Return, Continue
<1>6. NoPass \in CupPasses
  BY <1>3 DEF NoPass, CupPasses, Decisions
<1> HIDE DEF q
<1>7. q \in CupPasses /\ (q.pc # "idle" => q.k = Period(mnow))
      /\ (q.pc \in {"record", "upsert"} /\ q.decision = "skipped_overlap" /\ MaxSkipStreak > 0 => StreakEnds(q.k))
  <2>1. CASE q = NoPass BY <1>6, <2>1 DEF NoPass
  <2>2. CASE /\ Period(mnow) \in Months
             /\ q = [NoPass EXCEPT !.pc = "holder", !.k = Period(mnow), !.carry = mrow[Period(mnow)].force,
                    !.forced = mrow[Period(mnow)].decision = "forced" \/ mrow[Period(mnow)].force]
    <3>1. mrow[Period(mnow)].force \in BOOLEAN BY <1>4, <2>2 DEF CupRows
    <3>2. (mrow[Period(mnow)].decision = "forced" \/ mrow[Period(mnow)].force) \in BOOLEAN OBVIOUS
    <3> HIDE DEF Period
    <3>3. q.pc = "holder" /\ q.k = Period(mnow) BY <2>2 DEF NoPass
    <3> QED BY <1>6, <2>2, <3>1, <3>2, <3>3 DEF CupPasses
  <2>3. CASE \E d \in {"cancelled", "scheduled", "blocked"} :
               mpass[r].pc # "idle" /\ q = [mpass[r] EXCEPT !.pc = "record", !.decision = d]
    <3>1. PICK d \in {"cancelled", "scheduled", "blocked"} :
            mpass[r].pc # "idle" /\ q = [mpass[r] EXCEPT !.pc = "record", !.decision = d]
      BY <2>3
    <3>2. d \in Decisions /\ d # "skipped_overlap" BY <3>1 DEF Decisions, Terminal
    <3>3. mpass[r] \in CupPasses /\ mpass[r].k = Period(mnow) BY <1>1, <3>1 DEF CupInv
    <3>4. q.decision = d /\ q.k = mpass[r].k /\ q.pc = "record" BY <3>1, <3>3 DEF CupPasses
    <3>5. q \in CupPasses BY <3>1, <3>2, <3>3 DEF CupPasses
    <3> QED BY <3>2, <3>3, <3>4, <3>5
  <2>4. CASE \E d \in {"blockers", "decide"} : mpass[r].pc # "idle" /\ q = [mpass[r] EXCEPT !.pc = d]
    BY <1>1, <2>4 DEF CupPasses, CupInv
  <2>5. CASE mpass[r].pc = "record" /\ q = [mpass[r] EXCEPT !.pc = "upsert"]
    BY <1>1, <2>5 DEF CupPasses, CupInv
  <2> QED BY <1>5, <2>1, <2>2, <2>3, <2>4, <2>5
<1> QED BY <1>2, <1>7, PassMoves

\* A skip for an overlap ends no streak that is long enough.
LEMMA StreakIs ==
  ASSUME CupInv, NEW k \in Months, MaxSkipStreak > 0, ~(SkipStreak(k) >= MaxSkipStreak)
  PROVE  StreakEnds(k)
<1> DEFINE S == {n \in 0..k : \A j \in (k - n)..(k - 1) : Skipped(j)}
<1>1. k \in Nat /\ MaxSkipStreak \in Nat BY CupAssumption, FS_CardinalityType
<1>2. SUFFICES ASSUME k >= MaxSkipStreak, \A j \in (k - MaxSkipStreak)..(k - 1) : Overlapped(j) PROVE FALSE
  BY DEF StreakEnds
<1>3. \A j \in (k - MaxSkipStreak)..(k - 1) : Skipped(j) BY <1>2 DEF Overlapped, Skipped, Skips
<1>4. MaxSkipStreak \in S BY <1>1, <1>2, <1>3
<1>5. S \in SUBSET (0..k) /\ S # {} BY <1>4
<1> HIDE DEF S
<1>6. MaxSkipStreak <= Max(S) /\ Max(S) \in 0..k BY <1>1, <1>4, <1>5, MaxIs
<1>7. SkipStreak(k) = Max(S) BY DEF SkipStreak, S
<1> QED BY <1>1, <1>6, <1>7

\* cupPass decides on a month from what it has read.
LEMMA DecideKeeps ==
  ASSUME CupInv, NEW r \in CupReplicas, PassDecide(r) PROVE CupInv'
<1> DEFINE p == mpass[r]
<1>1. mpass \in [CupReplicas -> CupPasses]
  BY DEF CupInv, CupTypeOK
<1>2. p.k = Period(mnow) /\ ReadOnly BY <1>1 DEF CupInv, PassDecide
<1>3. PICK top \in CupMaps \cup {NoMap} :
        LET d == DecideMonthlyPool(top, PrevPool(p.k), SkipStreak(p.k), p.forced)
        IN Continue(r, [p EXCEPT !.pc = IF d \in Skips THEN "record" ELSE "claim", !.decision = d, !.pool = top])
  BY DEF PassDecide
<1> DEFINE d == DecideMonthlyPool(top, PrevPool(p.k), SkipStreak(p.k), p.forced)
           q == [p EXCEPT !.pc = IF d \in Skips THEN "record" ELSE "claim", !.decision = d, !.pool = top]
<1>4. d \in {"skipped_thin", "forced", "skipped_overlap", "scheduled"}
      /\ (d = "skipped_overlap" => ~(MaxSkipStreak > 0 /\ SkipStreak(p.k) >= MaxSkipStreak))
  BY DEF DecideMonthlyPool
<1> HIDE DEF d
<1>5. d = "skipped_overlap" /\ MaxSkipStreak > 0 => StreakEnds(p.k)
  <2>1. p.k \in Months BY <1>1 DEF CupPasses
  <2> QED BY <1>4, <2>1, StreakIs
<1>6. Continue(r, q) BY <1>3 DEF d
<1>7. q.k = Period(mnow) /\ q.decision = d BY <1>1, <1>2
<1>8. q.decision = "skipped_overlap" /\ MaxSkipStreak > 0 => StreakEnds(q.k) BY <1>1, <1>5
<1>9. q \in CupPasses
  BY <1>1, <1>4 DEF CupPasses, Decisions, Terminal
<1> HIDE DEF q
<1> QED BY <1>2, <1>6, <1>7, <1>8, <1>9, PassMoves

\* A row is written: the month's own, now or by an operator.
LEMMA RowWritten ==
  ASSUME CupInv, NEW k \in Months, k = Period(mnow), NEW row \in CupRows,
         mrow' = [mrow EXCEPT ![k] = row], UNCHANGED mnow,
         row.decision = "skipped_overlap" /\ MaxSkipStreak > 0 => StreakEnds(k) \/ mrow[k].decision = "skipped_overlap"
  PROVE  /\ mrow' \in [Months -> CupRows]
         /\ \A j \in Months : mrow'[j] = IF j = k THEN row ELSE mrow[j]
         /\ MaxSkipStreak > 0 => SeriesNotStarved'
         /\ MaxSkipStreak > 0 => (StreakEnds(k)' <=> StreakEnds(k))
<1>1. mrow \in [Months -> CupRows] BY DEF CupInv, CupTypeOK
<1>2. \A j \in Months : mrow'[j] = IF j = k THEN row ELSE mrow[j] BY <1>1
<1>3. Cardinality(Months) \in Nat /\ Months = 0..(Cardinality(Months) - 1) /\ MaxSkipStreak \in Nat
  BY CupAssumption, FS_CardinalityType
<1>4. ASSUME MaxSkipStreak > 0 PROVE SeriesNotStarved'
  <2> SUFFICES ASSUME NEW i \in Months, i >= MaxSkipStreak
               PROVE  \E j \in (i - MaxSkipStreak)..i : mrow'[j].decision # "skipped_overlap"
    BY DEF SeriesNotStarved
  <2>1. PICK j \in (i - MaxSkipStreak)..i : mrow[j].decision # "skipped_overlap"
    BY <1>4 DEF SeriesNotStarved, CupInv
  <2>2. j \in Months /\ i \in (i - MaxSkipStreak)..i BY <1>3
  <2>3. CASE j # k BY <1>2, <2>1, <2>2, <2>3
  <2>4. CASE j = k /\ i # k
    <3>1. mrow[i].decision = "none" BY <1>3, <2>1, <2>4 DEF CupInv
    <3> QED BY <1>2, <2>2, <2>4, <3>1
  <2>5. CASE j = k /\ i = k
    <3>1. CASE row.decision # "skipped_overlap" BY <1>2, <2>2, <2>5, <3>1
    <3>2. CASE row.decision = "skipped_overlap"
      <4>1. StreakEnds(k) BY <1>4, <2>1, <2>5, <3>2
      <4>2. PICK h \in (k - MaxSkipStreak)..(k - 1) : mrow[h].decision # "skipped_overlap"
        BY <2>5, <4>1 DEF StreakEnds, Overlapped
      <4>3. h \in (i - MaxSkipStreak)..i /\ h # k /\ h \in Months BY <1>3, <2>5
      <4> QED BY <1>2, <4>2, <4>3
    <3> QED BY <3>1, <3>2
  <2> QED BY <2>3, <2>4, <2>5
<1>5. ASSUME MaxSkipStreak > 0 PROVE StreakEnds(k)' <=> StreakEnds(k)
  <2>1. k >= MaxSkipStreak => \A j \in (k - MaxSkipStreak)..(k - 1) : j \in Months /\ j # k BY <1>3
  <2> QED BY <1>2, <2>1 DEF StreakEnds, Overlapped
<1> QED BY <1>1, <1>2, <1>4, <1>5

\* cupPass writes what it decided.
LEMMA CupWriteKeeps ==
  ASSUME CupInv, NEW r \in CupReplicas, RecordWrite(r) \/ PassClaim(r) PROVE CupInv'
<1> DEFINE q == mpass[r]
<1>1. /\ mpass \in [CupReplicas -> CupPasses] /\ mrow \in [Months -> CupRows] /\ mnow \in Nat
      /\ mcup \in [Months -> [status : {"none", "published", "finalized", "cancelled"}, pool : CupMaps \cup {NoMap}]]
      /\ mmade \in [Months -> [n : Nat, lost : BOOLEAN]]
  BY CupAssumption DEF CupInv, CupTypeOK
<1>2. q \in CupPasses /\ q.k \in Months /\ q.k = Period(mnow) /\ q.decision \in Decisions /\ q.carry \in BOOLEAN
      /\ q.pool \in CupMaps \cup {NoMap}
  BY <1>1 DEF RecordWrite, PassClaim, CupInv, CupPasses
<1>9. PICK k \in Months : k = q.k /\ k = Period(mnow) BY <1>2
<1>3. mpass' = [mpass EXCEPT ![r] = NoPass] /\ UNCHANGED <<mnow, mother, mops>>
  BY DEF RecordWrite, PassClaim, Return
<1>4. NoPass \in CupPasses
  BY <1>2, <1>9, CupAssumption, FS_CardinalityType DEF NoPass, CupPasses, Decisions
<1>5. mpass' \in [CupReplicas -> CupPasses] /\ \A s \in CupReplicas : mpass'[s] = IF s = r THEN NoPass ELSE mpass[s]
  BY <1>1, <1>3, <1>4
<1>6. CASE UNCHANGED <<mrow, mcup, mmade>>
  <2>1. \A m : StreakEnds(m)' = StreakEnds(m) BY <1>6 DEF StreakEnds, Overlapped
  <2>2. SeriesNotStarved' = SeriesNotStarved BY <1>6 DEF SeriesNotStarved
  <2>3. CupTypeOK' BY <1>3, <1>5, <1>6 DEF CupInv, CupTypeOK
  <2> QED BY <1>3, <1>5, <1>6, <2>1, <2>2, <2>3 DEF CupInv, NoPass
<1>7. CASE /\ RecordWrite(r) /\ mrow[k].decision \notin Terminal
  <2> DEFINE row == [decision |-> q.decision, force |-> q.carry, edition |-> q.decision \in {"scheduled", "cancelled"}]
  <2>1. mrow' = [mrow EXCEPT ![k] = row] /\ UNCHANGED <<mcup, mmade>> /\ q.pc = "upsert" BY <1>7, <1>9 DEF RecordWrite
  <2>2. row \in CupRows BY <1>2 DEF CupRows
  <2>3. row.decision = "skipped_overlap" /\ MaxSkipStreak > 0 => StreakEnds(k) BY <1>9, <2>1 DEF CupInv
  <2> HIDE DEF row
  <2>4. /\ mrow' \in [Months -> CupRows]
        /\ \A j \in Months : mrow'[j] = IF j = k THEN row ELSE mrow[j]
        /\ MaxSkipStreak > 0 => SeriesNotStarved'
        /\ MaxSkipStreak > 0 => (StreakEnds(k)' <=> StreakEnds(k))
    BY <1>3, <1>9, <2>1, <2>2, <2>3, RowWritten
  <2>5. mmade[k].n >= 1 /\ ~mmade[k].lost => FALSE BY <1>2, <1>9, <1>7 DEF CupInv, Terminal
  <2>6. \A i \in Months :
          /\ mmade'[i].n >= 1 /\ ~mmade'[i].lost => mrow'[i].decision = "scheduled" /\ mmade'[i].n = 1
          /\ mcup'[i].status # "none" => mmade'[i].n >= 1
          /\ i > Period(mnow)' => mrow'[i].decision = "none"
    <3> TAKE i \in Months
    <3>1. CASE i = k
      <4>1. k \in Nat BY CupAssumption, FS_CardinalityType
      <4>2. ~(i > Period(mnow)') BY <1>9, <1>3, <3>1, <4>1
      <4>3. mcup[k].status # "none" => mmade[k].n >= 1 BY DEF CupInv
      <4> QED BY <1>1, <1>9, <2>1, <2>5, <3>1, <4>2, <4>3
    <3>2. CASE i # k BY <1>3, <2>1, <2>4, <3>2 DEF CupInv
    <3> QED BY <3>1, <3>2
  <2>7. \A s \in CupReplicas :
       /\ mpass'[s].pc # "idle" => mpass'[s].k = Period(mnow)'
       /\ mpass'[s].pc \in {"record", "upsert"} /\ mpass'[s].decision = "skipped_overlap" /\ MaxSkipStreak > 0
            => StreakEnds(mpass[s].k)'
    <3> TAKE s \in CupReplicas
    <3>1. CASE mpass'[s] = NoPass BY <3>1 DEF NoPass
    <3>2. CASE mpass'[s] = mpass[s] BY <1>2, <1>9, <1>3, <2>4, <3>2 DEF CupInv
    <3> QED BY <1>5, <3>1, <3>2
  <2>8. CupTypeOK' BY <1>3, <1>5, <2>1, <2>4 DEF CupInv, CupTypeOK
  <2> QED BY <1>3, <2>4, <2>6, <2>7, <2>8 DEF CupInv
<1>8. CASE /\ PassClaim(r) /\ Claimable(k)
           /\ mrow' = [mrow EXCEPT ![k] = [decision |-> "scheduled", force |-> q.carry, edition |-> TRUE]]
           /\ mcup' = [mcup EXCEPT ![k] = [status |-> "published", pool |-> q.pool]]
           /\ mmade' = [mmade EXCEPT ![k].n = @ + 1]
  <2> DEFINE row == [decision |-> "scheduled", force |-> q.carry, edition |-> TRUE]
  <2>2. row \in CupRows BY <1>2 DEF CupRows, Decisions, Terminal
  <2>3. row.decision = "scheduled" OBVIOUS
  <2>1. mrow' = [mrow EXCEPT ![k] = row] BY <1>8
  <2> HIDE DEF row
  <2>4. /\ mrow' \in [Months -> CupRows]
        /\ \A j \in Months : mrow'[j] = IF j = k THEN row ELSE mrow[j]
        /\ MaxSkipStreak > 0 => SeriesNotStarved'
        /\ MaxSkipStreak > 0 => (StreakEnds(k)' <=> StreakEnds(k))
    BY <1>3, <1>9, <2>1, <2>2, <2>3, RowWritten
  <2>5. mmade[k].n >= 1 /\ ~mmade[k].lost => FALSE BY <1>2, <1>9, <1>8 DEF CupInv, Claimable
  <2>6. /\ mmade' \in [Months -> [n : Nat, lost : BOOLEAN]]
        /\ mcup' \in [Months -> [status : {"none", "published", "finalized", "cancelled"}, pool : CupMaps \cup {NoMap}]]
        /\ \A j \in Months : j # k => mmade'[j] = mmade[j] /\ mcup'[j] = mcup[j]
        /\ mmade'[k].n = mmade[k].n + 1 /\ mmade'[k].lost = mmade[k].lost
    BY <1>1, <1>2, <1>9, <1>8
  <2>7. \A i \in Months :
          /\ mmade'[i].n >= 1 /\ ~mmade'[i].lost => mrow'[i].decision = "scheduled" /\ mmade'[i].n = 1
          /\ mcup'[i].status # "none" => mmade'[i].n >= 1
          /\ i > Period(mnow)' => mrow'[i].decision = "none"
    <3> TAKE i \in Months
    <3>1. CASE i = k
      <4>1. mmade[k].n \in Nat BY <1>1, <1>2, <1>9
      <4>2. k \in Nat BY <1>2, <1>9, CupAssumption, FS_CardinalityType
      <4>3. ~(i > Period(mnow)') BY <1>2, <1>9, <1>3, <3>1, <4>2
      <4> QED BY <1>2, <1>9, <2>3, <2>4, <2>5, <2>6, <3>1, <4>1, <4>3
    <3>2. CASE i # k BY <1>3, <2>4, <2>6, <3>2 DEF CupInv
    <3> QED BY <3>1, <3>2
  <2>8. \A s \in CupReplicas :
       /\ mpass'[s].pc # "idle" => mpass'[s].k = Period(mnow)'
       /\ mpass'[s].pc \in {"record", "upsert"} /\ mpass'[s].decision = "skipped_overlap" /\ MaxSkipStreak > 0
            => StreakEnds(mpass[s].k)'
    <3> TAKE s \in CupReplicas
    <3>1. CASE mpass'[s] = NoPass BY <3>1 DEF NoPass
    <3>2. CASE mpass'[s] = mpass[s] BY <1>2, <1>9, <1>3, <2>4, <3>2 DEF CupInv
    <3> QED BY <1>5, <3>1, <3>2
  <2>9. CupTypeOK' BY <1>3, <1>5, <2>4, <2>6 DEF CupInv, CupTypeOK
  <2> QED BY <1>3, <2>4, <2>7, <2>8, <2>9 DEF CupInv
<1> QED BY <1>6, <1>7, <1>8, <1>9 DEF RecordWrite, PassClaim

\* An operator acts on the running month's record and edition alone.
LEMMA OperatorKeeps ==
  ASSUME CupInv, NEW k \in Months, k = Period(mnow),
         \/ ForceMonthlyPeriod(k) \/ BookSlot(k) \/ SquatSlug(k)
         \/ CancelEdition(k) \/ DeleteEdition(k) \/ LoseRow(k)
  PROVE  CupInv'
<1>1. /\ mrow \in [Months -> CupRows] /\ mops \in 0..MaxOperator /\ MaxOperator \in Nat
      /\ mcup \in [Months -> [status : {"none", "published", "finalized", "cancelled"}, pool : CupMaps \cup {NoMap}]]
      /\ mother \in [Months -> [booked : BOOLEAN, squatter : BOOLEAN]]
      /\ mmade \in [Months -> [n : Nat, lost : BOOLEAN]]
  BY CupAssumption DEF CupInv, CupTypeOK
<1>2. k \in Nat BY CupAssumption, FS_CardinalityType
<1>3. mops' \in 0..MaxOperator /\ UNCHANGED <<mnow, mpass>>
  BY <1>1 DEF ForceMonthlyPeriod, BookSlot, SquatSlug, CancelEdition, DeleteEdition, LoseRow, Operator
<1>4. PICK row \in CupRows :
        /\ mrow' = [mrow EXCEPT ![k] = row]
        /\ row.decision = "skipped_overlap" => mrow[k].decision = "skipped_overlap"
        /\ row.decision = mrow[k].decision \/ mrow[k].decision \in Skips \/ mmade'[k].lost
  <2>1. CASE ForceMonthlyPeriod(k)
    <3>1. [mrow[k] EXCEPT !.decision = "forced", !.force = TRUE] \in CupRows
      <4>1. mrow[k] \in CupRows BY <1>1
      <4> QED BY <4>1 DEF CupRows, Decisions
    <3>2. mrow' = [mrow EXCEPT ![k].decision = "forced", ![k].force = TRUE] /\ mrow[k].decision \in Skips
      BY <2>1 DEF ForceMonthlyPeriod
    <3>3. mrow' = [mrow EXCEPT ![k] = [mrow[k] EXCEPT !.decision = "forced", !.force = TRUE]]
      BY <1>1, <3>2
    <3>4. [mrow[k] EXCEPT !.decision = "forced", !.force = TRUE].decision = "forced"
      <4>1. mrow[k] \in CupRows BY <1>1
      <4> QED BY <4>1 DEF CupRows
    <3> WITNESS [mrow[k] EXCEPT !.decision = "forced", !.force = TRUE] \in CupRows
    <3> QED BY <3>2, <3>3, <3>4
  <2>2. CASE BookSlot(k) \/ SquatSlug(k) \/ CancelEdition(k)
    <3>1. mrow[k] \in CupRows BY <1>1
    <3> WITNESS mrow[k] \in CupRows
    <3> QED BY <1>1, <2>2 DEF BookSlot, SquatSlug, CancelEdition
  <2>3. CASE DeleteEdition(k)
    <3>1. [mrow[k] EXCEPT !.edition = FALSE] \in CupRows
      <4>1. mrow[k] \in CupRows BY <1>1
      <4> QED BY <4>1 DEF CupRows
    <3> WITNESS [mrow[k] EXCEPT !.edition = FALSE] \in CupRows
    <3> QED BY <1>1, <2>3 DEF DeleteEdition, CupRows
  <2>4. CASE LoseRow(k)
    <3>1. NoRow \in CupRows BY DEF NoRow, CupRows, Decisions
    <3> WITNESS NoRow \in CupRows
    <3> QED BY <1>1, <2>4 DEF LoseRow, NoRow
  <2> QED BY <2>1, <2>2, <2>3, <2>4
<1>5. /\ mrow' \in [Months -> CupRows]
      /\ \A j \in Months : mrow'[j] = IF j = k THEN row ELSE mrow[j]
      /\ MaxSkipStreak > 0 => SeriesNotStarved'
      /\ MaxSkipStreak > 0 => (StreakEnds(k)' <=> StreakEnds(k))
  BY <1>3, <1>4, RowWritten
<1>6. /\ mcup' \in [Months -> [status : {"none", "published", "finalized", "cancelled"}, pool : CupMaps \cup {NoMap}]]
      /\ \A j \in Months : mcup'[j].status # "none" => mcup[j].status # "none"
  <2>1. CASE ForceMonthlyPeriod(k) BY <1>1, <2>1 DEF ForceMonthlyPeriod
  <2>2. CASE BookSlot(k) BY <1>1, <2>2 DEF BookSlot
  <2>3. CASE SquatSlug(k) BY <1>1, <2>3 DEF SquatSlug
  <2>4. CASE CancelEdition(k) BY <1>1, <2>4 DEF CancelEdition
  <2>5. CASE DeleteEdition(k) BY <1>1, <2>5 DEF DeleteEdition
  <2>6. CASE LoseRow(k) BY <1>1, <2>6 DEF LoseRow
  <2> QED BY <2>1, <2>2, <2>3, <2>4, <2>5, <2>6
<1>7. mother' \in [Months -> [booked : BOOLEAN, squatter : BOOLEAN]]
  <2>1. CASE ForceMonthlyPeriod(k) BY <1>1, <2>1 DEF ForceMonthlyPeriod
  <2>2. CASE BookSlot(k) BY <1>1, <2>2 DEF BookSlot
  <2>3. CASE SquatSlug(k) BY <1>1, <2>3 DEF SquatSlug
  <2>4. CASE CancelEdition(k) BY <1>1, <2>4 DEF CancelEdition
  <2>5. CASE DeleteEdition(k) BY <1>1, <2>5 DEF DeleteEdition
  <2>6. CASE LoseRow(k) BY <1>1, <2>6 DEF LoseRow
  <2> QED BY <2>1, <2>2, <2>3, <2>4, <2>5, <2>6
<1>8. /\ mmade' \in [Months -> [n : Nat, lost : BOOLEAN]]
      /\ \A j \in Months : mmade'[j].n = mmade[j].n /\ (mmade[j].lost => mmade'[j].lost)
  <2>1. CASE ForceMonthlyPeriod(k) BY <1>1, <2>1 DEF ForceMonthlyPeriod
  <2>2. CASE BookSlot(k) BY <1>1, <2>2 DEF BookSlot
  <2>3. CASE SquatSlug(k) BY <1>1, <2>3 DEF SquatSlug
  <2>4. CASE CancelEdition(k) BY <1>1, <2>4 DEF CancelEdition
  <2>5. CASE DeleteEdition(k) BY <1>1, <2>5 DEF DeleteEdition
  <2>6. CASE LoseRow(k)
    <3>1. mmade' = [mmade EXCEPT ![k].lost = TRUE] BY <2>6 DEF LoseRow
    <3>2. \A j \in Months : mmade'[j] = IF j = k THEN [mmade[k] EXCEPT !.lost = TRUE] ELSE mmade[j] BY <1>1, <3>1
    <3>3. mmade[k] \in [n : Nat, lost : BOOLEAN] BY <1>1
    <3>4. [mmade[k] EXCEPT !.lost = TRUE] \in [n : Nat, lost : BOOLEAN] BY <3>3
    <3>5. DOMAIN mmade' = Months /\ mmade' = [j \in Months |-> mmade'[j]] BY <1>1, <3>1
    <3>6. mmade' \in [Months -> [n : Nat, lost : BOOLEAN]] BY <1>1, <3>2, <3>4, <3>5
    <3>7. ASSUME NEW j \in Months PROVE mmade'[j].n = mmade[j].n /\ (mmade[j].lost => mmade'[j].lost)
      <4>1. CASE j = k BY <3>2, <4>1, <3>3
      <4>2. CASE j # k BY <3>2, <4>2
      <4> QED BY <4>1, <4>2
    <3> QED BY <3>6, <3>7
  <2> QED BY <2>1, <2>2, <2>3, <2>4, <2>5, <2>6
<1>9. \A i \in Months :
        /\ mmade'[i].n >= 1 /\ ~mmade'[i].lost => mrow'[i].decision = "scheduled" /\ mmade'[i].n = 1
        /\ mcup'[i].status # "none" => mmade'[i].n >= 1
        /\ i > Period(mnow)' => mrow'[i].decision = "none"
  <2> TAKE i \in Months
  <2>1. CASE i = k
    <3>1. ~(i > Period(mnow)') BY <1>2, <1>3, <2>1
    <3> QED BY <1>4, <1>5, <1>6, <1>8, <2>1, <3>1 DEF CupInv, Skips
  <2>2. CASE i # k BY <1>3, <1>5, <1>6, <1>8, <2>2 DEF CupInv
  <2> QED BY <2>1, <2>2
<1>10. \A s \in CupReplicas :
       /\ mpass'[s].pc # "idle" => mpass'[s].k = Period(mnow)'
       /\ mpass'[s].pc \in {"record", "upsert"} /\ mpass'[s].decision = "skipped_overlap" /\ MaxSkipStreak > 0
            => StreakEnds(mpass[s].k)'
  BY <1>3, <1>5 DEF CupInv
<1>11. CupTypeOK' BY <1>3, <1>5, <1>6, <1>7, <1>8 DEF CupInv, CupTypeOK
<1> QED BY <1>3, <1>5, <1>9, <1>10, <1>11 DEF CupInv

\* Time passes.
LEMMA TickKeeps == ASSUME CupInv, CupTick PROVE CupInv'
<1>1. /\ mnow \in Nat /\ mpass \in [CupReplicas -> CupPasses] /\ Cardinality(Months) \in Nat
      /\ mcup \in [Months -> [status : {"none", "published", "finalized", "cancelled"}, pool : CupMaps \cup {NoMap}]]
  BY CupAssumption, FS_CardinalityType DEF CupInv, CupTypeOK
<1>2. /\ mnow' = mnow + 1 /\ mnow' < 3 * Cardinality(Months)
      /\ mnow' % 3 = 0 => \A r \in CupReplicas : mpass[r] = NoPass
      /\ UNCHANGED <<mrow, mother, mpass, mops, mmade>>
  BY <1>1 DEF CupTick
<1>3. /\ mcup' \in [Months -> [status : {"none", "published", "finalized", "cancelled"}, pool : CupMaps \cup {NoMap}]]
      /\ \A k \in Months : mcup'[k].status # "none" => mcup[k].status # "none"
  <2>1. mcup' = [k \in Months |-> IF mcup[k].status = "published" /\ mnow' >= 3 * k + 2
                               THEN [mcup[k] EXCEPT !.status = "finalized"] ELSE mcup[k]]
    BY DEF CupTick
  <2> QED BY <1>1, <2>1
<1>4. /\ mnow' % 3 # 0 => Period(mnow)' = Period(mnow)
      /\ Period(mnow) \in Nat /\ Period(mnow)' \in Nat /\ Period(mnow)' >= Period(mnow)
  BY <1>1, <1>2, MonthsAre
<1>5. \A k \in Months : k \in Nat BY CupAssumption, FS_CardinalityType
<1>6. CupTypeOK' BY <1>1, <1>2, <1>3 DEF CupInv, CupTypeOK
<1>7. SeriesNotStarved' = SeriesNotStarved BY <1>2 DEF SeriesNotStarved
<1>8. \A k : StreakEnds(k)' = StreakEnds(k) BY <1>2 DEF StreakEnds, Overlapped
<1>9. \A r \in CupReplicas : mpass[r].pc # "idle" => Period(mnow)' = Period(mnow) BY <1>2, <1>4 DEF NoPass
<1>10. \A k \in Months :
        /\ mmade'[k].n >= 1 /\ ~mmade'[k].lost => mrow'[k].decision = "scheduled" /\ mmade'[k].n = 1
        /\ mcup'[k].status # "none" => mmade'[k].n >= 1
        /\ k > Period(mnow)' => mrow'[k].decision = "none"
  BY <1>2, <1>3, <1>4, <1>5 DEF CupInv
<1>11. \A r \in CupReplicas :
       /\ mpass'[r].pc # "idle" => mpass'[r].k = Period(mnow)'
       /\ mpass'[r].pc \in {"record", "upsert"} /\ mpass'[r].decision = "skipped_overlap" /\ MaxSkipStreak > 0
            => StreakEnds(mpass[r].k)'
  BY <1>2, <1>8, <1>9 DEF CupInv
<1> QED BY <1>2, <1>6, <1>7, <1>10, <1>11 DEF CupInv

\* Nothing of the cup moves.
LEMMA CupStutters == ASSUME CupInv, UNCHANGED cupVars PROVE CupInv'
<1>1. UNCHANGED <<mnow, mrow, mcup, mother, mpass, mops, mmade>> BY DEF cupVars
<1>2. CupTypeOK' BY <1>1 DEF CupInv, CupTypeOK
<1>3. SeriesNotStarved' = SeriesNotStarved BY <1>1 DEF SeriesNotStarved
<1>4. \A k : StreakEnds(k)' = StreakEnds(k) BY <1>1 DEF StreakEnds, Overlapped
<1> QED BY <1>1, <1>2, <1>3, <1>4 DEF CupInv

\* The inductive invariant of the cup.
LEMMA CupAlways == CupSpec => []CupInv
<1>1. ASSUME CupInv, CupNext PROVE CupInv'
  <2>1. mnow \in Nat /\ mnow < 3 * Cardinality(Months) BY <1>1, CupAssumption, FS_CardinalityType DEF CupInv, CupTypeOK
  <2>2. CASE CupPass BY <1>1, <2>2, ReadsKeep, DecideKeeps, CupWriteKeeps DEF CupPass
  <2>3. CASE CupOperator
    <3>1. Period(mnow) \in Months BY <2>1, MonthsAre
    <3> QED BY <1>1, <2>3, <3>1, OperatorKeeps DEF CupOperator
  <2>4. CASE CupTick BY <1>1, <2>4, TickKeeps
  <2> QED BY <1>1, <2>2, <2>3, <2>4 DEF CupNext
<1> QED BY <1>1, CupAtFirst, CupStutters, PTL DEF CupSpec

\* The record of a decided month is reopened by a force or a loss alone.
LEMMA DecidedStays == CupSpec => TerminalStays
<1> DEFINE Act == \A k \in Months : mrow[k].decision \in Terminal /\ mrow'[k].decision # mrow[k].decision =>
       \/ mrow[k].decision \in Skips /\ mrow'[k] = [mrow[k] EXCEPT !.decision = "forced", !.force = TRUE]
       \/ mrow'[k] = NoRow
<1>1. ASSUME CupInv, CupNext PROVE Act
  <2>1. mrow \in [Months -> CupRows] BY <1>1 DEF CupInv, CupTypeOK
  <2>2. CASE UNCHANGED mrow BY <2>2
  <2>3. ASSUME NEW r \in CupReplicas, RecordWrite(r) PROVE Act BY <2>1, <2>3 DEF RecordWrite
  <2>4. ASSUME NEW r \in CupReplicas, PassClaim(r) PROVE Act
    BY <2>1, <2>4 DEF PassClaim, Claimable, Terminal
  <2>5. ASSUME NEW k \in Months, ForceMonthlyPeriod(k) PROVE Act BY <2>1, <2>5 DEF ForceMonthlyPeriod
  <2>6. ASSUME NEW k \in Months, DeleteEdition(k) PROVE Act BY <2>1, <2>6 DEF DeleteEdition, CupRows
  <2>7. ASSUME NEW k \in Months, LoseRow(k) PROVE Act BY <2>1, <2>7 DEF LoseRow
  <2>8. mnow \in Nat /\ mnow < 3 * Cardinality(Months)
    BY <1>1, CupAssumption, FS_CardinalityType DEF CupInv, CupTypeOK
  <2>9. Period(mnow) \in Months BY <2>8, MonthsAre
  <2> HIDE DEF Act, Period
  <2>10. CASE CupPass
    BY <2>2, <2>3, <2>4, <2>10 DEF CupPass, PassStart, PassHolder, PassBlockers, PassDecide, RecordRead, PassFails, ReadOnly
  <2>11. CASE CupOperator
    BY <2>2, <2>5, <2>6, <2>7, <2>9, <2>11 DEF CupOperator, BookSlot, SquatSlug, CancelEdition
  <2>12. CASE CupTick BY <2>2, <2>12 DEF CupTick
  <2> QED BY <1>1, <2>10, <2>11, <2>12 DEF CupNext
<1>2. ASSUME CupInv, [CupNext]_cupVars PROVE [Act]_cupVars BY <1>1, <1>2
<1> QED BY <1>2, CupAlways, PTL DEF CupSpec, TerminalStays

-----------------------------------------------------------------------------
(* The parts together: whichever part a behaviour is about, it is one of   *)
(* each part's own, the others at rest.                                    *)

\* A behaviour of the site's results is one of each part.
LEMMA ResultsHaveParts == ResultsSpec => TourSpec /\ CupSpec /\ ReplaySpec
<1>1. ResultsInit => TourInit /\ CupInit /\ ReplayInit BY DEF ResultsInit
<1>2. ASSUME [ResultsNext]_resultsVars
      PROVE  [TourNext]_tourVars /\ [CupNext]_cupVars /\ [ReplayNext]_replayVars
  <2>1. CASE UNCHANGED resultsVars BY <2>1 DEF resultsVars
  <2>2. CASE which = "entry" /\ EntryNext /\ UNCHANGED <<cupVars, replayVars, modVars>>
    BY <2>2 DEF EntryNext, TourNext
  <2>3. CASE which = "standing" /\ StandingNext /\ UNCHANGED <<cupVars, replayVars, modVars>>
    BY <2>3 DEF StandingNext
  <2>4. CASE which = "cup" /\ CupNext /\ UNCHANGED <<tourVars, replayVars, modVars>> BY <2>4
  <2>5. CASE which = "ghosts" /\ GhostNext /\ UNCHANGED <<tourVars, cupVars, peopleVars, modVars>>
    BY <2>5 DEF ReplayNext
  <2>6. CASE PeopleNext /\ UNCHANGED <<tourVars, cupVars, ghostVars, modVars>>
    BY <2>6 DEF ReplayNext
  <2>7. CASE which = "maps" /\ MapNext /\ UNCHANGED <<tourVars, cupVars, replayVars, censVars>> BY <2>7
  <2> HIDE DEF TourNext, CupNext
  <2> QED BY <1>2, <2>1, <2>2, <2>3, <2>4, <2>5, <2>6, <2>7 DEF ResultsNext, DuelsNext, StoresNext
<1> QED BY <1>1, <1>2, PTL DEF ResultsSpec, TourSpec, CupSpec, ReplaySpec

\* One entry per player and tournament however many servers and pages submit it
\* at once; one cup edition a month whichever replicas decide, none blocked by
\* its own booking, and never more skips in a row than the limit, when there is
\* one (createEntrant, enterTournament, cupPass).  For any number of servers,
\* replicas, players, tournaments and months, with none of the run's restrictions
\* on the steps (TourSpec, CupSpec), and so with them.
THEOREM ContestsAreSound ==
  ASSUME MaxSkipStreak > 0
  PROVE  /\ TourSpec /\ CupSpec => []ContestSound
         /\ ResultsSpec => []ContestSound
<1>1. TourInv => TourTypeOK /\ OneEntry BY DEF TourInv
<1>2. CupInv => CupTypeOK /\ OneEditionPerMonth /\ SeriesNotStarved /\ NeverSelfBlocked
  <2>1. ASSUME CupInv, NEW k \in Months PROVE mmade[k].n > 1 => mmade[k].lost
    <3>1. mmade[k] \in [n : Nat, lost : BOOLEAN] BY <2>1 DEF CupInv, CupTypeOK
    <3> QED BY <2>1, <3>1 DEF CupInv
  <2>2. ASSUME CupInv, NEW k \in Months, mrow[k].decision = "blocked",
               mcup[k].status \in {"published", "finalized"}
        PROVE  mmade[k].lost
    BY <2>2 DEF CupInv
  <2> QED BY <2>1, <2>2 DEF CupInv, OneEditionPerMonth, NeverSelfBlocked
<1> QED BY <1>1, <1>2, TourAlways, CupAlways, ResultsHaveParts, PTL DEF ContestSound

\* What was settled stays settled: final standings, the entries of an edition
\* that is not deleted, decided months short of a force or a lost row, replays
\* that only get faster; and only a run in flight at the freeze is left out of it.
THEOREM ResultsAreSettled ==
  /\ TourSpec /\ CupSpec /\ ReplaySpec => ResultsStay
  /\ ResultsSpec => ResultsStay
BY SettledStays, DecidedStays, RowsOnlyGetFaster, ResultsHaveParts DEF ResultsStay

=============================================================================
