---- MODULE Replays ----
(***************************************************************************)
(* What a run leaves beside the race table: ghost trajectories and demos   *)
(* (one per player and map), saved starts, random-map runs and duels, all  *)
(* stored under the representative of a player's nicks (web/db.js).        *)
(*                                                                         *)
(* The ghosts of one map and one player: the row, with the gzipped         *)
(* trajectory as its payload, and the file on the shared disk that is      *)
(* written after the row is committed and read before it.  A trajectory is *)
(* its run time; smaller is faster.                                        *)
(*                                                                         *)
(* People: nicks with the same key are one person, and the key's row in    *)
(* `canonical` names its representative.  Transactions that resolve nicks  *)
(* (_resolvePlayer) overlap with each other and with rebuildCanonical; a   *)
(* player row and a canonical row they write are theirs until they end.    *)
(***************************************************************************)
EXTENDS Integers, FiniteSets, FiniteSetsExt, Functions

CONSTANTS Uploaders,    \* concurrent ghost uploads
          RunTimes,     \* the run times
          MaxVolumeResets, MaxUploads, MaxGhostCrashes,   \* bounds
          Nicks, NickKey,   \* the players' rows and each nick's canonKey
          Resolvers,    \* concurrent transactions that resolve nicks
          MaxRebuilds   \* bound: rebuildCanonical runs

NoNick == ""   \* no such row, or NULL

ASSUME ReplayAssumption ==
  /\ RunTimes \subseteq Nat \ {0}
  /\ MaxVolumeResets \in Nat /\ MaxUploads \in Nat /\ MaxGhostCrashes \in Nat /\ MaxRebuilds \in Nat
  /\ NickKey \in [Nicks -> STRING] /\ NoNick \notin Nicks
  /\ "none" \notin Uploaders \cup Resolvers /\ "rebuild" \notin Resolvers

VARIABLES grow,    \* the player_ghost row: [time, pay], time 0 when there is none, pay 0 for NULL
          demo,    \* the player_demo row's time, 0 when there is none
          gfile,   \* the ghost file: 0 when missing, Torn while being written
          maprow,  \* who holds the map and version rows' locks
          ups,     \* per uploader: pc and its run's time
          rdr,     \* a reader that found no file: the payload it selected
          syn,     \* syncGhostPayloads at its one row
          synced,  \* a boot synced the row before the volume was ever lost
          gcount   \* [ups, resets, crashes] so far

ghostVars == <<grow, demo, gfile, maprow, ups, rdr, syn, synced, gcount>>

VARIABLES rep,      \* canonical: each key's representative, NoNick without a row
          canon,    \* player.canonical_id, NoNick while there is no player row
          rowlock,  \* who holds each player row
          crow,     \* who holds each canonical row
          tx,       \* per resolver: its transaction
          duels,    \* the duel rows: the two ids
          rruns,    \* random_run on one seed: player ids with a row
          starts,   \* player_saved_start on one map and mode: player ids with a row
          clearing, \* a /clearstart under way: the id it looked up
          rebuild,  \* the rebuild: pc, the players it listed, the rows left, its choice
          rebuilds,
          seized    \* history: the keys whose representative was seized or left behind

peopleVars == <<rep, canon, rowlock, crow, tx, duels, rruns, starts, clearing, rebuild, rebuilds, seized>>
replayVars == <<ghostVars, peopleVars>>

-----------------------------------------------------------------------------
(* Ghosts.                                                                 *)

Torn == -1
Resting == [pc |-> "idle", t |-> 0]

\* A ghost captured before the payload column, or none.
GhostInit ==
  /\ \/ grow = [time |-> 0, pay |-> 0] /\ gfile = 0
     \/ \E t \in RunTimes : grow = [time |-> t, pay |-> 0] /\ gfile = t
  /\ demo = 0 /\ maprow = "none" /\ ups = [u \in Uploaders |-> Resting]
  /\ rdr = 0 /\ syn = [pc |-> "idle", pay |-> FALSE] /\ synced = FALSE
  /\ gcount = [ups |-> 0, resets |-> 0, crashes |-> 0]

Upload(u) ==
  /\ ups[u].pc = "idle" /\ gcount.ups < MaxUploads
  /\ \E t \in RunTimes : ups' = [ups EXCEPT ![u] = [pc |-> "gzip", t |-> t]]
  /\ gcount' = [gcount EXCEPT !.ups = @ + 1]
  /\ UNCHANGED <<grow, demo, gfile, maprow, rdr, syn, synced>>

\* _withReplayIds: the upserts of the version and the map lock their rows until the
\* transaction ends, so two transactions on one map follow each other.
WithReplayIds(u) == maprow = "none" /\ maprow' = u

\* upsertPlayerGhost's transaction begins, compressed beforehand.
BeginGhost(u) ==
  /\ ups[u].pc = "gzip"
  /\ WithReplayIds(u)
  /\ ups' = [ups EXCEPT ![u].pc = "look"]
  /\ UNCHANGED <<grow, demo, gfile, rdr, syn, synced, gcount>>

\* SELECT ... FOR UPDATE: a stored time as fast ends the upload.  (An absent row locks
\* nothing; the map row's lock is what makes look and take one.)
LookGhost(u) ==
  /\ ups[u].pc = "look"
  /\ IF grow.time # 0 /\ grow.time <= ups[u].t
     THEN ups' = [ups EXCEPT ![u] = Resting] /\ maprow' = "none"
     ELSE ups' = [ups EXCEPT ![u].pc = "take"] /\ UNCHANGED maprow
  /\ UNCHANGED <<grow, demo, gfile, rdr, syn, synced, gcount>>

\* The upsert and the commit.
TakeGhost(u) ==
  /\ ups[u].pc = "take"
  /\ grow' = [time |-> ups[u].t, pay |-> ups[u].t]
  /\ maprow' = "none"
  /\ ups' = [ups EXCEPT ![u].pc = "file"]
  /\ UNCHANGED <<demo, gfile, rdr, syn, synced, gcount>>

\* After the commit, under no lock: writeFile truncates the file, then writes it.
OpenGhostFile(u) ==
  /\ ups[u].pc = "file"
  /\ gfile' = Torn
  /\ ups' = [ups EXCEPT ![u].pc = "bytes"]
  /\ UNCHANGED <<grow, demo, maprow, rdr, syn, synced, gcount>>

WriteGhostFile(u) ==
  /\ ups[u].pc = "bytes"
  /\ gfile' = ups[u].t
  /\ ups' = [ups EXCEPT ![u] = Resting]
  /\ UNCHANGED <<grow, demo, maprow, rdr, syn, synced, gcount>>

\* upsertPlayerDemo: one guarded upsert in such a transaction.
UpsertPlayerDemo ==
  /\ maprow = "none"
  /\ \E t \in RunTimes : (demo = 0 \/ t <= demo) /\ demo' = t
  /\ UNCHANGED <<grow, gfile, maprow, ups, rdr, syn, synced, gcount>>

\* _readGhostBytes finds no file and selects the payload, then restores the file from it.
ReadGhostPayload ==
  /\ rdr = 0 /\ gfile = 0 /\ grow.pay # 0
  /\ rdr' = grow.pay
  /\ UNCHANGED <<grow, demo, gfile, maprow, ups, syn, synced, gcount>>

RestoreGhostFile ==
  /\ rdr # 0 /\ gfile' = rdr /\ rdr' = 0
  /\ UNCHANGED <<grow, demo, maprow, ups, syn, synced, gcount>>

\* syncGhostPayloads at boot: it selects the rows, then takes each by its file.
SyncRows ==
  /\ syn.pc = "idle" /\ grow.time # 0
  /\ syn' = [pc |-> "row", pay |-> grow.pay # 0]
  /\ UNCHANGED <<grow, demo, gfile, maprow, ups, rdr, synced, gcount>>

\* The payload is filled from the file only while it is still NULL.
Backfill == grow' = [grow EXCEPT !.pay = IF @ = 0 THEN gfile ELSE @]

SyncGhostPayloads ==
  /\ syn.pc = "row"
  /\ IF ~syn.pay /\ gfile # 0 THEN Backfill /\ UNCHANGED gfile
     ELSE /\ UNCHANGED grow
          /\ gfile' = IF syn.pay /\ gfile = 0 THEN grow.pay ELSE gfile
  /\ syn' = [pc |-> "idle", pay |-> FALSE] /\ synced' = (synced \/ gcount.resets = 0)
  /\ UNCHANGED <<demo, maprow, ups, rdr, gcount>>

\* The volume loses its files.
VolumeReset ==
  /\ gcount.resets < MaxVolumeResets
  /\ gfile' = 0 /\ gcount' = [gcount EXCEPT !.resets = @ + 1]
  /\ UNCHANGED <<grow, demo, maprow, ups, rdr, syn, synced>>

\* An upload's process dies: the transaction is rolled back, a half-written file stays.
GhostCrash(u) ==
  /\ ups[u].pc # "idle" /\ gcount.crashes < MaxGhostCrashes
  /\ ups' = [ups EXCEPT ![u] = Resting]
  /\ maprow' = IF maprow = u THEN "none" ELSE maprow
  /\ gcount' = [gcount EXCEPT !.crashes = @ + 1]
  /\ UNCHANGED <<grow, demo, gfile, rdr, syn, synced>>

GhostNext ==
  \/ \E u \in Uploaders : \/ Upload(u) \/ BeginGhost(u) \/ LookGhost(u) \/ TakeGhost(u)
                          \/ OpenGhostFile(u) \/ WriteGhostFile(u) \/ GhostCrash(u)
  \/ UpsertPlayerDemo \/ ReadGhostPayload \/ RestoreGhostFile
  \/ SyncRows \/ SyncGhostPayloads \/ VolumeReset

-----------------------------------------------------------------------------
(* People.                                                                 *)

Keys == Range(NickKey)
NicksOf(k) == {n \in Nicks : NickKey[n] = k}
NoTx == [kind |-> "none", nicks |-> {}, ids |-> [n \in Nicks |-> NoNick], firsts |-> {}, blank |-> {}]
NoRebuild == [pc |-> "idle", listed |-> {}, keys |-> {}, left |-> {}, new |-> [k \in Keys |-> NoNick]]

\* A key without a row has no players; of the others the representative is its own, and a
\* nick is new, joined, or its own still.
PeopleInit ==
  /\ rep \in {f \in [Keys -> Nicks \cup {NoNick}] : \A k \in Keys : f[k] \in NicksOf(k) \cup {NoNick}}
  /\ canon \in {f \in [Nicks -> Nicks \cup {NoNick}] : \A n \in Nicks :
                  LET r == rep[NickKey[n]] IN
                  f[n] \in IF r = NoNick THEN {NoNick} ELSE IF r = n THEN {n} ELSE {NoNick, n, r}}
  /\ rowlock = [n \in Nicks |-> "none"] /\ crow = [k \in Keys |-> "none"]
  /\ tx = [d \in Resolvers |-> NoTx]
  /\ duels = {} /\ rruns = {} /\ starts = {} /\ clearing = NoNick
  /\ rebuild = NoRebuild /\ rebuilds = 0 /\ seized = {}

Released(d) == [n \in Nicks |-> IF rowlock[n] = d THEN "none" ELSE rowlock[n]]
KeysReleased(d) == [k \in Keys |-> IF crow[k] = d THEN "none" ELSE crow[k]]

\* The representative of a key as d sees it: the row it wrote itself, or the committed one.
FirstOr(firsts, k, r) ==
  LET own == {n \in firsts : NickKey[n] = k} IN IF own = {} THEN r ELSE CHOOSE n \in own : TRUE
View(d, k) == FirstOr(tx[d].firsts, k, rep[k])

\* A transaction begins that resolves nicks, for one of those that store under the id:
\* recordDuel (two different nicks; bound: one duel), recordRandomRun and
\* upsertPlayerSavedStart; "race" stands for those that keep nothing here (an ingest).
Begin(d) ==
  /\ tx[d].kind = "none"
  /\ \E who \in SUBSET Nicks, kind \in {"duel", "run", "start", "race"} :
       /\ Cardinality(who) = IF kind = "duel" THEN 2 ELSE 1
       /\ kind = "duel" => duels = {}
       /\ tx' = [tx EXCEPT ![d] = [NoTx EXCEPT !.kind = kind, !.nicks = who]]
  /\ UNCHANGED <<rep, canon, rowlock, crow, duels, rruns, starts, clearing, rebuild, rebuilds, seized>>

Unresolved(d) == {n \in tx[d].nicks : tx[d].ids[n] = NoNick}

MutCanonOf(d, n) ==   \* mutant: the id is read before the nick joins
  IF canon[n] # NoNick THEN canon[n] ELSE View(d, NickKey[n])

\* canonical_id as read back once the nick has joined the representative of now (a nick
\* that is the representative is left alone).
CanonOf(d, n) ==
  LET r == View(d, NickKey[n]) IN IF r = n /\ n \notin tx[d].firsts THEN canon[n] ELSE r

\* _resolvePlayer: the upsert takes the player row; then the key's representative is
\* looked up, unlocked, and the nick joins it.  Without one the nick is to be the first.
ResolvePlayer(d) ==
  /\ tx[d].blank = {}
  /\ \E n \in Unresolved(d) :
       /\ rowlock[n] \in {"none", d}
       /\ rowlock' = [rowlock EXCEPT ![n] = d]
       /\ tx' = [tx EXCEPT ![d] = IF View(d, NickKey[n]) = NoNick THEN [@ EXCEPT !.blank = {n}]
                                  ELSE [@ EXCEPT !.ids[n] = CanonOf(d, n)]]
  /\ UNCHANGED <<rep, canon, crow, duels, rruns, starts, clearing, rebuild, rebuilds, seized>>

\* First of its kind: it takes the key's row, after whoever writes it, and what is there by
\* then is overwritten (ON CONFLICT DO UPDATE).
InsertFirst(d) ==
  /\ \E n \in tx[d].blank :
       /\ crow[NickKey[n]] = "none"
       /\ crow' = [crow EXCEPT ![NickKey[n]] = d]
       /\ tx' = [tx EXCEPT ![d] = [tx[d] EXCEPT !.blank = {}, !.firsts = tx[d].firsts \cup {n}, !.ids[n] = n]]
  /\ UNCHANGED <<rep, canon, rowlock, duels, rruns, starts, clearing, rebuild, rebuilds, seized>>

Ended(d) == tx' = [tx EXCEPT ![d] = NoTx] /\ rowlock' = Released(d) /\ crow' = KeysReleased(d)
Ids(d) == {tx[d].ids[n] : n \in tx[d].nicks}

\* The row under the ids, and the commit.  A duel of two nicks of one person is rolled back.
Commit(d) ==
  /\ tx[d].kind # "none" /\ tx[d].blank = {} /\ Unresolved(d) = {}
  /\ tx[d].kind = "duel" => Cardinality(Ids(d)) = 2
  /\ rep' = [k \in Keys |-> View(d, k)]
  /\ canon' = [n \in Nicks |-> IF n \in tx[d].nicks THEN tx[d].ids[n] ELSE canon[n]]
  /\ seized' = seized \cup {k \in Keys : rep[k] \notin {NoNick, View(d, k)}}
  /\ duels' = IF tx[d].kind = "duel" THEN duels \cup {Ids(d)} ELSE duels
  /\ rruns' = IF tx[d].kind = "run" THEN rruns \cup Ids(d) ELSE rruns
  /\ starts' = IF tx[d].kind = "start" THEN starts \cup Ids(d) ELSE starts
  /\ Ended(d)
  /\ UNCHANGED <<clearing, rebuild, rebuilds>>

\* The transaction is rolled back: one person's duel, a deadlock, a lost connection.
Rollback(d) ==
  /\ tx[d].kind # "none" /\ Ended(d)
  /\ UNCHANGED <<rep, canon, duels, rruns, starts, clearing, rebuild, rebuilds, seized>>

\* deletePlayerSavedStart: it looks the representative up and creates nothing, then
\* deletes under that id (bound: one at a time).
FindStart(n) ==
  /\ clearing = NoNick /\ clearing' = rep[NickKey[n]]
  /\ UNCHANGED <<rep, canon, rowlock, crow, tx, duels, rruns, starts, rebuild, rebuilds, seized>>

DeleteSavedStart ==
  /\ clearing # NoNick /\ clearing' = NoNick /\ starts' = starts \ {clearing}
  /\ UNCHANGED <<rep, canon, rowlock, crow, tx, duels, rruns, rebuild, rebuilds, seized>>

\* rebuildCanonical: the players of now, and for each key one of them (the one with the
\* most recent race) ...
Listed == {n \in Nicks : canon[n] # NoNick}
RebuildBegins ==
  /\ rebuild.pc = "idle" /\ rebuilds < MaxRebuilds
  /\ \E f \in [Keys -> Nicks \cup {NoNick}] :
       /\ \A k \in Keys : f[k] \in IF Listed \cap NicksOf(k) = {} THEN {NoNick} ELSE Listed \cap NicksOf(k)
       /\ rebuild' = [NoRebuild EXCEPT !.pc = "listed", !.listed = Listed, !.new = f]
  /\ rebuilds' = rebuilds + 1
  /\ UNCHANGED <<rep, canon, rowlock, crow, tx, duels, rruns, starts, clearing, seized>>

\* ... then, in one transaction, DELETE FROM canonical, of the rows of now ...
RebuildDelete ==
  /\ rebuild.pc = "listed"
  /\ rebuild' = [rebuild EXCEPT !.pc = "rows", !.keys = {k \in Keys : rep[k] # NoNick}, !.left = rebuild.listed]
  /\ UNCHANGED <<rep, canon, rowlock, crow, tx, duels, rruns, starts, clearing, rebuilds, seized>>

\* ... which takes them one by one, and after them the players' rows.
RebuildTakes ==
  /\ rebuild.pc = "rows"
  /\ \/ \E k \in rebuild.keys :
          /\ crow[k] = "none" /\ crow' = [crow EXCEPT ![k] = "rebuild"]
          /\ rebuild' = [rebuild EXCEPT !.keys = @ \ {k}]
          /\ UNCHANGED rowlock
     \/ \E n \in rebuild.left :
          /\ rebuild.keys = {}
          /\ rowlock[n] = "none" /\ rowlock' = [rowlock EXCEPT ![n] = "rebuild"]
          /\ rebuild' = [rebuild EXCEPT !.left = @ \ {n}]
          /\ UNCHANGED crow
  /\ UNCHANGED <<rep, canon, tx, duels, rruns, starts, clearing, rebuilds, seized>>

\* The keys of players that were not listed: those inserted since, and those about to be.
Late == {NickKey[n] : n \in {m \in Nicks \ rebuild.listed : canon[m] # NoNick \/ rowlock[m] \in Resolvers}}

\* The new rows (ON CONFLICT DO UPDATE again) and the commit.
RebuildCanonical ==
  /\ rebuild.pc = "rows" /\ rebuild.keys = {} /\ rebuild.left = {}
  /\ \A k \in Keys : rebuild.new[k] # NoNick => crow[k] \in {"none", "rebuild"}
  /\ rep' = [k \in Keys |-> IF rebuild.new[k] = NoNick /\ crow[k] # "rebuild" THEN rep[k] ELSE rebuild.new[k]]
  /\ canon' = [n \in Nicks |-> IF n \in rebuild.listed THEN rebuild.new[NickKey[n]] ELSE canon[n]]
  /\ seized' = seized \cup Late
  /\ rebuild' = NoRebuild /\ rowlock' = Released("rebuild") /\ crow' = KeysReleased("rebuild")
  /\ UNCHANGED <<tx, duels, rruns, starts, clearing, rebuilds>>

RebuildAborts ==
  /\ rebuild.pc # "idle" /\ rebuild' = NoRebuild
  /\ rowlock' = Released("rebuild") /\ crow' = KeysReleased("rebuild")
  /\ UNCHANGED <<rep, canon, tx, duels, rruns, starts, clearing, rebuilds, seized>>

PeopleNext ==
  \/ \E d \in Resolvers : Begin(d) \/ ResolvePlayer(d) \/ InsertFirst(d) \/ Commit(d) \/ Rollback(d)
  \/ \E n \in Nicks : FindStart(n)
  \/ DeleteSavedStart
  \/ RebuildBegins \/ RebuildDelete \/ RebuildTakes \/ RebuildCanonical \/ RebuildAborts

ReplayInit == GhostInit /\ PeopleInit
ReplayNext == (GhostNext /\ UNCHANGED peopleVars) \/ (PeopleNext /\ UNCHANGED ghostVars)
ReplaySpec == ReplayInit /\ [][ReplayNext]_replayVars

-----------------------------------------------------------------------------
(* Properties.                                                             *)

\* A ghost file is never faster than the committed row ("a rollback can no longer leave a
\* file newer than the DB"), and a stored payload is the row's own trajectory.
FileBehindRow ==
  /\ gfile > 0 => grow.time \in 1..gfile
  /\ grow.pay \in {0, grow.time}

\* Once a boot has synced, a later loss of the volume loses no ghost: the row has its payload.
GhostDurable == synced => grow.pay # 0

\* A duel row never puts a person against themselves, whatever a rebuild does to the
\* representatives between the two resolutions (recordDuel's one transaction) - outside
\* the keys whose representative two transactions on the first of a key taken from one
\* another, or whose new players a rebuild overlooked.
DuelTwoPeople ==
  \A ids \in duels : \A x, y \in ids : x # y => NickKey[x] # NickKey[y] \/ NickKey[x] \in seized

\* Until a rebuild moves them, a person's nicks share one random run and one saved start,
\* under the representative - where none seized another's key.
OneRowPerPerson ==
  rebuilds = 0 => \A k \in Keys \ seized :
    Cardinality(rruns \cap NicksOf(k)) <= 1 /\ Cardinality(starts \cap NicksOf(k)) <= 1

\* What the stores beside the race table promise.
ReplaySound == FileBehindRow /\ GhostDurable /\ DuelTwoPeople /\ OneRowPerPerson

\* ... and why.  The map row's lock makes look and take one step; what is about to be
\* written to the file was in the row; and a row without a payload is as it was found.
GhostInv ==
  /\ grow \in [time : Nat, pay : Int] /\ demo \in Nat /\ gfile \in Int /\ rdr \in Nat
  /\ syn \in [pc : {"idle", "row"}, pay : BOOLEAN] /\ gcount.resets \in Nat
  /\ ups \in [Uploaders -> [pc : {"idle", "gzip", "look", "take", "file", "bytes"}, t : Nat]]
  /\ \A u \in Uploaders :
       /\ ups[u].pc # "idle" => ups[u].t > 0
       /\ ups[u].pc \in {"look", "take"} => maprow = u
       /\ ups[u].pc = "take" => grow.time = 0 \/ ups[u].t < grow.time
       /\ ups[u].pc \in {"file", "bytes"} => grow.time \in 1..ups[u].t
  /\ rdr # 0 => grow.time \in 1..rdr
  /\ syn.pc = "row" => grow.time # 0 /\ (syn.pay => grow.pay # 0)
  /\ grow.pay = 0 => /\ gfile \in {0, grow.time} /\ rdr = 0
                     /\ gcount.resets = 0 => gfile = grow.time
                     /\ \A u \in Uploaders : ups[u].pc \notin {"file", "bytes"}
  /\ FileBehindRow /\ GhostDurable

\* A rebuild moves a representative only with the rows of all the players it listed in its
\* hands; what a transaction resolved is the representative it sees, and a representative
\* is its own.
TxType ==
  [kind : {"none", "duel", "run", "start", "race"}, nicks : SUBSET Nicks, ids : [Nicks -> Nicks \cup {NoNick}],
   firsts : SUBSET Nicks, blank : SUBSET Nicks]
RebuildType ==
  [pc : {"idle", "listed", "rows"}, listed : SUBSET Nicks, keys : SUBSET Keys, left : SUBSET Nicks,
   new : [Keys -> Nicks \cup {NoNick}]]
OfKey(k) == NicksOf(k) \cup {NoNick}
PeopleTypeOK ==
  /\ rep \in [Keys -> Nicks \cup {NoNick}] /\ \A k \in Keys : rep[k] \in OfKey(k)
  /\ canon \in [Nicks -> Nicks \cup {NoNick}] /\ \A n \in Nicks : canon[n] \in OfKey(NickKey[n])
  /\ rowlock \in [Nicks -> Resolvers \cup {"none", "rebuild"}] /\ crow \in [Keys -> Resolvers \cup {"none", "rebuild"}]
  /\ tx \in [Resolvers -> TxType]
  /\ rruns \subseteq Nicks /\ starts \subseteq Nicks /\ duels \subseteq SUBSET Nicks /\ clearing \in Nicks \cup {NoNick}
  /\ rebuild \in RebuildType /\ \A k \in Keys : rebuild.new[k] \in OfKey(k)
  /\ rebuilds \in Nat /\ seized \subseteq Keys
TxInv(d) ==
  /\ \A n \in tx[d].blank \cup tx[d].firsts : n \in tx[d].nicks /\ rowlock[n] = d
  /\ \A n \in tx[d].firsts : tx[d].ids[n] = n
  /\ \A n \in Nicks : tx[d].ids[n] # NoNick =>
       /\ n \in tx[d].nicks /\ rowlock[n] = d /\ tx[d].ids[n] \in NicksOf(NickKey[n])
       /\ View(d, NickKey[n]) = n => tx[d].ids[n] = n
       /\ NickKey[n] \notin seized =>
            tx[d].ids[n] = View(d, NickKey[n]) /\ \A m \in tx[d].blank : NickKey[m] # NickKey[n]
RebuildInv ==
  /\ rebuilds = 0 => rebuild.pc = "idle"
  /\ rebuild.pc = "rows" => \A n \in rebuild.listed \ rebuild.left : rowlock[n] = "rebuild"
  /\ \A k \in Keys : rebuild.new[k] \in rebuild.listed \cup {NoNick}
  /\ \A n \in rebuild.listed : rebuild.new[NickKey[n]] # NoNick
PeopleInv ==
  /\ PeopleTypeOK /\ RebuildInv /\ \A d \in Resolvers : TxInv(d)
  /\ \A k \in Keys : rep[k] # NoNick => canon[rep[k]] = rep[k]
  /\ rebuilds = 0 => \A k \in Keys \ seized : (rruns \cup starts) \cap NicksOf(k) \subseteq {rep[k]}
  /\ DuelTwoPeople

\* The stored ghost and demo only ever get faster, whatever uploads overlap.
RowsOnlyFaster ==
  [][(grow.time # 0 => grow'.time \in 1..grow.time) /\ (demo # 0 => demo' \in 1..demo)]_replayVars

\* "a concurrent slower upload never overwrites a faster file" (upsertPlayerGhost): with
\* nothing in progress and nothing crashed, a file is the row's trajectory.
FileIsRow ==
  /\ \A u \in Uploaders : ups[u].pc = "idle"
  /\ rdr = 0 /\ syn.pc = "idle" /\ gcount.crashes = 0
  => gfile \in {0, grow.time}
====
