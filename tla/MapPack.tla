---- MODULE MapPack ----
(***************************************************************************)
(* The map pack (web/mappack.js): every .pk3 of the mirror as one zip      *)
(* whose bytes are computed from an index of the packs.  Each web replica  *)
(* refreshes its own layout; both share the persisted index and its lock   *)
(* file.  A client downloads the archive, loses the connection and resumes *)
(* with Range, with If-Range (a browser) or without (curl -C -, wget),     *)
(* from whichever replica answers.                                         *)
(*                                                                         *)
(* A file on disk is its modification stamp and its contents, of the last  *)
(* one when there is none; contents are numbers and Bytes their length.    *)
(* An index entry says what was stat'ed (size, mtime) and what was hashed  *)
(* (crc: the contents read).  The ETag is a hash over the entries, so two  *)
(* layouts agree when their entries do.                                    *)
(***************************************************************************)
EXTENDS Integers, FiniteSets

CONSTANTS Packs,          \* the pack names of the mirror
          PackReplicas,   \* the web replicas
          Downloaders,    \* the clients
          MaxStreams,     \* MAPPACK_MAX_STREAMS
          MaxStamp,       \* bound: changes of a pack's file
          MaxPackFaults,  \* bound: dead replicas and failed writes
          MaxBreaks       \* bound: connections lost per download

ASSUME MapPackAssumption ==
  /\ PackReplicas \cap {"none", "broken", "done"} = {}
  /\ MaxStreams \in Nat \ {0} /\ MaxStamp \in Nat \ {0} /\ MaxPackFaults \in Nat /\ MaxBreaks \in Nat

VARIABLES mirror,    \* the files: [there, mtime, data]
          pindex,    \* the persisted index: a set of entries
          plock,     \* the lock file: "none", "fresh", or "stale" once 45 minutes old
          broken,    \* a lock was taken over from a holder that had not died
          pk,        \* per replica: its layout and its refresh
          dl,        \* per client: its download
          pfaults

packVars == <<mirror, pindex, plock, broken, pk, dl, pfaults>>

\* Contents 1 and 3 are two units long, contents 2 is one.
Bytes(d) == 1 + (d % 2)
NoLayout == {}   \* `layout` is null: no archive without a pack
\* mixed: history, a range was honoured under another layout than the part it goes on from
NoDownload == [at |-> "none", etag |-> NoLayout, left |-> {}, got |-> {}, breaks |-> 0, mixed |-> FALSE]

PackInit ==
  /\ mirror = [p \in Packs |-> [there |-> TRUE, mtime |-> 1, data |-> 1]]
  /\ pindex \in {{}, {[name |-> p, size |-> Bytes(1), mtime |-> 1, crc |-> 1, maps |-> FALSE] : p \in Packs}}
  /\ plock = "none" /\ broken = FALSE /\ pfaults = 0
  /\ pk = [r \in PackReplicas |-> [pc |-> "idle", left |-> {}, known |-> {}, fresh |-> {}, todo |-> {},
                                   held |-> FALSE, layout |-> NoLayout]]
  /\ dl = [c \in Downloaders |-> NoDownload]

-----------------------------------------------------------------------------
(* A refresh.  Every await is a step boundary.                             *)

\* The refresh is over (`building = false`) and the replica serves l.
Done(r, l) == pk' = [pk EXCEPT ![r] = [pc |-> "idle", left |-> {}, known |-> {}, fresh |-> {}, todo |-> {},
                                       held |-> FALSE, layout |-> l]]

\* refresh, called by the interval and by the short retry: read the index and, with
\* no layout yet, serve what it covers.
Refresh(r) ==
  /\ pk[r].pc = "idle"
  /\ pk' = [pk EXCEPT ![r] = [pc |-> "stat", left |-> Packs, known |-> pindex, fresh |-> {}, todo |-> {},
                              held |-> FALSE,
                              layout |-> IF pk[r].layout = NoLayout THEN pindex ELSE pk[r].layout]]
  /\ UNCHANGED <<mirror, pindex, plock, broken, dl, pfaults>>

\* One file of statPass: gone, as indexed (its map list read now if an old index has
\* none), or new to the index.
StatPass(r) ==
  /\ pk[r].pc = "stat"
  /\ \E p \in pk[r].left :
       LET f == mirror[p]
           same == {e \in pk[r].known : f.there /\ e.name = p /\ e.size = Bytes(f.data) /\ e.mtime = f.mtime}
           new == [name |-> p, size |-> Bytes(f.data), mtime |-> f.mtime, crc |-> 0, maps |-> FALSE]
       IN pk' = [pk EXCEPT ![r] = [pk[r] EXCEPT
                   !.left = @ \ {p},
                   !.fresh = @ \cup {[e EXCEPT !.maps = TRUE] : e \in same},
                   !.todo = IF f.there /\ same = {} THEN @ \cup {new} ELSE @]]
  /\ UNCHANGED <<mirror, pindex, plock, broken, dl, pfaults>>

\* The directory cannot be read: the refresh gives up and the old layout stays.
StatFails(r) ==
  /\ pk[r].pc = "stat" /\ pk[r].left = Packs /\ pfaults < MaxPackFaults
  /\ Done(r, pk[r].layout)
  /\ pfaults' = pfaults + 1
  /\ UNCHANGED <<mirror, pindex, plock, broken, dl>>

\* The change check compares name, size, crc and map list, not mtime.
Shape(entries) == {[name |-> e.name, size |-> e.size, crc |-> e.crc, maps |-> e.maps] : e \in entries}

MutNeedsLock(k) == Shape(k.fresh) # Shape(k.known)

\* The lock is wanted before hashing, and for a changed index that needed no hashing.
NeedsLock(k) == k.todo # {} \/ Shape(k.fresh) # Shape(k.known)

\* No lock needed: install what the stat pass found.
NothingToHash(r) ==
  /\ pk[r].pc = "stat" /\ pk[r].left = {} /\ ~NeedsLock(pk[r])
  /\ Done(r, pk[r].fresh)
  /\ UNCHANGED <<mirror, pindex, plock, broken, dl, pfaults>>

\* A lock file older than LOCK_STALE_MS.
Stale(lock) == lock = "stale"

\* takeLock's exclusive create.  A live lock sends a replica with packs to hash away
\* until the retry, and one without to install what it has unpersisted.
TakeLock(r) ==
  /\ pk[r].pc \in {"stat", "create"} /\ pk[r].left = {} /\ NeedsLock(pk[r])
  /\ \/ /\ plock = "none"
        /\ plock' = "fresh"
        /\ pk' = [pk EXCEPT ![r] = [pk[r] EXCEPT !.pc = "hash", !.held = TRUE]]
     \/ /\ Stale(plock)
        /\ pk' = [pk EXCEPT ![r].pc = "unlink"]
        /\ UNCHANGED plock
     \/ /\ plock # "none" /\ ~Stale(plock)
        /\ Done(r, IF pk[r].todo # {} THEN pk[r].layout ELSE pk[r].fresh)
        /\ UNCHANGED plock
  /\ UNCHANGED <<mirror, pindex, broken, dl, pfaults>>

\* takeLock: remove the lock seen to be stale (by now it may be another's) and create again.
BreakLock(r) ==
  /\ pk[r].pc = "unlink"
  /\ plock' = "none"
  /\ broken' = (broken \/ \E q \in PackReplicas \ {r} : pk[q].held)
  /\ pk' = [pk EXCEPT ![r].pc = "create"]
  /\ UNCHANGED <<mirror, pindex, dl, pfaults>>

\* One file of hashPass: its contents are read now; a file that is gone is skipped.
HashPass(r) ==
  /\ pk[r].pc = "hash"
  /\ \E e \in pk[r].todo :
       pk' = [pk EXCEPT ![r] = [pk[r] EXCEPT
                !.todo = @ \ {e},
                !.fresh = IF ~mirror[e.name].there THEN @
                          ELSE @ \cup {[e EXCEPT !.crc = mirror[e.name].data, !.maps = TRUE]}]]
  /\ UNCHANGED <<mirror, pindex, plock, broken, dl, pfaults>>

\* writeIndex: a temporary file renamed over the index, when the shape changed.
WriteIndex(r) ==
  /\ pk[r].pc = "hash" /\ pk[r].todo = {}
  /\ pindex' = IF Shape(pk[r].fresh) # Shape(pk[r].known) THEN pk[r].fresh ELSE pindex
  /\ pk' = [pk EXCEPT ![r].pc = "unlock"]
  /\ UNCHANGED <<mirror, plock, broken, dl, pfaults>>

\* writeIndex fails: the lock is released and nothing is installed.
WriteFails(r) ==
  /\ pk[r].pc = "hash" /\ pk[r].todo = {} /\ pfaults < MaxPackFaults
  /\ plock' = "none"
  /\ Done(r, pk[r].layout)
  /\ pfaults' = pfaults + 1
  /\ UNCHANGED <<mirror, pindex, broken, dl>>

\* The lock file is removed, whoever's it is, and the new layout installed.
Unlock(r) ==
  /\ pk[r].pc = "unlock"
  /\ plock' = "none"
  /\ Done(r, pk[r].fresh)
  /\ UNCHANGED <<mirror, pindex, broken, dl, pfaults>>

\* A replica dies and restarts with no layout; its lock file stays, its downloads break.
PackCrash(r) ==
  /\ pfaults < MaxPackFaults
  /\ Done(r, NoLayout)
  /\ pfaults' = pfaults + 1
  /\ dl' = [c \in Downloaders |-> IF dl[c].at = r THEN [dl[c] EXCEPT !.at = "broken"] ELSE dl[c]]
  /\ UNCHANGED <<mirror, pindex, plock, broken>>

\* The lock file grows older than LOCK_STALE_MS.
LockAges ==
  /\ plock = "fresh" /\ plock' = "stale"
  /\ UNCHANGED <<mirror, pindex, broken, pk, dl, pfaults>>

\* The mirror gains, replaces, removes or merely touches a pack.
MirrorChanges(p) ==
  /\ \/ /\ mirror[p].mtime < MaxStamp
        /\ \E d \in {mirror[p].data, mirror[p].data + 1} :
             mirror' = [mirror EXCEPT ![p] = [there |-> TRUE, mtime |-> @.mtime + 1, data |-> d]]
     \/ /\ mirror[p].there
        /\ mirror' = [mirror EXCEPT ![p].there = FALSE]
  /\ UNCHANGED <<pindex, plock, broken, pk, dl, pfaults>>

-----------------------------------------------------------------------------
(* Downloads.                                                              *)

Streams(r) == Cardinality({c \in Downloaders : dl[c].at = r})

MutResumes(d, layout) == d.at = "broken"

\* If-Range: the range is honoured when the client's copy is of this very layout.
Resumes(d, layout) == d.at = "broken" /\ d.etag = layout

\* handle: pin the layout and stream all of it, or the rest of it.  Without a layout, or
\* with every stream taken, the answer is a 503 and the client asks again.
Handle(c, r) ==
  /\ dl[c].at \in {"none", "broken"}
  /\ pk[r].layout # NoLayout /\ Streams(r) < MaxStreams
  /\ dl' = [dl EXCEPT ![c] =
              IF Resumes(dl[c], pk[r].layout) THEN [dl[c] EXCEPT !.at = r, !.etag = pk[r].layout]
              ELSE [dl[c] EXCEPT !.at = r, !.etag = pk[r].layout, !.left = pk[r].layout, !.got = {},
                                 !.mixed = FALSE]]
  /\ UNCHANGED <<mirror, pindex, plock, broken, pk, pfaults>>

\* handle, of a Range without If-Range: honoured whatever the layout.  Of another layout
\* the client gets what lies behind its offset there (any of its packs).
HandleRange(c, r) ==
  /\ dl[c].at = "broken"
  /\ pk[r].layout \notin {NoLayout, dl[c].etag} /\ Streams(r) < MaxStreams
  /\ \E rest \in SUBSET pk[r].layout :
       dl' = [dl EXCEPT ![c] = [dl[c] EXCEPT !.at = r, !.etag = pk[r].layout, !.left = rest, !.mixed = TRUE]]
  /\ UNCHANGED <<mirror, pindex, plock, broken, pk, pfaults>>

\* readRange, one pack: as many bytes as the entry says, from whatever the file holds
\* now; a missing or shorter file breaks the response, and the client has a part.
ReadRange(c) ==
  /\ dl[c].at \in PackReplicas
  /\ \E e \in dl[c].left :
       LET f == mirror[e.name] IN
       dl' = [dl EXCEPT ![c] =
                IF ~f.there \/ Bytes(f.data) < e.size THEN [dl[c] EXCEPT !.at = "broken"]
                ELSE [dl[c] EXCEPT !.left = @ \ {e},
                                   !.got = @ \cup {[entry |-> e, data |-> f.data, mtime |-> f.mtime]}]]
  /\ UNCHANGED <<mirror, pindex, plock, broken, pk, pfaults>>

\* The connection drops; the client keeps what it has and the ETag it came under.
Drops(c) ==
  /\ dl[c].at \in PackReplicas /\ dl[c].breaks < MaxBreaks
  /\ dl' = [dl EXCEPT ![c] = [dl[c] EXCEPT !.at = "broken", !.breaks = @ + 1]]
  /\ UNCHANGED <<mirror, pindex, plock, broken, pk, pfaults>>

\* The last byte is sent.
Finishes(c) ==
  /\ dl[c].at \in PackReplicas /\ dl[c].left = {}
  /\ dl' = [dl EXCEPT ![c].at = "done"]
  /\ UNCHANGED <<mirror, pindex, plock, broken, pk, pfaults>>

PackRefresh(r) ==
  \/ Refresh(r) \/ StatPass(r) \/ NothingToHash(r) \/ TakeLock(r) \/ BreakLock(r)
  \/ HashPass(r) \/ WriteIndex(r) \/ Unlock(r)

PackFaults ==
  \/ \E r \in PackReplicas : StatFails(r) \/ WriteFails(r) \/ PackCrash(r)
  \/ LockAges

PackDownloads ==
  \E c \in Downloaders :
    \/ \E r \in PackReplicas : Handle(c, r) \/ HandleRange(c, r)
    \/ ReadRange(c) \/ Drops(c) \/ Finishes(c)

PackNext ==
  \/ \E r \in PackReplicas : PackRefresh(r)
  \/ \E p \in Packs : MirrorChanges(p)
  \/ PackFaults \/ PackDownloads

-----------------------------------------------------------------------------
(* Properties.                                                             *)

\* Only one replica reads the mirror's contents at a time, unless a lock outlived 45
\* minutes under a holder that was still at work (takeLock before hashPass, mappack.js).
OneIndexer == ~broken => Cardinality({r \in PackReplicas : pk[r].held}) <= 1

\* A finished download is one archive, however often it was broken off and resumed and
\* from whichever replica: exactly the packs of the layout its ETag names, each with the
\* bytes its checksum is of, except a pack replaced on disk since it was indexed - unless
\* the client resumed without If-Range and met another layout: it is stitched two archives.
ArchiveWhole ==
  \A c \in Downloaders : dl[c].at = "done" =>
    /\ ~dl[c].mixed => {g.entry : g \in dl[c].got} = dl[c].etag
    /\ \A g \in dl[c].got : g.data = g.entry.crc \/ g.mtime > g.entry.mtime

\* What the map pack promises: one replica at a time pays for the hashing, and a client
\* ends with one consistent archive.
PackSound == OneIndexer /\ ArchiveWhole

\* Once the mirror rests, both replicas come to serve exactly the files it holds,
\* whatever a dead replica left behind in the lock file and the index.
PackServed ==
  \A r \in PackReplicas :
    {<<e.name, e.mtime, e.crc>> : e \in pk[r].layout} =
      {<<p, mirror[p].mtime, mirror[p].data>> : p \in {q \in Packs : mirror[q].there}}

PackSpec == PackInit /\ [][PackNext]_packVars

\* ... and why: who hashes holds the lock, and what was hashed is what the mirror holds
\* for as long as the file keeps the stamp it was indexed under.
Indexed(e) ==
  \/ mirror[e.name].mtime > e.mtime
  \/ mirror[e.name].mtime = e.mtime /\ mirror[e.name].data = e.crc
Stated(e) == mirror[e.name].mtime >= e.mtime

PackEntries == [name : Packs, size : Nat, mtime : Nat, crc : Nat, maps : BOOLEAN]
Refreshes ==
  [pc : {"idle", "stat", "create", "unlink", "hash", "unlock"}, left : SUBSET Packs, known : SUBSET PackEntries,
   fresh : SUBSET PackEntries, todo : SUBSET PackEntries, held : BOOLEAN, layout : SUBSET PackEntries]
PackPieces == [entry : PackEntries, data : Nat, mtime : Nat]
PackDls ==
  [at : {"none", "broken", "done"} \cup PackReplicas, etag : SUBSET PackEntries, left : SUBSET PackEntries,
   got : SUBSET PackPieces, breaks : Nat, mixed : BOOLEAN]
MirrorFiles == [there : BOOLEAN, mtime : Nat, data : Nat]
PackTypeOK ==
  /\ mirror \in [Packs -> MirrorFiles] /\ pindex \in SUBSET PackEntries
  /\ plock \in {"none", "fresh", "stale"} /\ broken \in BOOLEAN /\ pfaults \in Nat
  /\ pk \in [PackReplicas -> Refreshes] /\ dl \in [Downloaders -> PackDls]
LockInv ==
  /\ \A r \in PackReplicas : pk[r].held <=> pk[r].pc \in {"hash", "unlock"}
  /\ ~broken => \A r \in PackReplicas : pk[r].held =>
                  plock # "none" /\ \A q \in PackReplicas \ {r} : ~pk[q].held
IndexInv ==
  /\ \A e \in pindex : Indexed(e)
  /\ \A r \in PackReplicas :
       /\ \A e \in pk[r].known \cup pk[r].fresh \cup pk[r].layout : Indexed(e)
       /\ \A e \in pk[r].todo : Stated(e)
GotInv ==
  \A c \in Downloaders :
    /\ \A e \in dl[c].etag \cup dl[c].left : Indexed(e)
    /\ \A g \in dl[c].got : g.data = g.entry.crc \/ g.mtime > g.entry.mtime
    /\ dl[c].at # "none" /\ ~dl[c].mixed => {g.entry : g \in dl[c].got} \cup dl[c].left = dl[c].etag
    /\ dl[c].at = "done" => dl[c].left = {}
PackInv == PackTypeOK /\ LockInv /\ IndexInv /\ GotInv
====
