---- MODULE Moderation ----
(***************************************************************************)
(* What keeps a bad map or a bad name off the servers and pages            *)
(* (web/db.js): player flags, the moderators' map block, the quarantine    *)
(* the crash guards' load-failure reports raise, and the name filter every *)
(* web replica keeps in memory.  One map; a report is one transaction      *)
(* whose insert is seen by others only when it commits.                    *)
(***************************************************************************)
EXTENDS Integers, FiniteSets, FiniteSetsExt

CONSTANTS LoadServers,   \* enrolled, trusted servers that report load failures
          Reporters,     \* players and visitors who flag
          FailsToQuarantine,  \* MAP_QUARANTINE_FAILS
          ExpireTicks,   \* MAP_QUARANTINE_EXPIRE_SECS
          CensorReplicas,
          MaxModTime,    \* bound: the clock
          MaxAdminActs,  \* bound: moderator actions on the map
          MaxCensorEdits \* bound: edits of the filter

ASSUME ModAssumption ==
  /\ FailsToQuarantine \in Nat \ {0} /\ ExpireTicks \in Nat \ {0}
  /\ MaxModTime \in Nat /\ MaxAdminActs \in Nat /\ MaxCensorEdits \in Nat

VARIABLES modnow, flags, blocked, evidence, quar, report, admin, acts, lifted, raced,
          cver, cens, cload, crossed, need

mapVars == <<modnow, flags, blocked, evidence, quar, report, admin, acts, lifted, raced>>
censVars == <<cver, cens, cload, crossed, need>>
modVars == <<mapVars, censVars>>

(***************************************************************************)
(* flags: the open rows of map_flag, as <<reason, reporter>> (the partial  *)
(* unique index).  evidence: map_load_failure, as <<server, second>>.      *)
(* quar: the row of map_quarantine.  report: per server, its open report.  *)
(* lifted: a moderator let the map back since it was last taken out.       *)
(* raced: the last report committed over evidence it had not counted.      *)
(* cver: the version of the filter's tables; cens: what a replica applies; *)
(* cload: its loads in flight, by what started them; crossed: it installed *)
(* an older version over a newer one; need: its last own edit.             *)
(***************************************************************************)
NoReport == [pc |-> "idle", at |-> 0, fails |-> 0, servers |-> 0, was |-> FALSE, seen |-> {}]
Loads == {"timer", "edit"}
NoLoad == [pc |-> 0, terms |-> 0, names |-> 0]

ModInit ==
  /\ modnow = 0 /\ flags = {} /\ blocked = FALSE /\ evidence = {} /\ acts = 0
  /\ quar = [active |-> FALSE, expires |-> 0]     \* expires 0: NULL
  /\ report = [s \in LoadServers |-> NoReport]
  /\ admin = [pc |-> "idle", lost |-> FALSE] /\ lifted = FALSE /\ raced = FALSE
  /\ cver = [terms |-> 0, names |-> 0]
  /\ cens = [r \in CensorReplicas |-> [terms |-> 0, names |-> 0]]
  /\ cload = [r \in CensorReplicas |-> [l \in Loads |-> NoLoad]]
  /\ crossed = [r \in CensorReplicas |-> FALSE]
  /\ need = [r \in CensorReplicas |-> [terms |-> 0, names |-> 0]]

(* blockedMapNames, which the servers poll. *)
InQuarantine == quar.active /\ (quar.expires = 0 \/ quar.expires > modnow)
BlockedMapNames == blocked \/ InQuarantine

(* POST /maps/:id/flag and /game/flag. *)
FlagMap(p) ==
  /\ flags' = flags \cup {<<"other", p>>}
  /\ UNCHANGED <<modnow, blocked, evidence, quar, report, admin, acts, lifted, raced>>

(* recordMapLoadFailure: the insert, the counts and the read of active. *)
CountFailures(s) ==
  LET seen == evidence \cup {<<s, modnow>>} IN
  /\ report[s].pc = "idle"
  /\ report' = [report EXCEPT ![s] = [pc |-> "write", at |-> modnow, seen |-> seen,
                   fails |-> Cardinality(seen), servers |-> Cardinality({e[1] : e \in seen}),
                   was |-> quar.active]]
  /\ UNCHANGED <<modnow, flags, blocked, evidence, quar, admin, acts, lifted, raced>>

MutActivates(t) == t.fails > FailsToQuarantine \/ t.servers >= 2

Activates(t) == t.fails >= FailsToQuarantine \/ t.servers >= 2

(* The upsert of map_quarantine and the commit. *)
WriteQuarantine(s) ==
  LET t == report[s] IN
  /\ t.pc = "write"
  /\ evidence' = evidence \cup {<<s, t.at>>}
  /\ quar' = [active |-> Activates(t),
              expires |-> IF Activates(t) /\ t.fails < 3 THEN t.at + ExpireTicks ELSE 0]
  /\ raced' = (evidence' # t.seen)
  /\ lifted' = FALSE
  /\ report' = [report EXCEPT ![s] = IF Activates(t) /\ ~t.was THEN [NoReport EXCEPT !.pc = "flag"] ELSE NoReport]
  /\ UNCHANGED <<modnow, flags, blocked, admin, acts>>

(* The route files a flag for the report that tipped the quarantine over. *)
FlagLoadFailure(s) ==
  /\ report[s].pc = "flag"
  /\ flags' = flags \cup {<<"loadfail", s>>}
  /\ report' = [report EXCEPT ![s] = NoReport]
  /\ UNCHANGED <<modnow, blocked, evidence, quar, admin, acts, lifted, raced>>

ModeratorActs == acts < MaxAdminActs /\ acts' = acts + 1

(* closeOneFlag and closeMapFlags. *)
SetFlagStatus(p) ==
  /\ ModeratorActs /\ p \in flags
  /\ flags' = flags \ {p}
  /\ UNCHANGED <<modnow, blocked, evidence, quar, report, admin, lifted, raced>>

ResolveMapFlags ==
  /\ ModeratorActs /\ flags # {}
  /\ flags' = {}
  /\ UNCHANGED <<modnow, blocked, evidence, quar, report, admin, lifted, raced>>

BlockMap == blocked' = TRUE /\ flags' = {}

ClearMapQuarantine == quar' = [active |-> FALSE, expires |-> 0]

(* /flags/map/:id/block *)
BlockFromFlags ==
  /\ ModeratorActs /\ BlockMap
  /\ UNCHANGED <<modnow, evidence, quar, report, admin, lifted, raced>>

UnblockMap ==
  /\ ModeratorActs /\ blocked
  /\ blocked' = FALSE /\ lifted' = TRUE
  /\ admin' = [admin EXCEPT !.lost = admin.pc = "clear"]
  /\ UNCHANGED <<modnow, flags, evidence, quar, report, raced>>

(* /quarantine/:map/clear *)
ClearFromFlags ==
  /\ ModeratorActs /\ ClearMapQuarantine /\ lifted' = TRUE
  /\ UNCHANGED <<modnow, flags, blocked, evidence, report, admin, raced>>

(* /quarantine/:map/block: the block commits, then the quarantine is cleared. *)
BlockFromQuarantine ==
  \/ /\ ModeratorActs /\ admin.pc = "idle" /\ quar.active /\ BlockMap
     /\ admin' = [pc |-> "clear", lost |-> FALSE]
     /\ UNCHANGED <<modnow, evidence, quar, report, lifted, raced>>
  \/ /\ admin.pc = "clear" /\ ClearMapQuarantine
     /\ admin' = [pc |-> "idle", lost |-> FALSE]
     /\ lifted' = (lifted \/ admin.lost)
     /\ UNCHANGED <<modnow, flags, blocked, evidence, report, raced, acts>>

ModTick ==
  /\ modnow < MaxModTime /\ modnow' = modnow + 1
  /\ UNCHANGED <<flags, blocked, evidence, quar, report, admin, acts, lifted, raced>>

MapNext ==
  \/ \E p \in Reporters : FlagMap(p)
  \/ \E s \in LoadServers : CountFailures(s) \/ WriteQuarantine(s) \/ FlagLoadFailure(s)
  \/ \E p \in flags : SetFlagStatus(p)
  \/ ResolveMapFlags \/ BlockFromFlags \/ UnblockMap \/ ClearFromFlags \/ BlockFromQuarantine \/ ModTick

(* loadCensorConfig: the word list, then the overrides of players and maps, *)
(* then the whole object at once; a failed read keeps the previous object.  *)
StartLoad(r, l) == [cload EXCEPT ![r][l] = [NoLoad EXCEPT !.pc = 1]]

ReadTerms(r, l) ==
  /\ cload[r][l].pc = 1
  /\ cload' = [cload EXCEPT ![r][l].pc = 2, ![r][l].terms = cver.terms]
  /\ UNCHANGED <<cver, cens, crossed, need>>

ReadNames(r, l) ==
  /\ cload[r][l].pc = 2
  /\ cload' = [cload EXCEPT ![r][l].pc = 3, ![r][l].names = cver.names]
  /\ UNCHANGED <<cver, cens, crossed, need>>

Install(r, l) ==
  LET c == [terms |-> cload[r][l].terms, names |-> cload[r][l].names] IN
  /\ cload[r][l].pc = 3
  /\ crossed' = [crossed EXCEPT ![r] = c.terms < cens[r].terms \/ c.names < cens[r].names]
  /\ cens' = [cens EXCEPT ![r] = c]
  /\ cload' = [cload EXCEPT ![r][l] = NoLoad]
  /\ UNCHANGED <<cver, need>>

CensorTimer(r) ==
  /\ cload[r]["timer"].pc = 0
  /\ cens[r] # cver                \* a load of the same version changes nothing
  /\ cload' = StartLoad(r, "timer")
  /\ UNCHANGED <<cver, cens, crossed, need>>

(* addCensorTerm, removeCensorTerm, set/clearPlayerCensor, set/clearMapCensor: *)
(* the statement commits, then the replica that ran it reloads.                *)
EditCensor(r, part) ==
  /\ cver.terms + cver.names < MaxCensorEdits /\ cload[r]["edit"].pc = 0
  /\ cver' = [cver EXCEPT ![part] = @ + 1]
  /\ need' = [need EXCEPT ![r] = cver']
  /\ cload' = StartLoad(r, "edit")
  /\ UNCHANGED <<cens, crossed>>

CensorSteps(r) ==
  \/ CensorTimer(r)
  \/ \E l \in Loads : ReadTerms(r, l) \/ ReadNames(r, l) \/ Install(r, l)

CensorNext ==
  \E r \in CensorReplicas : CensorSteps(r) \/ \E part \in {"terms", "names"} : EditCensor(r, part)

ModNext == (MapNext /\ UNCHANGED censVars) \/ (CensorNext /\ UNCHANGED mapVars)
ModSpec == ModInit /\ [][ModNext]_modVars

(* Enough evidence keeps the map off the servers until a moderator lets it *)
(* back or thin evidence expires: through blocks, unblocks and clears in   *)
(* any order, and with the permanent block of a quarantined map in two     *)
(* statements.  The exception is a report that committed over evidence it  *)
(* had not counted, which may even end a quarantine in force.              *)
OffTheServers ==
  Cardinality(evidence) >= FailsToQuarantine \/ Cardinality({e[1] : e \in evidence}) >= 2
    => BlockedMapNames \/ lifted \/ raced
       \/ (Cardinality(evidence) < 3 /\ \A e \in evidence : e[2] + ExpireTicks <= modnow)

(* The replica that took an edit applies it when the reload is over, unless *)
(* an older load of its own finished later.                                 *)
EditApplied == \A r \in CensorReplicas :
  cload[r]["edit"].pc = 0 => crossed[r] \/ (need[r].terms <= cens[r].terms /\ need[r].names <= cens[r].names)

(* ... and why.  A report carries what it counted; a quarantine outlasts   *)
(* the evidence it rests on; a permanent block under way is a block until  *)
(* somebody lifts it.                                                      *)
Enough(rows) == Cardinality(rows) >= FailsToQuarantine \/ Cardinality({e[1] : e \in rows}) >= 2
QuarantineInv ==
  /\ modnow \in Nat /\ quar.expires \in Nat
  /\ evidence \subseteq LoadServers \X Nat /\ \A e \in evidence : e[2] <= modnow
  /\ DOMAIN report = LoadServers
  /\ \A s \in LoadServers : report[s].pc = "write" =>
       LET t == report[s]
       IN /\ t.at \in 0..modnow /\ t.seen \subseteq LoadServers \X Nat /\ \A e \in t.seen : e[2] <= t.at
          /\ t.fails = Cardinality(t.seen) /\ t.servers = Cardinality({e[1] : e \in t.seen})
  /\ admin \in [pc : {"idle", "clear"}, lost : BOOLEAN] /\ (admin.pc = "clear" => blocked \/ admin.lost)
  /\ Enough(evidence) => \/ blocked \/ lifted \/ raced
                         \/ /\ quar.active
                            /\ \/ quar.expires = 0
                               \/ Cardinality(evidence) < 3 /\ \A e \in evidence : e[2] + ExpireTicks <= quar.expires

(* A load that finds its replica ahead of it leaves it crossed, and only a *)
(* load that began after that one can follow.                              *)
Reloaded(r, part, read) ==
  LET own == cload[r]["edit"]
      timer == cload[r]["timer"]
  IN /\ need[r][part] <= cver[part]
     /\ own.pc >= read => own[part] >= need[r][part]
     /\ own.pc = 0 => \/ cens[r][part] >= need[r][part]
                      \/ crossed[r] /\ (timer.pc >= read => timer[part] >= need[r][part])
ReloadInv ==
  /\ cver \in [terms : Nat, names : Nat]
  /\ cens \in [CensorReplicas -> [terms : Nat, names : Nat]]
  /\ need \in [CensorReplicas -> [terms : Nat, names : Nat]]
  /\ crossed \in [CensorReplicas -> BOOLEAN]
  /\ cload \in [CensorReplicas -> [Loads -> [pc : 0..3, terms : Nat, names : Nat]]]
  /\ \A r \in CensorReplicas : Reloaded(r, "terms", 2) /\ Reloaded(r, "names", 3)

(* Every replica applies the filter as it was last edited: again and again. *)
FilterAgreed == \A r \in CensorReplicas : cens[r] = cver
====
