---- MODULE Mapgen ----
(***************************************************************************)
(* The life of a generated map: a request claims a daily quota and the     *)
(* site's budget (web/db.js mapgenSubmit), an admin reviews a course built *)
(* by hand, a worker process claims, plans, builds and publishes it        *)
(* (tools/mapgen/worker.py), and the first game server that confirms the   *)
(* pack makes it published (mapgenSync).  The worker's plan and build are  *)
(* outcomes; the map store is the set of packs renamed into place.         *)
(***************************************************************************)
EXTENDS Integers, FiniteSets, FiniteSetsExt

CONSTANTS MgWorkers, MgServers, Identities,
          PerIdentity,   \* MAPGEN_PER_IDENTITY
          MgBudget,      \* MAPGEN_BUDGET
          MaxJobs,       \* bound: rows of mapgen_job
          MaxMgDay,      \* bound: the last day
          MaxMgFaults,   \* bound: worker deaths and failed plans, builds, publishes
          SlowWorkers    \* may a worker still be running when its claim goes stale?

ASSUME MapgenAssumption ==
  /\ "none" \notin Identities
  /\ PerIdentity \in Nat \ {0} /\ MgBudget \in Nat \ {0} /\ MaxJobs \in Nat /\ MaxMgDay \in Nat
  /\ MaxMgFaults \in Nat /\ SlowWorkers \in BOOLEAN

VARIABLES mgday,    \* today (UTC)
          jobs,     \* mapgen_job
          quota,    \* mapgen_quota: used, by day and identity
          budget,   \* mapgen_budget: used, by day
          store,    \* the packs in the shared map store, as <<job, name>>
          mgseen,     \* mapgen_seen, as <<job, server>>
          mgfaults,
          mgw       \* per worker: what it is doing and the row it claimed

mgVars == <<mgday, jobs, quota, budget, store, mgseen, mgfaults, mgw>>

MgDays == 0..MaxMgDay
JobIds == 1..MaxJobs
None == "none"
MgIdle == [pc |-> "idle", job |-> 0, name |-> 0]
NoJob == [status |-> None, source |-> None, day |-> -1, id |-> None, name |-> 0,
          reviewed |-> FALSE, back |-> FALSE]

Live(j) == jobs[j].status # None

(* The next id of mapgen_job. *)
NewJob(j) == ~Live(j) /\ \A k \in JobIds : k < j => Live(k)
Pack(j) == <<j, jobs[j].name>>

MgInit ==
  /\ mgday = 0 /\ mgfaults = 0
  /\ jobs = [j \in JobIds |-> NoJob]
  /\ quota = [d \in MgDays |-> [i \in Identities |-> 0]]
  /\ budget = [d \in MgDays |-> 0]
  /\ store = {} /\ mgseen = {}
  /\ mgw = [w \in MgWorkers |-> MgIdle]

MutQuotaClaim(d, i) == quota[d][i] <= PerIdentity /\ budget[d] < MgBudget

(* The two conditional upserts both returned a row. *)
QuotaClaim(d, i) == quota[d][i] < PerIdentity /\ budget[d] < MgBudget

(* mapgenSubmit: one transaction.  The day was taken with the identity and *)
(* may be yesterday's by now.  Rows older than the day before are pruned   *)
(* first, and with them the jobs' identities.                              *)
MapgenSubmit(i, source, d) ==
  /\ QuotaClaim(d, i)
  /\ quota' = [e \in MgDays |-> IF e < d - 1 THEN [k \in Identities |-> 0]
                                ELSE IF e = d THEN [quota[e] EXCEPT ![i] = @ + 1] ELSE quota[e]]
  /\ budget' = [budget EXCEPT ![d] = @ + 1]
  /\ \E n \in JobIds :
       /\ NewJob(n)
       /\ jobs' = [j \in JobIds |->
                    IF j = n
                    THEN [NoJob EXCEPT !.status = IF source = "editor" THEN "review" ELSE "queued",
                                       !.source = source, !.day = d, !.id = i]
                    ELSE [jobs[j] EXCEPT !.id = IF jobs[j].day < d - 1 THEN None ELSE @]]
  /\ UNCHANGED <<mgday, store, mgseen, mgfaults, mgw>>

(* POST /api/mapgen, a description, and /api/mapgen/spec, a course. *)
PostMapgen(i, d) == MapgenSubmit(i, "describe", d)
PostMapgenSpec(i, d) == MapgenSubmit(i, "editor", d)

(* /admin/mapgen: no identity, no quota, no budget. *)
MapgenSubmitAdmin ==
  /\ \E n \in JobIds :
       /\ NewJob(n)
       /\ jobs' = [jobs EXCEPT ![n] = [NoJob EXCEPT !.status = "queued", !.source = "describe"]]
  /\ UNCHANGED <<mgday, quota, budget, store, mgseen, mgfaults, mgw>>

MapgenApprove(j) ==
  /\ jobs[j].status = "review"
  /\ jobs' = [jobs EXCEPT ![j].status = "queued", ![j].reviewed = TRUE]
  /\ UNCHANGED <<mgday, quota, budget, store, mgseen, mgfaults, mgw>>

(* A refund of a day and identity whose row is gone, or at zero, is a no-op. *)
Refund(d, i) == IF d \in MgDays /\ i \in Identities /\ quota[d][i] > 0
                THEN [quota EXCEPT ![d][i] = @ - 1] ELSE quota

(* The admin turns the course down: quota and budget are given back. *)
MapgenReject(j) ==
  /\ jobs[j].status = "review"
  /\ jobs' = [jobs EXCEPT ![j].status = "rejected", ![j].reviewed = TRUE, ![j].back = TRUE]
  /\ quota' = Refund(jobs[j].day, jobs[j].id)
  /\ budget' = [budget EXCEPT ![jobs[j].day] = IF @ > 0 THEN @ - 1 ELSE 0]
  /\ UNCHANGED <<mgday, store, mgseen, mgfaults, mgw>>

(* run_once: rows stuck in planning or building are re-queued, then the    *)
(* oldest queued row is claimed, in one transaction.  A claim goes stale   *)
(* when its worker is dead, or, with SlowWorkers, merely slow.             *)
Held(j) == \E w \in MgWorkers : mgw[w].job = j
StaleJob(j) == jobs[j].status \in {"planning", "building"} /\ (SlowWorkers \/ ~Held(j))

RunOnce(w) ==
  \E re \in SUBSET {j \in JobIds : StaleJob(j)} :
    LET queued == {j \in JobIds : jobs[j].status = "queued"} \cup re IN
    \E oldest \in queued :
      /\ mgw[w].pc = "idle" /\ \A j \in queued : oldest <= j
      /\ jobs' = [j \in JobIds |-> IF j = oldest THEN [jobs[j] EXCEPT !.status = "planning"]
                                   ELSE IF j \in re THEN [jobs[j] EXCEPT !.status = "queued"] ELSE jobs[j]]
      /\ mgw' = [mgw EXCEPT ![w] = [pc |-> "plan", job |-> oldest, name |-> 0]]
      /\ UNCHANGED <<mgday, quota, budget, store, mgseen, mgfaults>>

(* Planned or checked, under a unique name: the model may pick another one *)
(* each time it is asked, a course from the editor keeps its own.          *)
Planned(w) ==
  LET j == mgw[w].job IN
  /\ mgw[w].pc = "plan"
  /\ \E n \in IF jobs[j].source = "editor" THEN {1} ELSE {1, 2} :
       /\ jobs' = [jobs EXCEPT ![j].status = "building", ![j].name = n]
       /\ mgw' = [mgw EXCEPT ![w].pc = "build", ![w].name = n]
  /\ UNCHANGED <<mgday, quota, budget, store, mgseen, mgfaults>>

Built(w) ==
  /\ mgw[w].pc = "build"
  /\ mgw' = [mgw EXCEPT ![w].pc = "publish"]
  /\ UNCHANGED <<mgday, jobs, quota, budget, store, mgseen, mgfaults>>

(* publish: the rename into the store, refused when the pack is there. *)
Published(w) ==
  /\ mgw[w].pc = "publish" /\ <<mgw[w].job, mgw[w].name>> \notin store
  /\ store' = store \cup {<<mgw[w].job, mgw[w].name>>}
  /\ mgw' = [mgw EXCEPT ![w].pc = "done"]
  /\ UNCHANGED <<mgday, jobs, quota, budget, mgseen, mgfaults>>

Committed(w) ==
  /\ mgw[w].pc = "done"
  /\ jobs' = [jobs EXCEPT ![mgw[w].job].status = "publishing"]
  /\ mgw' = [mgw EXCEPT ![w] = MgIdle]
  /\ UNCHANGED <<mgday, quota, budget, store, mgseen, mgfaults>>

(* fail: the row is failed whatever its status is by now; everything but a *)
(* refused description gives the requester their map back.                 *)
Fails(w, gives) ==
  LET j == mgw[w].job IN
  /\ jobs' = [jobs EXCEPT ![j].status = "failed", ![j].back = gives /\ jobs[j].day >= 0]
  /\ quota' = IF gives THEN Refund(jobs[j].day, jobs[j].id) ELSE quota
  /\ mgw' = [mgw EXCEPT ![w] = MgIdle]
  /\ UNCHANGED <<mgday, budget, store, mgseen>>

PlanFails(w) ==
  /\ mgw[w].pc = "plan" /\ mgfaults < MaxMgFaults /\ mgfaults' = mgfaults + 1
  /\ Fails(w, jobs[mgw[w].job].source = "editor")

BuildFails(w) ==
  /\ mgw[w].pc \in {"build", "publish"} /\ mgfaults < MaxMgFaults /\ mgfaults' = mgfaults + 1
  /\ Fails(w, TRUE)

PublishRefused(w) ==
  /\ mgw[w].pc = "publish" /\ <<mgw[w].job, mgw[w].name>> \in store
  /\ mgfaults' = mgfaults /\ Fails(w, TRUE)

WorkerDies(w) ==
  /\ mgw[w].pc # "idle" /\ mgfaults < MaxMgFaults /\ mgfaults' = mgfaults + 1
  /\ mgw' = [mgw EXCEPT ![w] = MgIdle]
  /\ UNCHANGED <<mgday, jobs, quota, budget, store, mgseen>>

(* A server's map-sync poll confirms packs its engine has scanned. *)
MapgenSync(s) ==
  \E have \in (SUBSET store) \ {{}} :
    LET named == {j \in JobIds : Pack(j) \in have /\ jobs[j].status \in {"publishing", "published"}} IN
    /\ named # {}
    /\ mgseen' = mgseen \cup {<<j, s>> : j \in named}
    /\ jobs' = [j \in JobIds |-> IF j \in named THEN [jobs[j] EXCEPT !.status = "published"] ELSE jobs[j]]
    /\ UNCHANGED <<mgday, quota, budget, store, mgfaults, mgw>>

MgMidnight ==
  /\ mgday < MaxMgDay /\ mgday' = mgday + 1
  /\ UNCHANGED <<jobs, quota, budget, store, mgseen, mgfaults, mgw>>

WorkerSteps(w) == RunOnce(w) \/ Planned(w) \/ Built(w) \/ Published(w) \/ PublishRefused(w) \/ Committed(w)

MgNext ==
  \/ \E i \in Identities, d \in {mgday - 1, mgday} \cap MgDays : PostMapgen(i, d) \/ PostMapgenSpec(i, d)
  \/ MapgenSubmitAdmin
  \/ \E j \in JobIds : MapgenApprove(j) \/ MapgenReject(j)
  \/ \E w \in MgWorkers : WorkerSteps(w) \/ PlanFails(w) \/ BuildFails(w) \/ WorkerDies(w)
  \/ \E s \in MgServers : MapgenSync(s)
  \/ MgMidnight

MgSpec == MgInit /\ [][MgNext]_mgVars

(* A person's count for a day is the number of their maps of that day that *)
(* were not given back, over every path that charges or refunds, and never *)
(* above the limit; the site's count is above its jobs' only by the builds *)
(* the worker gave back to the person alone.                               *)
QuotaExact ==
  \A d \in MgDays :
    /\ \A i \in Identities :
         /\ quota[d][i] <= PerIdentity
         /\ quota[d][i] = Cardinality({j \in JobIds : jobs[j].day = d /\ jobs[j].id = i /\ ~jobs[j].back})
    /\ budget[d] <= MgBudget
    /\ budget[d] = Cardinality({j \in JobIds : jobs[j].day = d /\ jobs[j].status # "rejected"})

(* What a page calls publishing or published is in the store. *)
PackStored == \A j \in JobIds : jobs[j].status \in {"publishing", "published"} => Pack(j) \in store

(* A course built by hand reaches the store only after an admin looked at it. *)
ReviewedFirst == \A j \in JobIds :
  jobs[j].source = "editor" /\ (\E p \in store : p[1] = j) => jobs[j].reviewed

(* Two workers never work on one job (while a stale claim means a dead worker). *)
OneWorker == \A v, w \in MgWorkers : v # w /\ mgw[v].job = mgw[w].job => mgw[v].job = 0

MapgenSound == QuotaExact /\ PackStored /\ ReviewedFirst /\ OneWorker

(* ... and why, while a stale claim means a dead worker.  A worker holds   *)
(* its row in the status of its step, so nobody else fails or claims it;   *)
(* what was given back has ended; what is in the store was looked at.      *)
JobStatus == {None, "review", "rejected", "queued", "planning", "building", "publishing", "published", "failed"}
JobType == [status : JobStatus, source : {None, "describe", "editor"}, day : MgDays \cup {-1},
            id : Identities \cup {None}, name : 0..2, reviewed : BOOLEAN, back : BOOLEAN]
WorkerType == [pc : {"idle", "plan", "build", "publish", "done"}, job : JobIds \cup {0}, name : 0..2]

JobOk(x) ==
  /\ x.status = None => x.day = -1
  /\ x.back => x.status \in {"rejected", "failed"}
  /\ x.source = "editor" /\ x.status \notin {None, "review"} => x.reviewed

Holds(v) ==
  /\ v.pc = "idle" => v.job = 0
  /\ v.pc # "idle" => /\ v.job \in JobIds
                      /\ jobs[v.job].status = IF v.pc = "plan" THEN "planning" ELSE "building"
                      /\ v.pc # "plan" => v.name = jobs[v.job].name
                      /\ v.pc = "done" => <<v.job, v.name>> \in store

MgInv ==
  /\ mgday \in MgDays /\ jobs \in [JobIds -> JobType] /\ \A j \in JobIds : JobOk(jobs[j])
  /\ quota \in [MgDays -> [Identities -> Nat]] /\ budget \in [MgDays -> Nat]
  /\ mgw \in [MgWorkers -> WorkerType]
  /\ \A w \in MgWorkers : Holds(mgw[w])
  /\ store \subseteq JobIds \X (0..2) /\ \A p \in store : jobs[p[1]].status \notin {None, "review"}
  /\ QuotaExact /\ PackStored /\ OneWorker

(* A map that is out stays out: no later step of any worker fails or       *)
(* re-queues it, and its requester is not told it failed.                  *)
PublishedStays == [][\A j \in JobIds :
  jobs[j].status \in {"publishing", "published"} => jobs'[j].status \in {"publishing", "published"}]_mgVars

(* A queued job ends, through any number of worker deaths: again and again. *)
NoJobOpen == \A j \in JobIds : jobs[j].status \notin {"queued", "planning", "building", "publishing"}
====
