------------------------------ MODULE MCPollers ------------------------------
(***************************************************************************)
(* One run over what polls and what is polled: the collector, the live     *)
(* poller, the announcer's progress, the map pack's refresh, the name      *)
(* filter's reload, and the operators' side of both replicas.  The parts   *)
(* share no variable here, so `which` picks the part a behaviour is about; *)
(* the others rest, and only the chosen part's fairness is assumed.        *)
(***************************************************************************)
EXTENDS Operations, MapPack, Feeds, Moderation, Announcer

VARIABLE which
pollersVars == <<which, opsVars, packVars, colVars, pollVars, modVars, vars>>

Parts == {"restart", "notice", "oplog", "limiter", "packfaults", "download",
          "collector", "poller", "filter", "announcer"}
Pack1 == {"packfaults", "download"}

(* The pack's index file may be there from an earlier process (with        *)
(* faults: a download meets an index in the middle of a behaviour anyway). *)
PollersInit ==
  /\ which \in Parts
  /\ OpsInit /\ PackInit /\ ColInit /\ PollInit /\ ModInit /\ Init
  /\ which # "packfaults" => pindex = {}

OperatorNext ==
  \/ which = "restart" /\ RestartNext /\ UNCHANGED <<maintVars, logVars, limitVars>>
  \/ which = "notice" /\ MaintNext /\ UNCHANGED <<restartVars, logVars, limitVars>>
  \/ which = "oplog" /\ LogNext /\ UNCHANGED <<restartVars, maintVars, limitVars>>
  \/ which = "limiter" /\ LimitNext /\ UNCHANGED <<restartVars, maintVars, logVars>>

(* While a client downloads packs are replaced and touched, not removed: a *)
(* shorter file breaks the response just as a missing one does.            *)
MapPackNext ==
  /\ which \in Pack1
  /\ \/ \E r \in PackReplicas : PackRefresh(r)
     \/ \E p \in Packs : MirrorChanges(p) /\ (which = "download" => mirror'[p].there)
     \/ which = "packfaults" /\ PackFaults
     \/ which = "download" /\ PackDownloads

FeedsNext ==
  \/ which = "collector" /\ ColNext /\ UNCHANGED <<pollVars, modVars>>
  \/ which = "poller" /\ PollNext /\ UNCHANGED <<colVars, modVars>>
  \/ which = "filter" /\ CensorNext /\ UNCHANGED <<colVars, pollVars, mapVars>>

PollersNext ==
  /\ UNCHANGED which
  /\ \/ OperatorNext /\ UNCHANGED <<packVars, colVars, pollVars, modVars, vars>>
     \/ MapPackNext /\ UNCHANGED <<opsVars, colVars, pollVars, modVars, vars>>
     \/ FeedsNext /\ UNCHANGED <<opsVars, packVars, vars>>
     \/ which = "announcer" /\ Next /\ UNCHANGED <<opsVars, packVars, colVars, pollVars, modVars>>

-----------------------------------------------------------------------------
(* Fairness, of the chosen part only.                                      *)

(* The state timer fires every few seconds and a read ends.                *)
OpsFair ==
  \A r \in OpsReplicas :
    /\ WF_maintVars(which = "notice" /\ MaintSteps(r))
    /\ WF_maintVars(which = "notice" /\ (ToggleMessage(r) \/ ToggleStamp(r)))

(* The refresh timers keep firing and the refresh's awaits end; a lock     *)
(* left behind ages; and a replica that keeps asking for a lock that keeps *)
(* being free gets it: refreshes are hours apart, the retry comes after a  *)
(* minute and a hash pass takes seconds.                                   *)
PackFair ==
  /\ \A r \in PackReplicas :
       /\ WF_packVars(which \in Pack1 /\ PackRefresh(r))
       /\ ([]<><<TakeLock(r)>>_packVars /\ []<>(plock = "none"))
             => []<><<TakeLock(r) /\ plock = "none">>_packVars
  /\ WF_packVars(which \in Pack1 /\ LockAges)

(* The collector's loop goes on.                                           *)
FeedFair == WF_colVars(which = "collector" /\ ColStep)

(* Timers and timeouts fire; the database need not answer.                 *)
PollFair ==
  /\ WF_pollVars(which = "poller" /\ (PollTick \/ ServersHang \/ LivePollEnds))
  /\ \A s \in PollServers : WF_pollVars(which = "poller" /\ QueryServer(s))

(* The filter's timer fires every minute and the reads end.                *)
ModFair == \A r \in CensorReplicas : WF_censVars(which = "filter" /\ CensorSteps(r))

(* The poll loop keeps running (setInterval, every wait has a timeout, the *)
(* container restarts) and a cached answer outlives its TTL only briefly.  *)
AnnouncerFair == WF_vars(which = "announcer" /\ Step) /\ WF_vars(which = "announcer" /\ Expire)

PollersSpec ==
  /\ PollersInit /\ [][PollersNext]_pollersVars
  /\ OpsFair /\ PackFair /\ FeedFair /\ PollFair /\ ModFair /\ AnnouncerFair

-----------------------------------------------------------------------------
(* The collector's offset never passes a line the web does not have        *)
(* (Feeds), a replica applies the filter edit it took (Moderation), one    *)
(* replica indexes at a time and no archive is served torn (MapPack).      *)
FilesSound == OffsetPosted /\ EditApplied /\ PackSound

(* What polling must come to, through the failures each part allows: again *)
(* and again both replicas agree on maintenance, on the name filter and on *)
(* the mirror's packs, the log's lines and the top scores have arrived,    *)
(* the live poll's round is over and the records are announced (the        *)
(* resting parts satisfy their conjuncts, the map pack's excepted).  And   *)
(* no pruning of the operator log takes its newest rows.                   *)
PollersWork ==
  /\ NewestKept
  /\ []<>(/\ MaintAgreed /\ FilterAgreed
          /\ which \in Pack1 => PackServed
          /\ FeedArrived /\ RoundOver /\ AllAnnounced)
=============================================================================
