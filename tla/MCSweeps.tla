------------------------------ MODULE MCSweeps ------------------------------
(***************************************************************************)
(* One run over the work the database's rows make for somebody: table      *)
(* rebuilds, achievement passes, map jobs, recurring tournaments.  The     *)
(* parts share no variable here, so `which` picks the part a behaviour is  *)
(* about; the others rest, and only the chosen part's fairness is assumed. *)
(***************************************************************************)
EXTENDS Tournament, Aggregates, Achievements, AwardRules, Mapgen

VARIABLE which
sweepsVars == <<which, tourVars, aggVars, achVars, rulesVars, mgVars>>

Parts == {"tables", "awards", "rules", "pass", "mapgen", "series"}

\* One player has a time from before the finish log.
LegacyPairs == {<<"a", "m1">>}

SweepsInit ==
  /\ which \in Parts /\ TourInit /\ AggInit /\ AchInit /\ RulesInit /\ MgInit
  /\ which \notin {"rules", "pass"} => old = {}

(* The series of one recurring tournament: admin, sweep and clock.         *)
SeriesNext == TourAdmin \/ TourSweep \/ TourTick

\* While awards are passed out, everybody finishes the same map.
AwardingNext == TablesNext({"m1"}, {1}) \/ PassNext

SweepsNext ==
  /\ UNCHANGED which
  /\ \/ which = "tables" /\ AggNext /\ UNCHANGED <<achVars, rulesVars, mgVars, tourVars>>
     \/ which = "awards" /\ AchNext /\ UNCHANGED <<aggVars, rulesVars, mgVars, tourVars>>
     \/ /\ which = "rules" /\ TablesNext(RuleMaps, Measures)
        /\ UNCHANGED <<aggVars, achVars, mgVars, tourVars>>
     \/ which = "pass" /\ AwardingNext /\ UNCHANGED <<aggVars, achVars, mgVars, tourVars>>
     \/ which = "mapgen" /\ MgNext /\ UNCHANGED <<aggVars, achVars, rulesVars, tourVars>>
     \/ which = "series" /\ SeriesNext /\ UNCHANGED <<aggVars, achVars, rulesVars, mgVars>>

-----------------------------------------------------------------------------
(* Fairness, of the chosen part only.                                      *)

(* Timers fire, statements end, the orchestrator restarts containers.      *)
AggFair == /\ WF_aggVars(which = "tables" /\ AggTick)
           /\ \A r \in AggReplicas : WF_aggVars(which = "tables" /\ RefreshSteps(r))

(* Every armed timer fires, every statement ends, and a sender whose       *)
(* report was refused sends it again.                                      *)
AchFair == \A r \in AchReplicas : WF_achVars(which = "awards" /\ EvalSteps(r))

(* A worker polls every five seconds and every server every few minutes.   *)
MgFair == /\ \A w \in MgWorkers : WF_mgVars(which = "mapgen" /\ WorkerSteps(w))
          /\ \A s \in MgServers : WF_mgVars(which = "mapgen" /\ MapgenSync(s))

(* The interval timer fires again and again and a pass gets through.       *)
TourFair == \A r \in TReplicas : WF_tourVars(which = "series" /\ SweepTournaments(r))

SweepsSpec ==
  /\ SweepsInit /\ [][SweepsNext]_sweepsVars
  /\ AggFair /\ AchFair /\ MgFair /\ TourFair

-----------------------------------------------------------------------------
(* Passes are scheduled, owed and run once as the debounce promises        *)
(* (Achievements), and the rules a pass evaluates say what the profile     *)
(* page says (AwardRules).                                                 *)
AwardsSound == AchSound /\ (which = "rules" => RulesSound)

(* Published tables do not go back to an older read (Aggregates), a        *)
(* published map stays published (Mapgen), and nobody is awarded the same  *)
(* thing under two nicks (AwardRules).                                     *)
SweepsKeep == AggForward /\ PublishedStays /\ AwardOncePerPerson

(* What must happen in the end, through the failures each part allows:     *)
(* again and again the tables have caught up, every finish is awarded, no  *)
(* map job is open, no ended tournament waits for its freeze and no series *)
(* for its next edition.  (The resting parts satisfy their conjuncts.)     *)
SweepsEnd == []<>(CaughtUp /\ AllAwarded /\ NoJobOpen /\ NoneOverdue /\ SeriesGoesOn)
=============================================================================
