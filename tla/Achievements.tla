---- MODULE Achievements ----
(***************************************************************************)
(* The evaluation of achievements: the post-ingest debounce each replica   *)
(* runs (web/server.js doAchievementEval), the full-field pass claimed     *)
(* once a day (web/db.js achievementsDailySweep), the award insert and the *)
(* admin's operations on the definition.                                   *)
(*                                                                         *)
(* One repeatable definition with a daily window is modelled, the kind for *)
(* which the moment of evaluation matters: it is earned by a finish of the *)
(* day, its period key is the day (web/achievements.js windowSince,        *)
(* periodKey), and both are taken from the clock of the evaluation, not of *)
(* the finish.                                                             *)
(***************************************************************************)
EXTENDS Integers, FiniteSets

CONSTANTS AchReplicas, AchPlayers,
          MaxAchDay,      \* bound: the last day
          MaxAchFaults    \* bound: failed statements, dead processes, admin edits

ASSUME AchAssumption == MaxAchDay \in Nat /\ MaxAchFaults \in Nat

VARIABLES achday,     \* today (UTC)
          adef,       \* the definition: "none", "off" or "on"
          fin,        \* finish: pairs of a player and a day
          awards,     \* player_achievement: pairs of a player and a period
          sweepday,   \* config.ach_sweep_day
          sweeps,     \* how often each day's full-field pass was started
          lateclaim,  \* a claim was written after its day had ended
          missed,     \* finishes whose evaluation failed, was lost or came too late
          resend,     \* players whose committed report was refused: its sender will send it again
          achfaults,
          ach         \* per replica: the debounce's variables and the evaluation

achVars == <<achday, adef, fin, awards, sweepday, sweeps, lateclaim, missed, resend, achfaults, ach>>

AchDays == 0..MaxAchDay

(* now: the day the pass took from the clock; todo: the players of the pass. *)
IdleEval == [pend |-> {}, timer |-> FALSE, run |-> "idle", again |-> FALSE, todo |-> {},
             now |-> 0, defs |-> FALSE, memo |-> -1, told |-> {}]

(* A process starts with the evaluation it schedules fifteen seconds later. *)
FreshEval == [IdleEval EXCEPT !.timer = TRUE]

AchInit ==
  /\ achday = 0 /\ adef = "on" /\ fin = {} /\ awards = {} /\ sweepday = -1 /\ missed = {} /\ resend = {}
  /\ sweeps = [d \in AchDays |-> 0] /\ achfaults = 0 /\ lateclaim = FALSE
  /\ ach = [r \in AchReplicas |-> FreshEval]

ScheduleAchievementEval(s) == [s EXCEPT !.timer = TRUE]

(* What a pass that ends without awarding leaves behind. *)
Owed(ps) == {f \in fin \ awards : f[1] \in ps}

(* An ingest commits a finish: a new one (the first of the player's day), or a report  *)
(* sent again, which counts on the day it is sent.                                     *)
Commits(r, p) ==
  /\ p \notin ach[r].told
  /\ fin' = fin \cup {<<p, achday>>}
  /\ ach' = [ach EXCEPT ![r].told = @ \cup {p}]
  /\ UNCHANGED <<achday, adef, awards, sweepday, sweeps, lateclaim, missed, achfaults>>

FinishCommits(r, p) == <<p, achday>> \notin fin /\ Commits(r, p) /\ UNCHANGED resend
FinishResent(r, p) == p \in resend /\ Commits(r, p) /\ resend' = resend \ {p}

(* ... and its handler, after touchServer, queues the player. *)
Queued(s, p) == [s EXCEPT !.told = s.told \ {p}, !.pend = s.pend \cup {p}]

FinishQueued(r, p) ==
  /\ p \in ach[r].told
  /\ ach' = [ach EXCEPT ![r] = ScheduleAchievementEval(Queued(ach[r], p))]
  /\ UNCHANGED <<achday, adef, fin, awards, sweepday, sweeps, lateclaim, resend, missed, achfaults>>

(* touchServer fails: the request is answered 500 though its finish is there, and      *)
(* nobody is queued.  The sender sends it again, or it is gone by then.                *)
FinishRefused(r, p) ==
  /\ p \in ach[r].told /\ achfaults < MaxAchFaults
  /\ achfaults' = achfaults + 1
  /\ ach' = [ach EXCEPT ![r].told = @ \ {p}]
  /\ \/ resend' = resend \cup {p} /\ UNCHANGED missed
     \/ missed' = missed \cup Owed({p}) /\ UNCHANGED resend
  /\ UNCHANGED <<achday, adef, fin, awards, sweepday, sweeps, lateclaim>>

(* The timer: at most one pass runs; it takes the queue before it evaluates. *)
Fired(s) ==
  IF s.run # "idle" THEN [s EXCEPT !.timer = FALSE, !.again = TRUE]
  ELSE [s EXCEPT !.timer = FALSE, !.run = "ids", !.todo = s.pend, !.pend = {}, !.now = achday]

DoAchievementEval(r) ==
  /\ ach[r].timer
  /\ ach' = [ach EXCEPT ![r] = Fired(ach[r])]
  /\ UNCHANGED <<achday, adef, fin, awards, sweepday, sweeps, lateclaim, resend, missed, achfaults>>

(* The finally of doAchievementEval. *)
EvalDone(s) ==
  LET t == [s EXCEPT !.run = "idle", !.again = FALSE, !.todo = {}, !.now = 0, !.defs = FALSE]
  IN IF s.again THEN ScheduleAchievementEval(t) ELSE t

(* evaluateAchievements reads the active definitions ... *)
ReadDefinitions(r, from, to) ==
  /\ ach[r].run = from
  /\ ach' = [ach EXCEPT ![r].run = to, ![r].defs = (adef = "on")]
  /\ UNCHANGED <<achday, adef, fin, awards, sweepday, sweeps, lateclaim, resend, missed, achfaults>>

(* ... and inserts an award for everybody of the pass who qualifies; a    *)
(* definition deleted under it fails the foreign key.                      *)
Earned(s) == IF s.defs /\ adef # "none" THEN {f \in fin : f[1] \in s.todo /\ f[2] = s.now} ELSE {}

(* A finish is settled by the pass it was queued for, not by a daily one.  *)
Evaluate(r, from, s) ==
  /\ ach[r].run = from
  /\ awards' = awards \cup Earned(ach[r])
  /\ missed' = IF from = "award" THEN missed \cup (Owed(ach[r].todo) \ Earned(ach[r])) ELSE missed
  /\ ach' = [ach EXCEPT ![r] = s]
  /\ UNCHANGED <<achday, adef, fin, sweepday, sweeps, lateclaim, resend, achfaults>>

(* The sweep after it takes the day anew. *)
ToGate(s) == [s EXCEPT !.run = "gate", !.todo = {}, !.defs = FALSE, !.now = achday]

EvaluateIds(r) == \/ ReadDefinitions(r, "ids", "award")
                  \/ Evaluate(r, "award", ToGate(ach[r]))

(* A failed evaluation drops the ids it took; the sweep is still tried. *)
EvaluateIdsFails(r) ==
  /\ ach[r].run \in {"ids", "award"} /\ achfaults < MaxAchFaults
  /\ missed' = missed \cup Owed(ach[r].todo) /\ achfaults' = achfaults + 1
  /\ ach' = [ach EXCEPT ![r] = ToGate(ach[r])]
  /\ UNCHANGED <<achday, adef, fin, awards, sweepday, sweeps, lateclaim, resend>>

(* The daily sweep: a memo, a cheap read, then the claim under the lock. *)
Remember(s) == [s EXCEPT !.memo = s.now]
Gate(s) == IF s.memo = s.now THEN EvalDone(s)
           ELSE IF sweepday = s.now THEN EvalDone(Remember(s))
           ELSE [s EXCEPT !.run = "claim"]

SweepGate(r) ==
  /\ ach[r].run = "gate"
  /\ ach' = [ach EXCEPT ![r] = Gate(ach[r])]
  /\ UNCHANGED <<achday, adef, fin, awards, sweepday, sweeps, lateclaim, resend, missed, achfaults>>

(* The claim is written before the pass it is for. *)
WholeField(s) == [s EXCEPT !.run = "field", !.todo = AchPlayers]

SweepClaim(r) ==
  LET d == ach[r].now IN
  /\ ach[r].run = "claim"
  /\ IF sweepday = d
     THEN ach' = [ach EXCEPT ![r] = EvalDone(Remember(ach[r]))] /\ UNCHANGED <<sweepday, sweeps, lateclaim>>
     ELSE /\ sweepday' = d
          /\ sweeps' = [sweeps EXCEPT ![d] = sweeps[d] + 1]
          /\ lateclaim' = (lateclaim \/ d < achday)
          /\ ach' = [ach EXCEPT ![r] = WholeField(Remember(ach[r]))]
  /\ UNCHANGED <<achday, adef, fin, awards, missed, resend, achfaults>>

EvaluateField(r) == \/ ReadDefinitions(r, "field", "sweep")
                    \/ Evaluate(r, "sweep", EvalDone(ach[r]))

SweepFails(r) ==
  /\ ach[r].run \in {"gate", "claim", "field", "sweep"} /\ achfaults < MaxAchFaults
  /\ achfaults' = achfaults + 1
  /\ ach' = [ach EXCEPT ![r] = EvalDone(ach[r])]
  /\ UNCHANGED <<achday, adef, fin, awards, sweepday, sweeps, lateclaim, resend, missed>>

(* The process dies, with its queue, and is replaced.  Who was not answered sends his   *)
(* report again, if he is still there.                                                  *)
EvalCrash(r) ==
  /\ achfaults < MaxAchFaults /\ achfaults' = achfaults + 1
  /\ \E gone \in SUBSET ach[r].told :
       /\ missed' = missed \cup Owed(gone \cup ach[r].pend \cup
                                    (IF ach[r].run \in {"ids", "award"} THEN ach[r].todo ELSE {}))
       /\ resend' = resend \cup (ach[r].told \ gone)
  /\ ach' = [ach EXCEPT ![r] = FreshEval]
  /\ UNCHANGED <<achday, adef, fin, awards, sweepday, sweeps, lateclaim>>

(* createAchievement (inactive), setAchievementActive, deleteAchievement    *)
(* (only while nobody holds it).                                            *)
EditDefinition ==
  /\ achfaults < MaxAchFaults /\ achfaults' = achfaults + 1
  /\ \/ adef = "none" /\ adef' = "off"
     \/ adef = "off" /\ adef' = "on"
     \/ adef = "on" /\ adef' = "off"
     \/ adef # "none" /\ awards = {} /\ adef' = "none"
  /\ UNCHANGED <<achday, fin, awards, sweepday, sweeps, lateclaim, resend, missed, ach>>

(* revokeAward: the row goes; a later pass that finds the finish awards it again. *)
RevokeAward(f) ==
  /\ f \in awards /\ achfaults < MaxAchFaults
  /\ awards' = awards \ {f} /\ missed' = missed \cup {f} /\ achfaults' = achfaults + 1
  /\ UNCHANGED <<achday, adef, fin, sweepday, sweeps, lateclaim, resend, ach>>

AchMidnight ==
  /\ achday < MaxAchDay /\ achday' = achday + 1
  /\ UNCHANGED <<adef, fin, awards, sweepday, sweeps, lateclaim, resend, missed, achfaults, ach>>

EvalSteps(r) ==
  \/ \E p \in AchPlayers : FinishQueued(r, p) \/ FinishResent(r, p)
  \/ DoAchievementEval(r) \/ EvaluateIds(r) \/ SweepGate(r) \/ SweepClaim(r) \/ EvaluateField(r)

AchNext ==
  \/ \E r \in AchReplicas :
       \/ EvalSteps(r) \/ EvaluateIdsFails(r) \/ SweepFails(r) \/ EvalCrash(r)
       \/ \E p \in AchPlayers : FinishCommits(r, p) \/ FinishRefused(r, p)
  \/ EditDefinition \/ (\E f \in awards : RevokeAward(f)) \/ AchMidnight

(* A queued player has a pass to come: a timer, or a pass queued behind the running one. *)
PendingScheduled == \A r \in AchReplicas : ach[r].pend # {} => ach[r].timer \/ ach[r].again

(* A finish without its award is on its way through some replica's queue   *)
(* or pass, or its sender was refused and sends it again; otherwise its    *)
(* evaluation failed, was lost with a process or a sender, found the       *)
(* definition inactive, or began on a later day.                           *)
AwardOwed ==
  \A f \in fin \ (awards \cup missed) :
    \/ f[1] \in resend
    \/ \E r \in AchReplicas :
         \/ f[1] \in ach[r].told \cup ach[r].pend
         \/ f[1] \in ach[r].todo /\ ach[r].run \in {"ids", "award"}

(* The full-field pass of a day starts once over both replicas, as long as *)
(* no claim waits for the lock until its day is over.                      *)
SweepOnce == lateclaim \/ \A d \in AchDays : sweeps[d] <= 1

(* Every award rests on a finish of its own period. *)
AwardEarned == awards \subseteq fin

AchSpec == AchInit /\ [][AchNext]_achVars

AchSound == PendingScheduled /\ AwardOwed /\ SweepOnce /\ AwardEarned

(* Why a day is claimed once: no claim on time is of another day than the  *)
(* last one claimed, and no pass has a day that has not come.              *)
AchTypeOK ==
  /\ achday \in AchDays /\ sweepday \in -1..achday /\ sweeps \in [AchDays -> Nat] /\ lateclaim \in BOOLEAN
  /\ resend \subseteq AchPlayers
  /\ ach \in [AchReplicas -> [pend : SUBSET AchPlayers, timer : BOOLEAN,
                              run : {"idle", "ids", "award", "gate", "claim", "field", "sweep"},
                              again : BOOLEAN, todo : SUBSET AchPlayers, now : AchDays, defs : BOOLEAN,
                              memo : Int, told : SUBSET AchPlayers]]
AchInv ==
  /\ AchTypeOK /\ AchSound
  /\ \A r \in AchReplicas : ach[r].now <= achday
  /\ lateclaim \/ \A d \in AchDays : sweeps[d] > 0 => d <= sweepday

(* Every finish is awarded in the end, or is one of those: again and again. *)
AllAwarded == fin \subseteq awards \cup missed
====
