----------------------------- MODULE MonthlyCup -----------------------------
(***************************************************************************)
(* The automatic Monthly Cup: scheduleMonthlyEdition, run by the sweep of  *)
(* every replica, deciding once per month whether an edition is put on the *)
(* calendar; the decision table tournament_auto_period; and what operators *)
(* may do meanwhile (book the slot by hand, squat the slug, cancel or      *)
(* delete the edition, force a skipped month).  Each step of a replica is  *)
(* one query or one transaction of the function, in the code's order.      *)
(*                                                                         *)
(* Time counts thirds of a month: 3k before the window of month k opens,   *)
(* 3k+1 while it is open, 3k+2 after it has closed.  A pool is one map     *)
(* (MONTHLY_POOL_SIZE = MONTHLY_MIN_POOL = 1); what the previous month's   *)
(* finishes rank first is any map, or none (a thin month).  The dry run of *)
(* the admin page writes nothing and is not an action.                     *)
(***************************************************************************)
EXTENDS Naturals, FiniteSets, FiniteSetsExt

CONSTANTS Months,         \* 0..n
          CupMaps,        \* maps that may rank first
          CupReplicas,
          MaxSkipStreak,  \* MONTHLY_MAX_SKIP_STREAK
          MaxOperator     \* bound on what operators do

ASSUME CupAssumption ==
  /\ IsFiniteSet(Months) /\ Months = 0..(Cardinality(Months) - 1) /\ Months # {}
  /\ MaxSkipStreak \in Nat /\ MaxOperator \in Nat

VARIABLES mnow,    \* the clock
          mrow,    \* tournament_auto_period, by month
          mcup,    \* the month's edition
          mother,  \* per month: what else is on the calendar
          mpass,   \* each replica's pass
          mops,    \* operator actions so far
          mmade    \* ghost: editions ever created per month, months whose row was lost

cupVars == <<mnow, mrow, mcup, mother, mpass, mops, mmade>>

NoMap == "none"
Terminal == {"scheduled", "skipped_overlap", "skipped_thin", "cancelled"}
Skips == {"skipped_overlap", "skipped_thin"}
NoRow == [decision |-> "none", force |-> FALSE, edition |-> FALSE]
NoPass == [pc |-> "idle", k |-> 0, forced |-> FALSE, carry |-> FALSE, decision |-> "none", pool |-> NoMap]

Period(now) == now \div 3
WindowOpen(k, now) == now > 3 * k

\* monthlySeriesPrevPool: the last edition that was not cancelled.
PrevPool(k) ==
  LET ran == {j \in Months : j < k /\ mcup[j].status \in {"published", "finalized"}}
  IN IF ran = {} THEN NoMap ELSE mcup[Max(ran)].pool

\* monthlySkipStreak: consecutive skipped months before k, a month without a
\* row ending the walk.
Skipped(j) == \/ mrow[j].decision \in Skips
              \/ mrow[j].decision = "forced" /\ ~mrow[j].edition
SkipStreak(k) ==
  Max({n \in 0..k : \A j \in (k - n)..(k - 1) : Skipped(j)})

\* decideMonthlyPool.
DecideMonthlyPool(top, prevPool, streak, forced) ==
  CASE top = NoMap -> "skipped_thin"
    [] top # NoMap /\ top = prevPool /\ ~forced ->
         IF MaxSkipStreak > 0 /\ streak >= MaxSkipStreak THEN "forced" ELSE "skipped_overlap"
    [] OTHER -> IF forced THEN "forced" ELSE "scheduled"

-----------------------------------------------------------------------------
(* One pass of a replica.                                                  *)

Continue(r, rec) == mpass' = [mpass EXCEPT ![r] = rec]
Return(r) == mpass' = [mpass EXCEPT ![r] = NoPass]
ReadOnly == UNCHANGED <<mnow, mrow, mcup, mother, mops, mmade>>

\* now, the period and its row; nothing to do once the window is open or the
\* decision is terminal.  A force is read from the decision or the detail.
PassStart(r) ==
  LET k == Period(mnow) IN
  /\ mpass[r].pc = "idle" /\ k \in Months
  /\ ~WindowOpen(k, mnow) /\ mrow[k].decision \notin Terminal
  /\ Continue(r, [NoPass EXCEPT !.pc = "holder", !.k = k, !.carry = mrow[k].force,
                    !.forced = mrow[k].decision = "forced" \/ mrow[k].force])
  /\ ReadOnly

\* Who holds the slug: our own edition is adopted, a squatter ends the pass.
PassHolder(r) ==
  LET k == mpass[r].k IN
  /\ mpass[r].pc = "holder"
  /\ IF mother[k].squatter THEN Return(r)
     ELSE IF mcup[k].status # "none"
     THEN Continue(r, [mpass[r] EXCEPT !.pc = "record",
            !.decision = IF mcup[k].status = "cancelled" THEN "cancelled" ELSE "scheduled"])
     ELSE Continue(r, [mpass[r] EXCEPT !.pc = "blockers"])
  /\ ReadOnly

\* What overlaps the window: our own edition, made by a peer meanwhile, is
\* adopted; anything else blocks the month.
PassBlockers(r) ==
  LET k == mpass[r].k IN
  /\ mpass[r].pc = "blockers"
  /\ IF mcup[k].status \in {"published", "finalized"}
     THEN Continue(r, [mpass[r] EXCEPT !.pc = "record", !.decision = "scheduled"])
     ELSE IF mother[k].booked
     THEN Continue(r, [mpass[r] EXCEPT !.pc = "record", !.decision = "blocked"])
     ELSE Continue(r, [mpass[r] EXCEPT !.pc = "decide"])
  /\ ReadOnly

\* The candidates of the previous month, the previous pool and the streak.
PassDecide(r) ==
  LET q == mpass[r] IN
  /\ q.pc = "decide"
  /\ \E top \in CupMaps \cup {NoMap} :
       LET d == DecideMonthlyPool(top, PrevPool(q.k), SkipStreak(q.k), q.forced)
       IN Continue(r, [q EXCEPT !.pc = IF d \in Skips THEN "record" ELSE "claim", !.decision = d, !.pool = top])
  /\ ReadOnly

\* recordAutoPeriod: read the prior row, leave a terminal one alone ...
RecordRead(r) ==
  /\ mpass[r].pc = "record"
  /\ IF mrow[mpass[r].k].decision \in Terminal THEN Return(r)
     ELSE Continue(r, [mpass[r] EXCEPT !.pc = "upsert"])
  /\ ReadOnly

\* ... then the upsert, whose WHERE leaves a terminal row alone again.  The
\* detail is replaced, so a force survives only if this pass had read it: one
\* recorded in between is lost, whatever the comment there says.
RecordWrite(r) ==
  LET q == mpass[r] IN
  /\ q.pc = "upsert"
  /\ mrow' = IF mrow[q.k].decision \in Terminal THEN mrow
             ELSE [mrow EXCEPT ![q.k] = [decision |-> q.decision, force |-> q.carry,
                                         edition |-> q.decision \in {"scheduled", "cancelled"}]]
  /\ Return(r)
  /\ UNCHANGED <<mnow, mcup, mother, mops, mmade>>

\* The claim, the tournament, its pool and the link back, in one transaction;
\* a lost claim, a taken slug or an overlap rolls everything back.
MutClaimable(k) == TRUE

Claimable(k) == mrow[k].decision \in {"none", "blocked", "forced"}

PassClaim(r) ==
  LET q == mpass[r] IN
  /\ q.pc = "claim"
  /\ IF Claimable(q.k) /\ ~mother[q.k].squatter /\ mcup[q.k].status = "none" /\ ~mother[q.k].booked
     THEN /\ mrow' = [mrow EXCEPT ![q.k] = [decision |-> "scheduled", force |-> q.carry, edition |-> TRUE]]
          /\ mcup' = [mcup EXCEPT ![q.k] = [status |-> "published", pool |-> q.pool]]
          /\ mmade' = [mmade EXCEPT ![q.k].n = @ + 1]
     ELSE UNCHANGED <<mrow, mcup, mmade>>
  /\ Return(r)
  /\ UNCHANGED <<mnow, mother, mops>>

\* A query throws or the replica is recreated: nothing is written.
PassFails(r) == mpass[r].pc # "idle" /\ Return(r) /\ ReadOnly

-----------------------------------------------------------------------------
(* Operators, and the calendar.                                            *)

Operator == mops < MaxOperator /\ mops' = mops + 1

\* forceMonthlyPeriod: only a skip, only before the window opens.
ForceMonthlyPeriod(k) ==
  /\ Operator /\ ~WindowOpen(k, mnow) /\ mrow[k].decision \in Skips
  /\ mrow' = [mrow EXCEPT ![k].decision = "forced", ![k].force = TRUE]
  /\ UNCHANGED <<mnow, mcup, mother, mpass, mmade>>

\* A hand-made tournament takes the slot (the exclusion constraint refuses it
\* when the edition is there), or gives it up again.
BookSlot(k) ==
  /\ Operator
  /\ mother[k].booked \/ mcup[k].status \in {"none", "cancelled"}
  /\ mother' = [mother EXCEPT ![k].booked = ~@]
  /\ UNCHANGED <<mnow, mrow, mcup, mpass, mmade>>

\* A tournament with the month's slug elsewhere on the calendar.
SquatSlug(k) ==
  /\ Operator /\ (mother[k].squatter \/ mcup[k].status = "none")
  /\ mother' = [mother EXCEPT ![k].squatter = ~@]
  /\ UNCHANGED <<mnow, mrow, mcup, mpass, mmade>>

\* setTournamentStatus and deleteTournament on the month's edition.
CancelEdition(k) ==
  /\ Operator /\ mcup[k].status = "published"
  /\ mcup' = [mcup EXCEPT ![k].status = "cancelled"]
  /\ UNCHANGED <<mnow, mrow, mother, mpass, mmade>>

DeleteEdition(k) ==
  /\ Operator /\ mcup[k].status # "none"
  /\ mcup' = [mcup EXCEPT ![k] = [status |-> "none", pool |-> NoMap]]
  /\ mrow' = [mrow EXCEPT ![k].edition = FALSE]
  /\ UNCHANGED <<mnow, mother, mpass, mmade>>

\* The decision row is lost (a partial restore, a manual delete).
LoseRow(k) ==
  /\ Operator /\ mrow[k].decision # "none" /\ ~WindowOpen(k, mnow)
  /\ mrow' = [mrow EXCEPT ![k] = NoRow]
  /\ mmade' = [mmade EXCEPT ![k].lost = TRUE]
  /\ UNCHANGED <<mnow, mcup, mother, mpass>>

\* Time passes; an edition whose window has closed is finalized (the other
\* half of the sweep).  A pass does not last from one month into the next.
CupTick ==
  /\ mnow + 1 < 3 * Cardinality(Months)
  /\ mnow' = mnow + 1
  /\ (mnow' % 3 = 0) => \A r \in CupReplicas : mpass[r] = NoPass
  /\ mcup' = [k \in Months |-> IF mcup[k].status = "published" /\ mnow' >= 3 * k + 2
                               THEN [mcup[k] EXCEPT !.status = "finalized"] ELSE mcup[k]]
  /\ UNCHANGED <<mrow, mother, mpass, mops, mmade>>

-----------------------------------------------------------------------------
CupInit ==
  /\ mnow = 0 /\ mops = 0 /\ mrow = [k \in Months |-> NoRow]
  /\ mcup = [k \in Months |-> [status |-> "none", pool |-> NoMap]]
  /\ mother = [k \in Months |-> [booked |-> FALSE, squatter |-> FALSE]]
  /\ mpass = [r \in CupReplicas |-> NoPass]
  /\ mmade = [k \in Months |-> [n |-> 0, lost |-> FALSE]]

CupPass ==
  \E r \in CupReplicas : \/ PassStart(r) \/ PassHolder(r) \/ PassBlockers(r) \/ PassDecide(r)
                         \/ RecordRead(r) \/ RecordWrite(r) \/ PassClaim(r) \/ PassFails(r)

CupOperator ==
  \E k \in {Period(mnow)} : \/ ForceMonthlyPeriod(k) \/ BookSlot(k) \/ SquatSlug(k)
                            \/ CancelEdition(k) \/ DeleteEdition(k) \/ LoseRow(k)

CupNext == CupPass \/ CupOperator \/ CupTick

CupSpec == CupInit /\ [][CupNext]_cupVars

-----------------------------------------------------------------------------
Decisions == Terminal \cup {"none", "blocked", "forced"}
CupRows == [decision : Decisions, force : BOOLEAN, edition : BOOLEAN]
CupPasses == [pc : {"idle", "holder", "blockers", "decide", "record", "upsert", "claim"},
              k : Months, forced : BOOLEAN, carry : BOOLEAN, decision : Decisions, pool : CupMaps \cup {NoMap}]
CupTypeOK ==
  /\ mnow \in 0..(3 * Cardinality(Months)) /\ mops \in 0..MaxOperator
  /\ mrow \in [Months -> CupRows]
  /\ mcup \in [Months -> [status : {"none", "published", "finalized", "cancelled"}, pool : CupMaps \cup {NoMap}]]
  /\ mother \in [Months -> [booked : BOOLEAN, squatter : BOOLEAN]]
  /\ mpass \in [CupReplicas -> CupPasses]
  /\ mmade \in [Months -> [n : Nat, lost : BOOLEAN]]

\* A month gets at most one edition, ever: two replicas deciding at once, a
\* cancelled or deleted edition, a force and a cleared booking do not make a
\* second one.  Only a month whose decision row was lost can be made again.
OneEditionPerMonth == \A k \in Months : mmade[k].n > 1 => mmade[k].lost

\* A terminal decision is never downgraded; only an operator's force reopens
\* one, and only a skip (or the row is lost).
TerminalStays ==
  [][\A k \in Months : mrow[k].decision \in Terminal /\ mrow'[k].decision # mrow[k].decision =>
       \/ mrow[k].decision \in Skips /\ mrow'[k] = [mrow[k] EXCEPT !.decision = "forced", !.force = TRUE]
       \/ mrow'[k] = NoRow]_cupVars

\* A month never blocks itself: no month whose own edition is on the calendar
\* is on record as blocked (its row was lost, if it is), although a pass that
\* saw a booking may write its verdict after the booking has gone and a peer
\* has made the edition.
NeverSelfBlocked ==
  \A k \in Months : mrow[k].decision = "blocked" /\ mcup[k].status \in {"published", "finalized"}
                      => mmade[k].lost

\* The overlap rule cannot starve the series: never more than MaxSkipStreak
\* months in a row are skipped for sharing a map with the previous edition.
SeriesNotStarved ==
  \A k \in Months : k >= MaxSkipStreak =>
     \E j \in (k - MaxSkipStreak)..k : mrow[j].decision # "skipped_overlap"

(* ... and why: a month is decided before the next one, by a pass that has *)
(* the months before it as they stay; an edition that was made is on       *)
(* record as scheduled, and a record that is scheduled is left alone.      *)
Overlapped(k) == mrow[k].decision = "skipped_overlap"
StreakEnds(k) == k >= MaxSkipStreak => \E j \in (k - MaxSkipStreak)..(k - 1) : ~Overlapped(j)
CupInv ==
  /\ CupTypeOK /\ mnow < 3 * Cardinality(Months)
  /\ \A k \in Months :
       /\ mmade[k].n >= 1 /\ ~mmade[k].lost => mrow[k].decision = "scheduled" /\ mmade[k].n = 1
       /\ mcup[k].status # "none" => mmade[k].n >= 1
       /\ k > Period(mnow) => mrow[k].decision = "none"
  /\ \A r \in CupReplicas :
       /\ mpass[r].pc # "idle" => mpass[r].k = Period(mnow)
       /\ mpass[r].pc \in {"record", "upsert"} /\ mpass[r].decision = "skipped_overlap" /\ MaxSkipStreak > 0
            => StreakEnds(mpass[r].k)
  /\ MaxSkipStreak > 0 => SeriesNotStarved
=============================================================================
