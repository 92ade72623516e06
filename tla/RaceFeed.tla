------------------------------ MODULE RaceFeed ------------------------------
(***************************************************************************)
(* What the `race` table promises to a reader that follows it by id: every *)
(* committed row has an id above every id committed before it ("improved   *)
(* records always get strictly higher ids", web/db.js), rows may disappear *)
(* (an improved run replaces its old row, an administrator deletes a map), *)
(* and a row that is not among the best never becomes one of them again by *)
(* an ingest.  Ingest.tla is shown to implement this specification; the    *)
(* announcer (Announcer.tla) relies on nothing else.                       *)
(***************************************************************************)
EXTENDS Integers, FiniteSets

CONSTANT MaxId      \* bound: the ids a model run may allocate are 1..MaxId

ASSUME MaxIdAssumption == MaxId \in Nat

VARIABLES
  race,   \* the ids present in the table `race`
  top,    \* those whose global_rank is at most the rank worth announcing
  used    \* the greatest id ever committed (config.next_race_id - 1)

feedVars == <<race, top, used>>

Ids == 1..MaxId

\* COALESCE(MAX(id), 0)
Greatest(S) == IF S = {} THEN 0 ELSE CHOOSE i \in S : \A j \in S : j <= i

FeedTypeOK == /\ race \subseteq 1..used
              /\ top \subseteq race
              /\ used \in 0..MaxId

FeedInit == race = {} /\ top = {} /\ used = 0

(* An ingest commits: rows with fresh ids appear, the rows they improve    *)
(* disappear, and the map is ranked again - older rows can only be beaten. *)
CommitRows ==
  \E new \in SUBSET ((used + 1)..MaxId), gone \in SUBSET race :
    /\ new # {}
    /\ race' = (race \ gone) \cup new
    /\ top' \in SUBSET ((top \ gone) \cup new)
    /\ used' = Greatest(new)

(* An administrator deletes a map and with it all its rows (web/admin.js). *)
DeleteMap ==
  \E gone \in SUBSET race :
    /\ gone # {}
    /\ race' = race \ gone
    /\ top' = top \ gone
    /\ UNCHANGED used

FeedNext == CommitRows \/ DeleteMap

FeedSpec == FeedInit /\ [][FeedNext]_feedVars
=============================================================================
