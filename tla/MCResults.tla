------------------------------ MODULE MCResults ------------------------------
(***************************************************************************)
(* One run over four parts of the site that keep results: tournaments, the *)
(* monthly cup, replays with player identities, and moderation.  They      *)
(* share no variable here, so `which` picks the part a behaviour is about  *)
(* and the others rest in their initial state.                             *)
(***************************************************************************)
EXTENDS Tournament, MonthlyCup, Replays, Moderation

VARIABLE which
resultsVars == <<which, tourVars, cupVars, replayVars, modVars>>

NameKey == [n \in {"a1", "a2", "b"} |-> IF n = "b" THEN "b" ELSE "a"]

Parts == {"entry", "standing", "cup", "ghosts", "duels", "stores", "maps"}

(* A part that rests does so in one of its initial states; b is known.     *)
ResultsInit ==
  /\ which \in Parts /\ TourInit /\ CupInit /\ ReplayInit /\ ModInit
  /\ which # "ghosts" => gfile = 0
  /\ which \notin {"duels", "stores"} => rep["a"] = NoNick
  /\ canon["b"] = "b"

(* Joining by several servers and the page, with nothing to rank yet.      *)
EntryNext == /\ TourAdmin \/ TourPlayers \/ TourTick
             /\ UNCHANGED <<truns, tflight, tstand, tsweep>>

(* Runs, edits and freezes, with a single entrant; the series is the       *)
(* subject of MCSweeps.                                                    *)
StandingNext == /\ TourNext
                /\ \A t \in TIds : ~tour'[t].repeat
                /\ \A j \in TJoiners : tjoin'[j] # tjoin[j] => j = "j1"
                /\ \A c \in TCodes : tentry'[c] # tentry[c] => c = 1

(* Duels, and whoever else resolves nicks meanwhile, under a rebuild ...    *)
DuelsNext == /\ PeopleNext
             /\ \A d \in Resolvers :
                  /\ tx'[d].kind \in {"none", "duel", "race"}
                  /\ tx'[d].kind = "race" => tx'[d].nicks \subseteq {"a1", "a2"}
             /\ UNCHANGED clearing

(* ... and what is stored for the nicks of one person, without one.        *)
StoresNext == /\ PeopleNext
              /\ \A d \in Resolvers : tx'[d].kind # "duel" /\ tx'[d].nicks \subseteq {"a1", "a2"}
              /\ UNCHANGED rebuild

ResultsNext ==
  /\ UNCHANGED which
  /\ \/ /\ which = "entry" /\ EntryNext
        /\ UNCHANGED <<cupVars, replayVars, modVars>>
     \/ /\ which = "standing" /\ StandingNext
        /\ UNCHANGED <<cupVars, replayVars, modVars>>
     \/ which = "cup" /\ CupNext /\ UNCHANGED <<tourVars, replayVars, modVars>>
     \/ /\ which = "ghosts" /\ GhostNext
        /\ UNCHANGED <<tourVars, cupVars, peopleVars, modVars>>
     \/ /\ (which = "duels" /\ DuelsNext) \/ (which = "stores" /\ StoresNext)
        /\ UNCHANGED <<tourVars, cupVars, ghostVars, modVars>>
     \/ /\ which = "maps" /\ MapNext
        /\ UNCHANGED <<tourVars, cupVars, replayVars, censVars>>

ResultsSpec == ResultsInit /\ [][ResultsNext]_resultsVars

-----------------------------------------------------------------------------
(* What a contest promises, tournaments and the cup together: one entry    *)
(* per player though servers submit at once (Tournament), one edition a    *)
(* month, never starved, never blocked by itself (MonthlyCup).             *)
ContestSound ==
  /\ TourTypeOK /\ OneEntry
  /\ CupTypeOK /\ OneEditionPerMonth /\ SeriesNotStarved /\ NeverSelfBlocked

(* What was settled stays settled: final standings, made entries, runs in  *)
(* time (Tournament), decided months (MonthlyCup), stored replays that     *)
(* only get faster (Replays).                                              *)
ResultsStay ==
  /\ FinalIsFinal /\ MissedOnlyInFlight /\ EntryHonoured
  /\ TerminalStays
  /\ RowsOnlyFaster
=============================================================================
