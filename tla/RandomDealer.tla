---------------------------- MODULE RandomDealer ----------------------------
(***************************************************************************)
(* The dealer of random_map: a route dealt piece by piece from a seed, a   *)
(* few pieces ahead of the player, backing up when it paints itself into a *)
(* corner.  The page's port (random-dealer.js) deals for a virtual player  *)
(* who visits every piece; a game server runs the same loop for real ones, *)
(* whose progress may jump (RACE_MetaTrackProgress reports the furthest    *)
(* piece near the player).  Both are here, drawing from one seed.          *)
(*                                                                         *)
(* Geometry is a grid: a piece fills the cell of its entry and hands over  *)
(* to the neighbouring cell in its exit heading, so two boxes are apart    *)
(* exactly when their cells differ; heights, weights and lengths are left  *)
(* out (every piece is one unit long).  The run-outs come in two sizes.    *)
(***************************************************************************)
EXTENDS Integers, Sequences, FiniteSets, SequencesExt

CONSTANTS Half,      \* the play box is (-Half..Half) x (-Half..Half)
          Ahead,     \* AHEAD
          MaxTiles,  \* MAX_TILES
          Target,    \* rs_meta_distance
          Budget,    \* REWIND_BUDGET
          Rolls,     \* values the generator may yield
          MaxRolls   \* bound on the draws followed

ASSUME DealerAssumption == Half \in Nat /\ Ahead \in Nat \ {0} /\ MaxTiles \in Nat \ {0, 1} /\ Budget \in Nat

VARIABLES seed,   \* the generator's output so far, the same for every dealer
          deal    \* the two dealers' routes

dealVars == <<seed, deal>>
Dealers == {"page", "server"}

\* The deck, in manifest order: how each piece turns the heading.
Tiles == <<[name |-> "straight", turn |-> 0], [name |-> "left", turn |-> 1], [name |-> "right", turn |-> 3]>>
Pad == <<0, 0>>
Begin == [at |-> <<1, 0>>, step |-> 0]

Ahead1(cell, step) ==
  CASE step = 0 -> <<cell[1] + 1, cell[2]>> [] step = 1 -> <<cell[1], cell[2] + 1>>
    [] step = 2 -> <<cell[1] - 1, cell[2]>> [] OTHER -> <<cell[1], cell[2] - 1>>

ExitOf(cursor, tile) ==
  LET step == (cursor.step + tile.turn) % 4 IN [at |-> Ahead1(cursor.at, step), step |-> step]

InsideBox(cell) == cell[1] \in (-Half)..Half /\ cell[2] \in (-Half)..Half

\* mutant: the platform is forgotten
MutBoxClear(d, cell) == \A i \in 1..(Len(d.placed) - 1) : cell \notin d.placed[i].cells
\* The platform is tested always, every placed piece but the mated one.
BoxClear(d, cell) ==
  cell # Pad /\ \A i \in 1..(Len(d.placed) - 1) : cell \notin d.placed[i].cells

Fits(d, cells) == \A cell \in cells : InsideBox(cell) /\ BoxClear(d, cell)

\* The pieces of the deck that fit at the cursor and leave room for another.
Candidates(d) ==
  {i \in DOMAIN Tiles : Fits(d, {d.cursor.at}) /\ InsideBox(ExitOf(d.cursor, Tiles[i]).at)}

Place(d, cells, next) ==
  [d EXCEPT !.placed = Append(d.placed, [cells |-> cells, from |-> d.cursor]), !.cursor = next]

Idle(d) == d.finished \/ Len(d.placed) - 1 - d.progress >= Ahead
Ending(d) == Len(d.placed) >= Target \/ Len(d.placed) >= MaxTiles - 1
Stuck(d) == Ending(d) \/ Candidates(d) = {}

\* Where a run-out fits; the roomier of the two if both do.
Long(d) == {d.cursor.at, Ahead1(d.cursor.at, d.cursor.step)}
Runouts(d) == {c \in {Long(d), {d.cursor.at}} : Fits(d, c)}
Runout(d) == IF Long(d) \in Runouts(d) THEN Long(d) ELSE {d.cursor.at}

\* Undo the last placement, but only one no player has reached.
MayRewind(d) == Len(d.placed) - 1 > d.progress + 1
Undone(d) ==
  [d EXCEPT !.placed = Front(d.placed), !.cursor = Last(d.placed).from, !.budget = d.budget - 1]

-----------------------------------------------------------------------------
(* One turn of extend()'s loop.                                            *)

\* pick() and deal(): one draw per pick that finds a candidate; it names the
\* candidate by its place among them.
Dealt(d, tile) == [Place(d, {d.cursor.at}, ExitOf(d.cursor, tile)) EXCEPT !.drawn = d.drawn + 1]

Extend(k, roll) ==
  LET d == deal[k]
      c == Candidates(d)
  IN /\ ~Idle(d) /\ ~Stuck(d)
     /\ IF d.drawn < Len(seed) THEN roll = seed[d.drawn + 1] /\ UNCHANGED seed
        ELSE Len(seed) < MaxRolls /\ seed' = Append(seed, roll)
     /\ \E i \in c : /\ Cardinality({j \in c : j < i}) = roll % Cardinality(c)
                    /\ deal' = [deal EXCEPT ![k] = Dealt(d, Tiles[i])]

TryFinish(k) ==
  LET d == deal[k] IN
  /\ ~Idle(d) /\ Stuck(d) /\ Runouts(d) # {}
  /\ deal' = [deal EXCEPT ![k] = [Place(d, Runout(d), d.cursor) EXCEPT !.finished = TRUE]]
  /\ UNCHANGED seed

Rewind(k) ==
  LET d == deal[k] IN
  /\ ~Idle(d) /\ Stuck(d) /\ Runouts(d) = {} /\ d.budget > 0 /\ MayRewind(d)
  /\ deal' = [deal EXCEPT ![k] = Undone(d)]
  /\ UNCHANGED seed

\* Walled in: the gate alone ends the run.
BareFinish(k) ==
  LET d == deal[k] IN
  /\ ~Idle(d) /\ Stuck(d) /\ Runouts(d) = {} /\ ~(d.budget > 0 /\ MayRewind(d))
  /\ deal' = [deal EXCEPT ![k].finished = TRUE, ![k].bare = TRUE]
  /\ UNCHANGED seed

\* Progress, and the next call of extend() with a fresh budget: the page
\* walks one piece at a time, a server's player may be seen further on.
Walk(k, to) ==
  LET d == deal[k] IN
  /\ Idle(d) /\ d.progress < Len(d.placed) - 1
  /\ to \in (d.progress + 1)..(Len(d.placed) - 1)
  /\ k = "page" => to = d.progress + 1
  /\ deal' = [deal EXCEPT ![k].progress = to, ![k].budget = Budget]
  /\ UNCHANGED seed

DealInit ==
  /\ seed = <<>>
  /\ deal = [k \in Dealers |-> [placed |-> <<>>, cursor |-> Begin, progress |-> -1, budget |-> Budget,
                                drawn |-> 0, finished |-> FALSE, bare |-> FALSE]]

DealStep(k) == \/ \E roll \in Rolls : Extend(k, roll)
               \/ TryFinish(k) \/ Rewind(k) \/ BareFinish(k)
               \/ \E to \in 0..MaxTiles : Walk(k, to)

DealNext == \E k \in Dealers : DealStep(k)

DealSpec == DealInit /\ [][DealNext]_dealVars

-----------------------------------------------------------------------------
DealTypeOK ==
  /\ seed \in Seq(Rolls)
  /\ \A k \in Dealers :
       /\ deal[k].progress \in -1..MaxTiles /\ deal[k].budget \in 0..Budget
       /\ deal[k].drawn \in 0..Len(seed) /\ deal[k].finished \in BOOLEAN /\ deal[k].bare \in BOOLEAN
       /\ Len(deal[k].placed) <= MaxTiles

\* A dealt route never runs through itself or through the platform the player
\* spawns on, however often the dealer has backed up; and it is never longer
\* than the entity budget.
RouteSound ==
  DealTypeOK /\ \A k \in Dealers : LET p == deal[k].placed IN
    \A i \in DOMAIN p : /\ Pad \notin p[i].cells
                        /\ \A j \in DOMAIN p : i # j => p[i].cells \cap p[j].cells = {}

\* Why: only the last piece is not tested against, and the way on from where
\* a piece was entered never leads back to it.
NotBack(a, b) == b.at # a.at /\ Ahead1(b.at, b.step) # a.at
Chained(d) == LET p == d.placed IN
  /\ \A i \in DOMAIN p : p[i].from.at \in p[i].cells
  /\ \A i \in 1..(Len(p) - 1) : NotBack(p[i].from, p[i + 1].from)
  /\ ~d.finished => /\ Len(p) < MaxTiles /\ \A i \in DOMAIN p : p[i].cells = {p[i].from.at}
                    /\ p # <<>> => NotBack(p[Len(p)].from, d.cursor)
DealInv == RouteSound /\ \A k \in Dealers : deal[k].progress < Len(deal[k].placed) /\ Chained(deal[k])

\* The floor is never taken out from under anyone: a piece a player has
\* reached, and the one after it, are never undone.
FloorKept ==
  [][\A k \in Dealers : LET p == deal[k].placed  q == deal'[k].placed IN
       Len(q) >= Len(p) \/ (Len(q) >= deal[k].progress + 2 /\ q = SubSeq(p, 1, Len(q)))]_dealVars
=============================================================================
