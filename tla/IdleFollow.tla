----------------------------- MODULE IdleFollow -----------------------------
(***************************************************************************)
(* What a server without players does with its map (hrace/maprotate.as):   *)
(* it joins the map of the peer with the most people on it, once that peer *)
(* has held steady, and cycles through the maps when the mesh is quiet.    *)
(* No packet is exchanged about it: a server decides from the rows its     *)
(* peers publish, a memory of them that outlasts a map load, and globals   *)
(* that every map load of its own forgets.                                 *)
(*                                                                         *)
(* Abstractions.  Clocks count ticks up to the limit they are compared     *)
(* with; every server thinks once a tick.  The players of a peer that      *)
(* loads a map are not heard of; its old map stands for a while.  A passed *)
(* mesh vote (MeshVote) reaches every server at once.                      *)
(***************************************************************************)
EXTENDS Integers, FiniteSets, FiniteSetsExt

CONSTANTS Boxes,        \* servers, by the order of their tags
          FlMaps, FlHome,
          NotHere,      \* <<box, map>>: not installed or blocked there
          FollowDelay, FollowGrace, RotateAfter,  \* in ticks
          LoadTicks,    \* a map load takes at most this long
          PeerTicks,    \* how long a silent peer is kept (PEER_TTL_MS)
          MaxPeople,    \* bound
          MaxVisits     \* bound: what players do

ASSUME IdleFollowAssumption ==
  /\ Boxes \subseteq Nat \ {0} /\ FlHome \in FlMaps /\ NotHere \subseteq Boxes \X FlMaps
  /\ {FollowDelay, RotateAfter, LoadTicks, PeerTicks, MaxPeople, MaxVisits} \subseteq Nat /\ FollowGrace \in Nat
  /\ LoadTicks < FollowGrace

VARIABLES people,     \* [box -> players on it]
          flMap,      \* [box -> mapname]
          loads,      \* [box -> ticks it has been loading, or -1]
          left,       \* [box -> the map it is loading away from, or ""]
          exit,       \* [box -> the map after POSTMATCH (randmap_passed), or ""]
          armed,      \* [box -> map a mesh vote will load (mvSwitching), or ""]
          memory,     \* [box -> [peer -> headcount and age of the last sighting]]
          target,     \* [box -> peer and map serving out the debounce, and for how long]
          idle,       \* [box -> ticks on the idle clock, or -1]
          done,       \* boxes that have thought in this tick
          visits,
          whole,      \* history: boxes occupied and heard for the whole tick so far
          silent,     \* history: [box -> ticks since it was so for a whole tick]
          up,         \* history: [box -> ticks since its load]
          move        \* history: the last decision of an empty box in this tick

flVars == <<people, flMap, loads, left, exit, armed, memory, target, idle, done, visits,
            whole, silent, up, move>>
flHistory == <<whole, silent, up, move>>

NoOne == [n |-> 0, age |-> 0]
NoTarget == [tag |-> 0, map |-> "", age |-> 0]
NoMove == [kind |-> "none", loud |-> {}, up |-> 0]

Loading(s) == loads[s] >= 0
Heard(t) == ~Loading(t)
CanLoad(s, m) == <<s, m>> \notin NotHere

-----------------------------------------------------------------------------
(* RACE_FollowThink and RACE_IdleRotateThink.                              *)

MutObserve(s) ==
  [t \in Boxes \ {s} |-> IF people[t] > 0 /\ Heard(t) THEN [n |-> people[t], age |-> 0] ELSE NoOne]

\* Fold the roster into the memory and forget peers unseen for the grace.
Observe(s) ==
  [t \in Boxes \ {s} |->
     IF people[t] > 0 /\ Heard(t) THEN [n |-> people[t], age |-> 0]
     ELSE IF memory[s][t].age > FollowGrace THEN NoOne ELSE memory[s][t]]

BestPeer(known) ==
  LET some == {t \in DOMAIN known : known[t].n > 0}
      most == {t \in some : \A u \in some : known[u].n <= known[t].n}
  IN IF some = {} THEN 0 ELSE Min(most)

\* What the mesh has on record; it forgets a peer only after a while.
PeerMap(t) == IF Heard(t) THEN flMap[t] ELSE IF loads[t] < PeerTicks THEN left[t] ELSE ""

Decide(s, kind, m) ==
  /\ exit' = [exit EXCEPT ![s] = m]
  /\ move' = [kind |-> kind, up |-> up[s],
              loud |-> {t \in Boxes \ {s} : people[t] > 0 /\ silent[t] < Min({FollowGrace, up[s]})}]

Occupied(s) ==
  /\ people[s] > 0
  /\ target' = [target EXCEPT ![s] = NoTarget] /\ idle' = [idle EXCEPT ![s] = -1]
  /\ UNCHANGED <<exit, move>>

\* Mutant: the debounce starts over at every look.
MutFollow(s, best) ==
  /\ people[s] = 0 /\ (armed[s] # "" \/ best # 0)
  /\ LET m == PeerMap(best)
     IN IF armed[s] # "" \/ m = "" THEN UNCHANGED <<target, exit, move>>
        ELSE /\ target' = [target EXCEPT ![s] = [tag |-> best, map |-> m, age |-> 0]]
             /\ UNCHANGED <<exit, move>>
  /\ UNCHANGED idle

\* Somebody plays somewhere: wait, watch or follow; the rotation is held.
Follow(s, best) ==
  /\ people[s] = 0 /\ (armed[s] # "" \/ best # 0)
  /\ LET m == PeerMap(best)
         steady == target[s].tag = best /\ target[s].map = m
         go == steady /\ m # flMap[s] /\ CanLoad(s, m) /\ target[s].age >= FollowDelay
     IN IF armed[s] # "" \/ m = "" THEN UNCHANGED <<target, exit, move>>
        ELSE /\ target' = IF steady THEN target
                          ELSE [target EXCEPT ![s] = [tag |-> best, map |-> m, age |-> 0]]
             /\ IF go THEN Decide(s, "follow", m) ELSE UNCHANGED <<exit, move>>
  /\ UNCHANGED idle

\* The clock runs on while the rotation is held; only a visitor resets it.
Rotate(s, best) ==
  /\ people[s] = 0 /\ armed[s] = "" /\ best = 0
  /\ target' = [target EXCEPT ![s] = NoTarget]
  /\ LET pool == {m \in FlMaps \ {flMap[s]} : CanLoad(s, m)} IN
     IF idle[s] < RotateAfter
     THEN idle' = [idle EXCEPT ![s] = Max({@, 0})] /\ UNCHANGED <<exit, move>>
     ELSE IF pool = {} THEN idle' = [idle EXCEPT ![s] = 0] /\ UNCHANGED <<exit, move>>
     ELSE \E m \in pool : Decide(s, "rotate", m) /\ UNCHANGED idle

IdleRotateThink(s) ==
  /\ s \notin done /\ done' = done \cup {s}
  /\ ~Loading(s) /\ exit[s] = ""
  /\ LET known == Observe(s) IN
     /\ memory' = [memory EXCEPT ![s] = known]
     /\ Occupied(s) \/ Follow(s, BestPeer(known)) \/ Rotate(s, BestPeer(known))
  /\ UNCHANGED <<people, flMap, loads, left, armed, visits, whole, silent, up>>

-----------------------------------------------------------------------------
(* Map loads.  The globals start over.                                     *)

Forgotten(s) ==
  /\ memory' = [memory EXCEPT ![s] = [t \in Boxes \ {s} |-> NoOne]]
  /\ target' = [target EXCEPT ![s] = NoTarget] /\ idle' = [idle EXCEPT ![s] = -1]
  /\ exit' = [exit EXCEPT ![s] = ""] /\ armed' = [armed EXCEPT ![s] = ""]

BeginLoad(s, m) ==
  /\ ~Loading(s) /\ m # ""
  /\ flMap' = [flMap EXCEPT ![s] = m] /\ loads' = [loads EXCEPT ![s] = 0]
  /\ left' = [left EXCEPT ![s] = flMap[s]]
  /\ Forgotten(s)
  /\ done' = done \ {s}
  /\ whole' = whole \ {s} /\ up' = [up EXCEPT ![s] = 0]
  /\ UNCHANGED <<people, visits, silent, move>>

\* GT_MatchStateFinished(WAITEXIT), or the switch of a passed mesh vote.
MatchExit(s) == BeginLoad(s, exit[s]) \/ BeginLoad(s, armed[s])

EndLoad(s) ==
  /\ Loading(s) /\ loads' = [loads EXCEPT ![s] = -1] /\ left' = [left EXCEPT ![s] = ""]
  /\ UNCHANGED <<people, flMap, exit, armed, memory, target, idle, done, visits>>
  /\ UNCHANGED flHistory

-----------------------------------------------------------------------------
(* The players, and time.                                                  *)

Visit(s) ==
  /\ visits < MaxVisits /\ visits' = visits + 1
  /\ \/ people[s] < MaxPeople /\ people' = [people EXCEPT ![s] = @ + 1] /\ UNCHANGED whole
     \/ /\ people[s] > 0 /\ people' = [people EXCEPT ![s] = @ - 1]
        /\ whole' = IF people[s] = 1 THEN whole \ {s} ELSE whole
  /\ UNCHANGED <<flMap, loads, left, exit, armed, memory, target, idle, done, silent, up, move>>

\* The players on a server change its map.
Steer(s, m) ==
  /\ visits < MaxVisits /\ visits' = visits + 1
  /\ people[s] > 0 /\ ~Loading(s) /\ exit[s] = "" /\ m # flMap[s] /\ CanLoad(s, m)
  /\ exit' = [exit EXCEPT ![s] = m]
  /\ UNCHANGED <<people, flMap, loads, left, armed, memory, target, idle, done>> /\ UNCHANGED flHistory

\* A mesh vote passes: RACE_MeshVoteArmSwitch on every server.
VotePasses(m) ==
  /\ visits < MaxVisits /\ visits' = visits + 1
  /\ armed' = [s \in Boxes |-> IF ~Loading(s) /\ m # flMap[s] /\ CanLoad(s, m) THEN m ELSE armed[s]]
  /\ UNCHANGED <<people, flMap, loads, left, exit, memory, target, idle, done>> /\ UNCHANGED flHistory

\* A tick passes when every server has thought, or is on its way out.
FlTick ==
  /\ \A s \in Boxes : s \in done \/ Loading(s)
  /\ \A s \in Boxes : exit[s] = "" /\ armed[s] = "" /\ loads[s] < LoadTicks
  /\ loads' = [s \in Boxes |-> IF Loading(s) THEN loads[s] + 1 ELSE -1]
  /\ memory' = [s \in Boxes |-> [t \in Boxes \ {s} |->
        IF memory[s][t].n = 0 THEN NoOne
        ELSE [memory[s][t] EXCEPT !.age = Min({@ + 1, FollowGrace + 1})]]]
  /\ target' = [s \in Boxes |-> IF target[s].tag = 0 THEN NoTarget
                                ELSE [target[s] EXCEPT !.age = Min({@ + 1, FollowDelay})]]
  /\ idle' = [s \in Boxes |-> IF idle[s] = -1 THEN -1 ELSE Min({idle[s] + 1, RotateAfter})]
  /\ done' = {}
  /\ silent' = [t \in Boxes |-> IF t \in whole THEN 0 ELSE Min({silent[t] + 1, FollowGrace})]
  /\ whole' = {t \in Boxes : people[t] > 0 /\ ~Loading(t)}
  /\ up' = [s \in Boxes |-> IF Loading(s) THEN 0 ELSE Min({up[s] + 1, Max({FollowGrace, FollowDelay})})]
  /\ move' = NoMove
  /\ UNCHANGED <<people, flMap, left, exit, armed, visits>>

FlInit ==
  /\ people = [s \in Boxes |-> 0] /\ flMap = [s \in Boxes |-> FlHome]
  /\ loads = [s \in Boxes |-> -1] /\ left = [s \in Boxes |-> ""] /\ exit = [s \in Boxes |-> ""] /\ armed = [s \in Boxes |-> ""]
  /\ memory = [s \in Boxes |-> [t \in Boxes \ {s} |-> NoOne]]
  /\ target = [s \in Boxes |-> NoTarget] /\ idle = [s \in Boxes |-> -1]
  /\ done = {} /\ visits = 0
  /\ whole = {} /\ silent = [t \in Boxes |-> FollowGrace] /\ up = [s \in Boxes |-> 0] /\ move = NoMove

FlBoxes == FlTick \/ \E s \in Boxes : IdleRotateThink(s) \/ MatchExit(s) \/ EndLoad(s)
FlPeople == (\E s \in Boxes : Visit(s) \/ \E m \in FlMaps : Steer(s, m)) \/ \E m \in FlMaps : VotePasses(m)
FlNext == FlBoxes \/ FlPeople

FlSpec == FlInit /\ [][FlNext]_flVars

-----------------------------------------------------------------------------
(* No server wanders off to a random map while somebody plays on the mesh, *)
(* map loads of the busy server included: it was not heard for the whole   *)
(* of a tick within the grace since this server's own load.                *)
RotateOnlyQuiet == move.kind = "rotate" => move.loud = {}

(* The debounce is a rate limit: a server that follows has been up for the *)
(* delay, whatever its target did.                                         *)
FollowRate == move.kind = "follow" => move.up >= FollowDelay

FollowSound == RotateOnlyQuiet /\ FollowRate

(* ... and why: a peer that was heard within the grace is in the memory of *)
(* whoever has been up since, with the age of its last sighting or a       *)
(* younger one; a load that makes a server forget makes it think at once.  *)
FlTyped ==
  /\ people \in [Boxes -> 0..MaxPeople] /\ loads \in [Boxes -> Int] /\ done \subseteq Boxes
  /\ left \in [Boxes -> FlMaps \cup {""}]
  /\ exit \in [Boxes -> FlMaps \cup {""}] /\ armed \in [Boxes -> FlMaps \cup {""}]
  /\ DOMAIN memory = Boxes
  /\ \A s \in Boxes : memory[s] \in [Boxes \ {s} -> [n : 0..MaxPeople, age : Nat]]
  /\ target \in [Boxes -> [tag : Boxes \cup {0}, map : FlMaps \cup {""}, age : Nat]]
  /\ silent \in [Boxes -> 0..FollowGrace] /\ up \in [Boxes -> Nat] /\ idle \in [Boxes -> Int]
  /\ flMap \in [Boxes -> FlMaps]
Remembers(s, t) ==
  LET seen == memory[s][t]
  IN /\ seen.n = 0 => silent[t] >= Min({FollowGrace, up[s]})
     /\ seen.n # 0 => seen.age <= silent[t] + 1
     /\ s \in done /\ t \in whole => seen.n # 0 /\ seen.age = 0
Blank(s) ==
  /\ s \notin done /\ up[s] = 0 /\ target[s] = NoTarget
  /\ \A t \in Boxes \ {s} : memory[s][t] = NoOne
FollowInv ==
  /\ FlTyped
  /\ \A t \in whole : t \in Boxes /\ people[t] > 0 /\ ~Loading(t)
  /\ \A s \in Boxes : Loading(s) => Blank(s)
  /\ \A s \in Boxes : \A t \in Boxes \ {s} : Remembers(s, t)
  /\ \A s \in Boxes : target[s].age <= up[s]
  /\ FollowSound

(* The network comes together: empty servers end up on the map of the      *)
(* server with the most people, by tag if two are equal, or hold theirs    *)
(* if they cannot load it.                                                 *)
Together ==
  LET busiest == BestPeer([t \in Boxes |-> [n |-> people[t], age |-> 0]])
  IN busiest # 0 => \A s \in Boxes : people[s] > 0 \/ flMap[s] = flMap[busiest] \/ ~CanLoad(s, flMap[busiest])
=============================================================================
