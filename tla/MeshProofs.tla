----------------------------- MODULE MeshProofs -----------------------------
(***************************************************************************)
(* What the idle servers' choice of a map and the mesh vote promise for    *)
(* every number of servers, maps and players and every value of the        *)
(* delays.                                                                 *)
(*                                                                         *)
(* The idle servers: a peer with people on it that was heard for a whole   *)
(* tick is in the memory of every server that thought in that tick, and    *)
(* stays there for the grace (Remembers); a server that thinks it is alone *)
(* so has heard nobody since its own load, or nobody for the grace.        *)
(*                                                                         *)
(* The mesh vote: whoever had the OPEN of a vote follows it until its      *)
(* master has decided, which it does no later than its followers expire,   *)
(* and the cooldown holds them for the rest of that tick (Aware).  While a *)
(* vote runs nobody's yes is forgotten, so that what its master adds up,   *)
(* one subtotal of each server, is no more than was cast (Backed).         *)
(***************************************************************************)
EXTENDS MeshVote, IdleFollow, SumTheorems

-----------------------------------------------------------------------------
(* Least and greatest numbers.                                             *)

\* A set of natural numbers has a least one.
LEMMA LeastOf ==
  ASSUME NEW S \in SUBSET Nat, S # {}
  PROVE  Min(S) \in S /\ \A y \in S : Min(S) <= y
<1>1. IsWellFoundedOn(OpToRel(<, Nat), Nat) BY NatLessThanWellFounded
<1>2. PICK x \in S : \A y \in S : ~(<<y, x>> \in OpToRel(<, Nat)) BY <1>1, WFMin
<1>3. ASSUME NEW y \in S PROVE x <= y
  <2>1. x \in Nat /\ y \in Nat /\ ~(y < x) BY <1>2 DEF OpToRel
  <2> QED BY <2>1
<1> QED BY <1>3 DEF Min

\* Min and Max of two numbers, as the models use them.
LEMMA MinOfTwo ==
  ASSUME NEW a \in Nat, NEW b \in Nat
  PROVE  Min({a, b}) = IF a <= b THEN a ELSE b
<1>1. Min({a, b}) \in {a, b} /\ \A y \in {a, b} : Min({a, b}) <= y BY LeastOf
<1> QED BY <1>1

\* The same for integers, without saying which.
LEMMA LeastOfTwo ==
  ASSUME NEW a \in Int, NEW b \in Int
  PROVE  Min({a, b}) \in Int
<1> DEFINE m == IF a <= b THEN a ELSE b
<1>1. m \in {a, b} /\ \A y \in {a, b} : m <= y OBVIOUS
<1>2. Min({a, b}) \in {a, b} BY <1>1 DEF Min
<1> QED BY <1>2

\* The greater of two integers.
LEMMA MaxOfTwo ==
  ASSUME NEW a \in Int, NEW b \in Int
  PROVE  Max({a, b}) = IF a <= b THEN b ELSE a
<1> DEFINE m == IF a <= b THEN b ELSE a
<1>1. m \in {a, b} /\ \A y \in {a, b} : m >= y OBVIOUS
<1>2. \A x \in {a, b} : (\A y \in {a, b} : x >= y) => x = m OBVIOUS
<1>3. Max({a, b}) \in {a, b} /\ \A y \in {a, b} : Max({a, b}) >= y BY <1>1 DEF Max
<1> QED BY <1>2, <1>3

-----------------------------------------------------------------------------
(* What a server knows.                                                    *)

\* The memory as it is once a server has looked at its peers.
LEMMA Looked ==
  ASSUME FollowInv, NEW s \in Boxes, ~Loading(s), NEW t \in Boxes \ {s}
  PROVE  /\ Observe(s)[t] \in [n : 0..MaxPeople, age : Nat]
         /\ people[t] > 0 /\ Heard(t) => Observe(s)[t] = [n |-> people[t], age |-> 0]
         /\ Observe(s)[t].n = 0 => silent[t] >= Min({FollowGrace, up[s]})
         /\ Observe(s)[t].n # 0 => Observe(s)[t].age <= silent[t] + 1
<1> DEFINE seen == memory[s][t]
<1>1. /\ people[t] \in 0..MaxPeople /\ silent[t] \in 0..FollowGrace /\ up[s] \in Nat
      /\ seen \in [n : 0..MaxPeople, age : Nat]
  <2>1. FlTyped BY DEF FollowInv
  <2>2. memory[s] \in [Boxes \ {s} -> [n : 0..MaxPeople, age : Nat]] BY <2>1 DEF FlTyped
  <2> QED BY <2>1, <2>2 DEF FlTyped
<1>2. FollowGrace \in Nat BY IdleFollowAssumption DEF IdleFollowAssumption
<1>3. Min({FollowGrace, up[s]}) = IF FollowGrace <= up[s] THEN FollowGrace ELSE up[s]
  BY <1>1, <1>2, MinOfTwo
<1>4. Remembers(s, t) BY DEF FollowInv
<1>5. Observe(s)[t] = IF people[t] > 0 /\ Heard(t) THEN [n |-> people[t], age |-> 0]
                      ELSE IF seen.age > FollowGrace THEN NoOne ELSE seen
  BY DEF Observe
<1>6. CASE people[t] > 0 /\ Heard(t) BY <1>1, <1>5, <1>6
<1>7. CASE ~(people[t] > 0 /\ Heard(t)) /\ seen.age > FollowGrace
  <2>1. Observe(s)[t] = NoOne BY <1>5, <1>7
  <2>2. silent[t] >= Min({FollowGrace, up[s]}) BY <1>1, <1>2, <1>3, <1>4, <1>7 DEF Remembers
  <2>3. NoOne \in [n : 0..MaxPeople, age : Nat] /\ NoOne.n = 0
    BY IdleFollowAssumption DEF NoOne, IdleFollowAssumption
  <2> QED BY <1>7, <2>1, <2>2, <2>3
<1>8. CASE ~(people[t] > 0 /\ Heard(t)) /\ ~(seen.age > FollowGrace)
  <2>1. Observe(s)[t] = seen BY <1>5, <1>8
  <2> QED BY <1>1, <1>4, <1>8, <2>1 DEF Remembers
<1> QED BY <1>6, <1>7, <1>8

\* Of the peers somebody plays on, one has the most players.
LEMMA BusiestIs ==
  ASSUME NEW s \in Boxes, NEW known \in [Boxes \ {s} -> [n : 0..MaxPeople, age : Nat]],
         NEW some \in SUBSET (Boxes \ {s}), some # {}
  PROVE  \E t \in some : \A u \in some : known[u].n <= known[t].n
<1> DEFINE room == {MaxPeople - known[t].n : t \in some}
<1>1. MaxPeople \in Nat /\ \A t \in some : known[t].n \in 0..MaxPeople
  BY IdleFollowAssumption DEF IdleFollowAssumption
<1>2. room \in SUBSET Nat /\ room # {}
  <2>1. \A t \in some : MaxPeople - known[t].n \in Nat BY <1>1
  <2> QED BY <2>1
<1>3. Min(room) \in room /\ \A y \in room : Min(room) <= y
  <2> HIDE DEF room
  <2> QED BY <1>2, LeastOf
<1>4. PICK t \in some : Min(room) = MaxPeople - known[t].n BY <1>3
<1>5. ASSUME NEW u \in some PROVE known[u].n <= known[t].n
  <2>1. MaxPeople - known[u].n \in room OBVIOUS
  <2>2. MaxPeople - known[t].n <= MaxPeople - known[u].n
    <3> HIDE DEF room
    <3> QED BY <1>3, <1>4, <2>1
  <2> QED BY <1>1, <2>2
<1> QED BY <1>5

\* There is a best peer unless nobody is known to play.
LEMMA NobodyKnown ==
  ASSUME NEW s \in Boxes, NEW known \in [Boxes \ {s} -> [n : 0..MaxPeople, age : Nat]], BestPeer(known) = 0
  PROVE  \A t \in Boxes \ {s} : known[t].n = 0
<1> DEFINE some == {t \in DOMAIN known : known[t].n > 0}
           most == {t \in some : \A u \in some : known[u].n <= known[t].n}
<1>1. \A t \in Boxes \ {s} : known[t].n \in 0..MaxPeople OBVIOUS
<1>2. CASE some = {} BY <1>1, <1>2
<1>3. CASE some # {}
  <2>1. most # {} BY <1>3, BusiestIs
  <2>2. most \in SUBSET (Nat \ {0}) BY IdleFollowAssumption DEF IdleFollowAssumption
  <2>3. BestPeer(known) = Min(most) BY <1>3 DEF BestPeer
  <2>4. Min(most) \in most
    <3> HIDE DEF most
    <3> QED BY <2>1, <2>2, LeastOf
  <2>5. FALSE
    <3> HIDE DEF most
    <3> QED BY <2>2, <2>3, <2>4
  <2> QED BY <2>5
<1> QED BY <1>2, <1>3

\* The best peer is one of the peers.
LEMMA BestIsPeer ==
  ASSUME NEW s \in Boxes, NEW known \in [Boxes \ {s} -> [n : 0..MaxPeople, age : Nat]], BestPeer(known) # 0
  PROVE  BestPeer(known) \in Boxes \ {s}
<1> DEFINE some == {t \in DOMAIN known : known[t].n > 0}
           most == {t \in some : \A u \in some : known[u].n <= known[t].n}
<1>1. BestPeer(known) = Min(most) /\ some # {} BY DEF BestPeer
<1>2. most # {} BY <1>1, BusiestIs
<1>3. most \in SUBSET Nat BY IdleFollowAssumption DEF IdleFollowAssumption
<1>4. Min(most) \in most
  <2> HIDE DEF most
  <2> QED BY <1>2, <1>3, LeastOf
<1> QED BY <1>1, <1>4

-----------------------------------------------------------------------------
(* Steps.                                                                  *)

\* The targets' type, the target's age and the decision are what thinking can disturb.
Targets == [tag : Boxes \cup {0}, map : FlMaps \cup {""}, age : Nat]
Debounced == target \in [Boxes -> Targets] /\ \A r \in Boxes : target[r].age <= up[r]
Exits == exit \in [Boxes -> FlMaps \cup {""}]

\* What the invariant says of the state's parts, for citing.
LEMMA Parts ==
  ASSUME FollowInv
  PROVE  /\ people \in [Boxes -> 0..MaxPeople] /\ loads \in [Boxes -> Int] /\ done \subseteq Boxes
         /\ armed \in [Boxes -> FlMaps \cup {""}] /\ idle \in [Boxes -> Int] /\ flMap \in [Boxes -> FlMaps]
         /\ DOMAIN memory = Boxes
         /\ \A s \in Boxes : memory[s] \in [Boxes \ {s} -> [n : 0..MaxPeople, age : Nat]]
         /\ silent \in [Boxes -> Nat] /\ \A t \in Boxes : silent[t] <= FollowGrace
         /\ up \in [Boxes -> Nat] /\ left \in [Boxes -> FlMaps \cup {""}]
         /\ Exits /\ Debounced /\ FollowSound
<1>1. FlTyped /\ FollowSound /\ \A r \in Boxes : target[r].age <= up[r] BY DEF FollowInv
<1>2. silent \in [Boxes -> 0..FollowGrace] BY <1>1 DEF FlTyped
<1>3. FollowGrace \in Nat BY IdleFollowAssumption DEF IdleFollowAssumption
<1>4. silent \in [Boxes -> Nat] /\ \A t \in Boxes : silent[t] <= FollowGrace BY <1>2, <1>3
<1> QED BY <1>1, <1>4 DEF FlTyped, Exits, Debounced, Targets

\* A fresh target keeps the debounce honest.
LEMMA Retarget ==
  ASSUME Debounced, up \in [Boxes -> Nat], NEW s \in Boxes, NEW new \in Targets, new.age = 0,
         target' = [target EXCEPT ![s] = new], up' = up
  PROVE  Debounced'
<1>1. target' \in [Boxes -> Targets]
  <2> HIDE DEF Targets
  <2> QED BY DEF Debounced
<1>2. ASSUME NEW r \in Boxes PROVE target'[r].age <= up'[r]
  <2>1. CASE r = s
    <3>1. target'[r] = new BY <2>1 DEF Debounced
    <3> QED BY <3>1
  <2>2. CASE r # s
    <3>1. target'[r] = target[r] BY <2>2 DEF Debounced
    <3> QED BY <3>1 DEF Debounced
  <2> QED BY <2>1, <2>2
<1> QED BY <1>1, <1>2 DEF Debounced

\* Nothing was decided, or nothing is remembered of it.
LEMMA NotMoved ==
  ASSUME FollowSound, UNCHANGED move
  PROVE  FollowSound'
BY DEF FollowSound, RotateOnlyQuiet, FollowRate

\* The empty target and the empty sighting are of their types.
LEMMA NoTargetIs == NoTarget \in Targets /\ NoTarget.age = 0 /\ NoTarget.tag = 0
BY DEF NoTarget, Targets

\* Nobody is a sighting.
LEMMA NoOneIs == NoOne \in [n : 0..MaxPeople, age : Nat] /\ NoOne.n = 0
<1>1. 0 \in 0..MaxPeople BY IdleFollowAssumption DEF IdleFollowAssumption
<1> QED BY <1>1 DEF NoOne

\* The decision to follow.
LEMMA Followed ==
  ASSUME FollowInv, NEW s \in Boxes, Follow(s, BestPeer(Observe(s))), up' = up,
         Observe(s) \in [Boxes \ {s} -> [n : 0..MaxPeople, age : Nat]]
  PROVE  Debounced' /\ Exits' /\ FollowSound' /\ idle' \in [Boxes -> Int]
<1> DEFINE known == Observe(s)  best == BestPeer(known)  m == PeerMap(best)
           new == [tag |-> best, map |-> m, age |-> 0]
<1>1. /\ Debounced /\ Exits /\ FollowSound /\ idle \in [Boxes -> Int] /\ flMap \in [Boxes -> FlMaps]
      /\ up \in [Boxes -> Nat] /\ left \in [Boxes -> FlMaps \cup {""}] /\ idle' = idle
  BY Parts DEF Follow
<1>2. CASE UNCHANGED <<target, exit, move>>
  BY <1>1, <1>2, NotMoved DEF Debounced, Exits
<1>3. CASE armed[s] = "" /\ m # ""
  <2>1. best \in Boxes \ {s}
    <3>1. best # 0 BY <1>3 DEF Follow
    <3>2. known \in [Boxes \ {s} -> [n : 0..MaxPeople, age : Nat]] OBVIOUS
    <3> HIDE DEF known
    <3> QED BY <3>1, <3>2, BestIsPeer
  <2>2. m \in FlMaps BY <1>1, <1>3, <2>1 DEF PeerMap
  <2>3. /\ target' = target \/ target' = [target EXCEPT ![s] = new]
        /\ \/ Decide(s, "follow", m) /\ target[s].age >= FollowDelay
           \/ UNCHANGED <<exit, move>>
    BY <1>3 DEF Follow
  <2> HIDE DEF m, best, known
  <2>4. new \in Targets /\ new.age = 0 BY <2>1, <2>2 DEF Targets
  <2>5. Debounced'
    <3>1. CASE target' = target BY <1>1, <3>1 DEF Debounced
    <3>2. CASE target' = [target EXCEPT ![s] = new]
      <4> HIDE DEF new
      <4> QED BY <1>1, <2>4, <3>2, Retarget
    <3> QED BY <2>3, <3>1, <3>2
  <2>6. CASE UNCHANGED <<exit, move>> BY <1>1, <2>5, <2>6, NotMoved DEF Exits
  <2>7. CASE Decide(s, "follow", m) /\ target[s].age >= FollowDelay
    <3>1. Exits' BY <1>1, <2>2, <2>7 DEF Decide, Exits
    <3>2. move'.kind = "follow" /\ move'.up = up[s] BY <2>7 DEF Decide
    <3>3. up[s] >= FollowDelay
      <4>1. target[s] \in Targets /\ target[s].age <= up[s] /\ up[s] \in Nat BY <1>1 DEF Debounced
      <4>2. target[s].age \in Nat /\ FollowDelay \in Nat
        BY <4>1, IdleFollowAssumption DEF Targets, IdleFollowAssumption
      <4> QED BY <2>7, <4>1, <4>2
    <3> QED BY <1>1, <2>5, <3>1, <3>2, <3>3 DEF FollowSound, RotateOnlyQuiet, FollowRate
  <2> QED BY <2>3, <2>6, <2>7
<1> QED BY <1>2, <1>3 DEF Follow

\* The decision to rotate: nobody was heard, so nobody is loud.
LEMMA Rotated ==
  ASSUME FollowInv, NEW s \in Boxes, Rotate(s, BestPeer(Observe(s))), up' = up, ~Loading(s),
         Observe(s) \in [Boxes \ {s} -> [n : 0..MaxPeople, age : Nat]]
  PROVE  Debounced' /\ Exits' /\ FollowSound' /\ idle' \in [Boxes -> Int]
<1> DEFINE known == Observe(s)
<1>1. /\ Debounced /\ Exits /\ FollowSound /\ idle \in [Boxes -> Int] /\ up \in [Boxes -> Nat]
      /\ silent \in [Boxes -> Nat]
  BY Parts
<1>2. BestPeer(known) = 0 /\ target' = [target EXCEPT ![s] = NoTarget] BY DEF Rotate
<1>3. Debounced' BY <1>1, <1>2, NoTargetIs, Retarget
<1>4. idle' \in [Boxes -> Int]
  <2>1. idle[s] \in Int BY <1>1
  <2>2. Max({idle[s], 0}) \in Int BY <2>1, MaxOfTwo
  <2>3. \/ idle' = idle \/ idle' = [idle EXCEPT ![s] = 0] \/ idle' = [idle EXCEPT ![s] = Max({idle[s], 0})]
    BY <1>1 DEF Rotate
  <2> QED BY <1>1, <2>2, <2>3
<1>5. CASE UNCHANGED <<exit, move>> BY <1>1, <1>3, <1>4, <1>5, NotMoved DEF Exits
<1>6. ASSUME NEW m \in FlMaps, Decide(s, "rotate", m) PROVE FollowSound' /\ Exits'
  <2>1. Exits' BY <1>1, <1>6 DEF Decide, Exits
  <2>2. /\ move'.kind = "rotate"
        /\ move'.loud = {t \in Boxes \ {s} : people[t] > 0 /\ silent[t] < Min({FollowGrace, up[s]})}
    BY <1>6 DEF Decide
  <2>3. ASSUME NEW t \in Boxes \ {s} PROVE ~(silent[t] < Min({FollowGrace, up[s]}))
    <3>1. known[t].n = 0
      <4>1. known \in [Boxes \ {s} -> [n : 0..MaxPeople, age : Nat]] OBVIOUS
      <4> HIDE DEF known
      <4> QED BY <1>2, <4>1, NobodyKnown
    <3>2. silent[t] >= Min({FollowGrace, up[s]}) BY <3>1, Looked
    <3>3. FollowGrace \in Nat /\ up[s] \in Nat /\ silent[t] \in Nat
      BY <1>1, IdleFollowAssumption DEF IdleFollowAssumption
    <3>4. Min({FollowGrace, up[s]}) \in Nat BY <3>3, MinOfTwo
    <3> QED BY <3>2, <3>3, <3>4
  <2>4. move'.loud = {} BY <2>2, <2>3
  <2> QED BY <2>1, <2>2, <2>4 DEF FollowSound, RotateOnlyQuiet, FollowRate
<1>7. \/ UNCHANGED <<exit, move>>
      \/ \E m \in FlMaps : Decide(s, "rotate", m)
  BY DEF Rotate
<1> QED BY <1>3, <1>4, <1>5, <1>6, <1>7

\* What an empty server decides is sound, and keeps its debounce honest.
LEMMA Decided ==
  ASSUME FollowInv, NEW s \in Boxes, IdleRotateThink(s)
  PROVE  Debounced' /\ Exits' /\ FollowSound' /\ idle' \in [Boxes -> Int]
<1>1. /\ Debounced /\ Exits /\ FollowSound /\ idle \in [Boxes -> Int] /\ up \in [Boxes -> Nat]
      /\ up' = up /\ ~Loading(s)
  BY Parts DEF IdleRotateThink
<1>2. Observe(s) \in [Boxes \ {s} -> [n : 0..MaxPeople, age : Nat]] BY <1>1, Looked DEF Observe
<1>3. CASE Occupied(s)
  <2>1. /\ target' = [target EXCEPT ![s] = NoTarget] /\ idle' = [idle EXCEPT ![s] = -1]
        /\ UNCHANGED <<exit, move>>
    BY <1>3 DEF Occupied
  <2>2. Debounced' BY <1>1, <2>1, NoTargetIs, Retarget
  <2>3. idle' \in [Boxes -> Int] BY <1>1, <2>1
  <2> QED BY <1>1, <2>1, <2>2, <2>3, NotMoved DEF Exits
<1>4. CASE Follow(s, BestPeer(Observe(s))) BY <1>1, <1>2, <1>4, Followed
<1>5. CASE Rotate(s, BestPeer(Observe(s))) BY <1>1, <1>2, <1>5, Rotated
<1> QED BY <1>3, <1>4, <1>5 DEF IdleRotateThink

\* The type invariant from its parts.
LEMMA Retyped ==
  ASSUME people' \in [Boxes -> 0..MaxPeople], loads' \in [Boxes -> Int], done' \subseteq Boxes,
         armed' \in [Boxes -> FlMaps \cup {""}], idle' \in [Boxes -> Int], flMap' \in [Boxes -> FlMaps],
         DOMAIN memory' = Boxes,
         \A s \in Boxes : memory'[s] \in [Boxes \ {s} -> [n : 0..MaxPeople, age : Nat]],
         silent' \in [Boxes -> 0..FollowGrace], up' \in [Boxes -> Nat], left' \in [Boxes -> FlMaps \cup {""}],
         Exits', Debounced'
  PROVE  FlTyped'
BY DEF FlTyped, Exits, Debounced, Targets

\* Thinking keeps the invariant.
LEMMA ThinkKeeps ==
  ASSUME FollowInv, NEW s \in Boxes, IdleRotateThink(s)
  PROVE  FollowInv'
<1>1. /\ memory' = [memory EXCEPT ![s] = Observe(s)] /\ done' = done \cup {s} /\ ~Loading(s)
      /\ UNCHANGED <<people, flMap, loads, left, armed, visits, whole, silent, up>>
  BY DEF IdleRotateThink
<1>2. \A t \in whole : t \in Boxes /\ people[t] > 0 /\ ~Loading(t) BY DEF FollowInv
<1>3. \A t \in Boxes \ {s} :
         /\ Observe(s)[t] \in [n : 0..MaxPeople, age : Nat]
         /\ people[t] > 0 /\ Heard(t) => Observe(s)[t] = [n |-> people[t], age |-> 0]
         /\ Observe(s)[t].n = 0 => silent[t] >= Min({FollowGrace, up[s]})
         /\ Observe(s)[t].n # 0 => Observe(s)[t].age <= silent[t] + 1
  BY <1>1, Looked
<1>4. Observe(s) \in [Boxes \ {s} -> [n : 0..MaxPeople, age : Nat]] BY <1>3 DEF Observe
<1> HIDE DEF Observe
<1>5. DOMAIN memory' = Boxes /\ memory'[s] = Observe(s) /\ \A r \in Boxes \ {s} : memory'[r] = memory[r]
  BY <1>1, Parts
<1>6. \A r \in Boxes : memory'[r] \in [Boxes \ {r} -> [n : 0..MaxPeople, age : Nat]]
  BY <1>4, <1>5, Parts
<1>7. FlTyped'
  <2>1. silent \in [Boxes -> 0..FollowGrace] BY DEF FollowInv, FlTyped
  <2>2. done' \subseteq Boxes BY <1>1, Parts
  <2> QED BY <1>1, <1>5, <1>6, <2>1, <2>2, Parts, Decided, Retyped
<1>8. ASSUME NEW r \in Boxes, NEW t \in Boxes \ {r} PROVE Remembers(r, t)'
  <2>1. CASE r = s
    <3> DEFINE seen == Observe(s)[t]
    <3>1. /\ seen.n = 0 => silent[t] >= Min({FollowGrace, up[s]})
          /\ seen.n # 0 => seen.age <= silent[t] + 1
      BY <1>3, <2>1
    <3>2. t \in whole => seen.n # 0 /\ seen.age = 0
      <4>1. people[t] > 0 /\ Heard(t) => seen = [n |-> people[t], age |-> 0] BY <1>3, <2>1
      <4>2. t \in whole => people[t] > 0 /\ Heard(t) BY <1>2 DEF Heard
      <4>3. people[t] \in 0..MaxPeople BY Parts
      <4> QED BY <4>1, <4>2, <4>3, IdleFollowAssumption DEF IdleFollowAssumption
    <3>3. memory'[r][t] = seen BY <1>5, <2>1
    <3> HIDE DEF seen
    <3> QED BY <1>1, <2>1, <3>1, <3>2, <3>3 DEF Remembers
  <2>2. CASE r # s
    <3>1. Remembers(r, t) BY DEF FollowInv
    <3>2. memory'[r] = memory[r] /\ (r \in done' <=> r \in done) BY <1>1, <1>5, <2>2
    <3> QED BY <1>1, <3>1, <3>2 DEF Remembers
  <2> QED BY <2>1, <2>2
<1>9. ASSUME NEW r \in Boxes, Loading(r)' PROVE Blank(r)'
  <2>1. Loading(r) /\ r # s BY <1>1, <1>9 DEF Loading
  <2>2. Blank(r) BY <2>1 DEF FollowInv
  <2>3. target'[r] = target[r]
    <3>1. target' = target \/ \E new \in {target'[s]} : target' = [target EXCEPT ![s] = new]
      BY Parts DEF IdleRotateThink, Occupied, Follow, Rotate, Debounced
    <3> QED BY <2>1, <3>1, Parts DEF Debounced
  <2> QED BY <1>1, <1>5, <2>1, <2>2, <2>3 DEF Blank
<1>10. \A t \in whole' : t \in Boxes /\ people'[t] > 0 /\ ~Loading(t)' BY <1>1, <1>2 DEF Loading
<1>11. FollowSound' /\ \A r \in Boxes : target'[r].age <= up'[r] BY Decided DEF Debounced
<1> QED BY <1>7, <1>8, <1>9, <1>10, <1>11 DEF FollowInv

\* A load forgets everything, and nobody is loud to the one who has just loaded.
LEMMA LoadKeeps ==
  ASSUME FollowInv, NEW s \in Boxes, NEW m \in FlMaps, BeginLoad(s, m)
  PROVE  FollowInv'
<1> DEFINE blank == [t \in Boxes \ {s} |-> NoOne]
<1>1. /\ flMap' = [flMap EXCEPT ![s] = m] /\ loads' = [loads EXCEPT ![s] = 0]
      /\ memory' = [memory EXCEPT ![s] = blank] /\ target' = [target EXCEPT ![s] = NoTarget]
      /\ idle' = [idle EXCEPT ![s] = -1] /\ exit' = [exit EXCEPT ![s] = ""] /\ armed' = [armed EXCEPT ![s] = ""]
      /\ done' = done \ {s} /\ whole' = whole \ {s} /\ up' = [up EXCEPT ![s] = 0]
      /\ left' = [left EXCEPT ![s] = flMap[s]]
      /\ UNCHANGED <<people, visits, silent, move>>
  BY DEF BeginLoad, Forgotten
<1>2. NoOne \in [n : 0..MaxPeople, age : Nat] /\ NoOne.n = 0 BY NoOneIs
<1>3. \A t \in whole : t \in Boxes /\ people[t] > 0 /\ ~Loading(t) BY DEF FollowInv
<1>4. /\ DOMAIN memory' = Boxes /\ memory'[s] = blank /\ \A r \in Boxes \ {s} : memory'[r] = memory[r]
      /\ up'[s] = 0 /\ \A r \in Boxes \ {s} : up'[r] = up[r]
  BY <1>1, Parts
<1>5. \A r \in Boxes : memory'[r] \in [Boxes \ {r} -> [n : 0..MaxPeople, age : Nat]]
  <2>1. blank \in [Boxes \ {s} -> [n : 0..MaxPeople, age : Nat]] BY <1>2
  <2> HIDE DEF blank
  <2> QED BY <1>4, <2>1, Parts
<1>6. Debounced'
  <2>1. target \in [Boxes -> Targets] /\ \A r \in Boxes : target[r].age <= up[r] BY Parts DEF Debounced
  <2>2. target'[s] = NoTarget /\ \A r \in Boxes \ {s} : target'[r] = target[r] BY <1>1, <2>1
  <2>3. target' \in [Boxes -> Targets] BY <1>1, <2>1, NoTargetIs
  <2>4. target'[s].age <= up'[s] BY <1>4, <2>2, NoTargetIs
  <2>5. \A r \in Boxes \ {s} : target'[r].age <= up'[r] BY <1>4, <2>1, <2>2
  <2> QED BY <2>3, <2>4, <2>5 DEF Debounced
<1>7. FlTyped'
  <2>1. silent' \in [Boxes -> 0..FollowGrace] BY <1>1 DEF FollowInv, FlTyped
  <2>2. Exits' /\ armed' \in [Boxes -> FlMaps \cup {""}] BY <1>1, Parts DEF Exits
  <2>3. /\ people' \in [Boxes -> 0..MaxPeople] /\ done' \subseteq Boxes /\ flMap' \in [Boxes -> FlMaps]
    BY <1>1, Parts
  <2>4. idle' \in [Boxes -> Int]
    <3>1. idle \in [Boxes -> Int] BY Parts
    <3>2. idle' = [idle EXCEPT ![s] = -1] BY <1>1
    <3> QED BY <3>1, <3>2
  <2>6. loads' \in [Boxes -> Int]
    <3>1. loads \in [Boxes -> Int] BY Parts
    <3>2. loads' = [loads EXCEPT ![s] = 0] BY <1>1
    <3> QED BY <3>1, <3>2
  <2>5. up' \in [Boxes -> Nat]
    <3>1. up \in [Boxes -> Nat] BY Parts
    <3> QED BY <1>1, <3>1
  <2>7. left' \in [Boxes -> FlMaps \cup {""}]
    <3>1. left \in [Boxes -> FlMaps \cup {""}] /\ flMap[s] \in FlMaps BY Parts
    <3> QED BY <1>1, <3>1
  <2> QED BY <1>4, <1>5, <1>6, <2>1, <2>2, <2>3, <2>4, <2>5, <2>6, <2>7, Retyped
<1>8. ASSUME NEW r \in Boxes, NEW t \in Boxes \ {r} PROVE Remembers(r, t)'
  <2>1. CASE r = s
    <3>1. memory'[r][t] = NoOne /\ up'[r] = 0 /\ r \notin done' BY <1>1, <1>4, <2>1
    <3>2. silent'[t] >= Min({FollowGrace, up'[r]})
      <4>1. silent'[t] \in Nat /\ FollowGrace \in Nat BY <1>1, Parts, IdleFollowAssumption DEF IdleFollowAssumption
      <4>2. 0 \in Nat OBVIOUS
      <4>3. Min({FollowGrace, 0}) = 0 BY <4>1, <4>2, MinOfTwo
      <4>4. Min({FollowGrace, up'[r]}) = 0 BY <3>1, <4>3
      <4> QED BY <4>1, <4>4
    <3> QED BY <1>2, <3>1, <3>2 DEF Remembers
  <2>2. CASE r # s
    <3>1. Remembers(r, t) BY DEF FollowInv
    <3>2. /\ memory'[r] = memory[r] /\ up'[r] = up[r] /\ silent' = silent /\ (r \in done' => r \in done)
          /\ (t \in whole' => t \in whole)
      BY <1>1, <1>4, <2>2
    <3> QED BY <3>1, <3>2 DEF Remembers
  <2> QED BY <2>1, <2>2
<1>9. ASSUME NEW r \in Boxes, Loading(r)' PROVE Blank(r)'
  <2>1. CASE r = s
    <3>1. target'[s] = NoTarget BY <1>1, Parts DEF Debounced
    <3> QED BY <1>1, <1>4, <2>1, <3>1 DEF Blank
  <2>2. CASE r # s
    <3>1. Loading(r) BY <1>1, <1>9, <2>2, Parts DEF Loading
    <3>2. Blank(r) BY <3>1 DEF FollowInv
    <3>3. target'[r] = target[r] BY <1>1, <2>2, Parts DEF Debounced
    <3> QED BY <1>1, <1>4, <2>2, <3>2, <3>3 DEF Blank
  <2> QED BY <2>1, <2>2
<1>10. \A t \in whole' : t \in Boxes /\ people'[t] > 0 /\ ~Loading(t)' BY <1>1, <1>3, Parts DEF Loading
<1>11. FollowSound' BY <1>1, Parts, NotMoved
<1>12. \A r \in Boxes : target'[r].age <= up'[r] BY <1>6 DEF Debounced
<1> QED BY <1>7, <1>8, <1>9, <1>10, <1>11, <1>12 DEF FollowInv

\* The map is up.
LEMMA LoadedKeeps ==
  ASSUME FollowInv, NEW s \in Boxes, EndLoad(s)
  PROVE  FollowInv'
<1>1. /\ loads' = [loads EXCEPT ![s] = -1] /\ left' = [left EXCEPT ![s] = ""]
      /\ UNCHANGED <<people, flMap, exit, armed, memory, target, idle, done, visits, whole, silent, up, move>>
  BY DEF EndLoad, flHistory
<1>2. loads \in [Boxes -> Int] /\ left \in [Boxes -> FlMaps \cup {""}] BY Parts
<1>3. loads' \in [Boxes -> Int] /\ left' \in [Boxes -> FlMaps \cup {""}]
  <2>1. loads' \in [Boxes -> Int]
    <3>1. loads \in [Boxes -> Int] BY <1>2
    <3>2. loads' = [loads EXCEPT ![s] = -1] BY <1>1
    <3> QED BY <3>1, <3>2
  <2>2. left' \in [Boxes -> FlMaps \cup {""}] BY <1>1, <1>2
  <2> QED BY <2>1, <2>2
<1>6. \A r \in Boxes : Loading(r)' => Loading(r)
  <2>1. \A r \in Boxes : loads'[r] = IF r = s THEN -1 ELSE loads[r] BY <1>1, <1>2
  <2> QED BY <2>1 DEF Loading
<1>7. FlTyped' BY <1>1, <1>3 DEF FollowInv, FlTyped
<1>4. \A r \in Boxes : \A t \in Boxes \ {r} : Remembers(r, t)' BY <1>1 DEF FollowInv, Remembers
<1>5. FollowSound' BY <1>1, Parts, NotMoved
<1>8. \A r \in Boxes : Loading(r)' => Blank(r)' BY <1>1, <1>6 DEF FollowInv, Blank
<1>9. \A t \in whole' : t \in Boxes /\ people'[t] > 0 /\ ~Loading(t)' BY <1>1, <1>6 DEF FollowInv
<1> QED BY <1>1, <1>7, <1>4, <1>5, <1>8, <1>9 DEF FollowInv

\* Who leaves last takes the server out of the heard.
LEMMA VisitKeeps ==
  ASSUME FollowInv, NEW s \in Boxes, Visit(s)
  PROVE  FollowInv'
<1>1. UNCHANGED <<flMap, loads, left, exit, armed, memory, target, idle, done, silent, up, move>> BY DEF Visit
<1>2. /\ people' \in [Boxes -> 0..MaxPeople] /\ whole' \subseteq whole
      /\ \A t \in whole' : t = s => people'[t] > 0
      /\ \A t \in Boxes \ {s} : people'[t] = people[t]
  <2>1. people \in [Boxes -> 0..MaxPeople] /\ people[s] \in 0..MaxPeople /\ MaxPeople \in Nat
    BY Parts, IdleFollowAssumption DEF IdleFollowAssumption
  <2>2. CASE people[s] < MaxPeople /\ people' = [people EXCEPT ![s] = @ + 1] /\ UNCHANGED whole
    <3>1. people[s] + 1 \in 0..MaxPeople /\ people[s] + 1 > 0 BY <2>1, <2>2
    <3>2. people' = [people EXCEPT ![s] = people[s] + 1] BY <2>2
    <3> QED BY <2>1, <2>2, <3>1, <3>2
  <2>3. CASE /\ people[s] > 0 /\ people' = [people EXCEPT ![s] = @ - 1]
             /\ whole' = IF people[s] = 1 THEN whole \ {s} ELSE whole
    <3>1. people[s] - 1 \in 0..MaxPeople /\ (people[s] # 1 => people[s] - 1 > 0) BY <2>1, <2>3
    <3>2. people' = [people EXCEPT ![s] = people[s] - 1] BY <2>3
    <3> QED BY <2>1, <2>3, <3>1, <3>2
  <2> QED BY <2>2, <2>3 DEF Visit
<1>3. \A t \in whole' : t \in Boxes /\ people'[t] > 0 /\ ~Loading(t)'
  <2>1. \A t \in whole : t \in Boxes /\ people[t] > 0 /\ ~Loading(t) BY DEF FollowInv
  <2> QED BY <1>1, <1>2, <2>1 DEF Loading
<1>4. FlTyped' BY <1>1, <1>2 DEF FollowInv, FlTyped
<1>5. \A r \in Boxes : \A t \in Boxes \ {r} : Remembers(r, t)' BY <1>1, <1>2 DEF FollowInv, Remembers
<1>6. FollowSound' BY <1>1, Parts, NotMoved
<1>7. \A r \in Boxes : Loading(r)' => Blank(r)' BY <1>1 DEF FollowInv, Loading, Blank
<1> QED BY <1>1, <1>3, <1>4, <1>5, <1>6, <1>7 DEF FollowInv

\* What arms a map change leaves the memories alone.
LEMMA ArmKeeps ==
  ASSUME FollowInv, exit' \in [Boxes -> FlMaps \cup {""}], armed' \in [Boxes -> FlMaps \cup {""}],
         UNCHANGED <<people, flMap, loads, left, memory, target, idle, done, whole, silent, up, move>>
  PROVE  FollowInv'
<1>1. FlTyped' BY DEF FollowInv, FlTyped
<1>2. \A r \in Boxes : \A t \in Boxes \ {r} : Remembers(r, t)' BY DEF FollowInv, Remembers
<1>3. FollowSound' BY Parts, NotMoved
<1>4. \A r \in Boxes : Loading(r)' => Blank(r)' BY DEF FollowInv, Loading, Blank
<1> QED BY <1>1, <1>2, <1>3, <1>4 DEF FollowInv, Loading

-----------------------------------------------------------------------------
(* The tick.                                                               *)

\* Another tick brings the memory of a peer no further than its silence.
LEMMA TickRemembers ==
  ASSUME FollowInv, FlTick, NEW s \in Boxes, NEW t \in Boxes \ {s}
  PROVE  Remembers(s, t)'
<1> DEFINE seen == memory[s][t]
<1>1. /\ seen \in [n : 0..MaxPeople, age : Nat] /\ silent[t] \in Nat /\ silent[t] <= FollowGrace
      /\ up[s] \in Nat /\ FollowGrace \in Nat /\ FollowDelay \in Nat
  <2>1. memory[s] \in [Boxes \ {s} -> [n : 0..MaxPeople, age : Nat]] BY Parts
  <2>2. FollowGrace \in Nat /\ FollowDelay \in Nat BY IdleFollowAssumption DEF IdleFollowAssumption
  <2> QED BY <2>1, <2>2, Parts
<1>2. memory'[s][t] = IF seen.n = 0 THEN NoOne ELSE [seen EXCEPT !.age = Min({seen.age + 1, FollowGrace + 1})]
  BY DEF FlTick
<1>3. silent'[t] = IF t \in whole THEN 0 ELSE Min({silent[t] + 1, FollowGrace}) BY DEF FlTick
<1>4. up'[s] = IF Loading(s) THEN 0 ELSE Min({up[s] + 1, Max({FollowGrace, FollowDelay})}) BY DEF FlTick
<1>5. s \notin done' BY DEF FlTick
<1>6. Remembers(s, t) BY DEF FollowInv
<1>7. /\ Min({seen.age + 1, FollowGrace + 1}) = IF seen.age <= FollowGrace THEN seen.age + 1 ELSE FollowGrace + 1
      /\ Min({silent[t] + 1, FollowGrace}) = IF silent[t] + 1 <= FollowGrace THEN silent[t] + 1 ELSE FollowGrace
  BY <1>1, MinOfTwo
<1>8. up'[s] \in Nat /\ (Loading(s) => up'[s] = 0) /\ up'[s] <= up[s] + 1
  <2>1. Max({FollowGrace, FollowDelay}) \in Nat BY <1>1, MaxOfTwo
  <2>2. Min({up[s] + 1, Max({FollowGrace, FollowDelay})}) \in Nat
        /\ Min({up[s] + 1, Max({FollowGrace, FollowDelay})}) <= up[s] + 1
    <3> DEFINE top == Max({FollowGrace, FollowDelay})
    <3> HIDE DEF top
    <3>1. top \in Nat BY <2>1 DEF top
    <3>2. Min({up[s] + 1, top}) = IF up[s] + 1 <= top THEN up[s] + 1 ELSE top BY <1>1, <3>1, MinOfTwo
    <3>3. Min({up[s] + 1, top}) \in Nat /\ Min({up[s] + 1, top}) <= up[s] + 1 BY <1>1, <3>1, <3>2
    <3> QED BY <3>3 DEF top
  <2> QED BY <1>1, <1>4, <2>2
<1>9. silent'[t] \in Nat BY <1>1, <1>3, <1>7
<1>10. CASE seen.n = 0
  <2>1. memory'[s][t] = NoOne BY <1>2, <1>10
  <2>2. silent'[t] >= Min({FollowGrace, up'[s]})
    <3>1. Min({FollowGrace, up'[s]}) = IF FollowGrace <= up'[s] THEN FollowGrace ELSE up'[s] BY <1>1, <1>8, MinOfTwo
    <3>2. CASE Loading(s) BY <1>1, <1>8, <1>9, <3>1, <3>2
    <3>3. CASE ~Loading(s)
      <4>1. s \in done BY <3>3 DEF FlTick
      <4>2. t \notin whole BY <1>6, <1>10, <4>1 DEF Remembers
      <4>3. silent[t] >= Min({FollowGrace, up[s]}) BY <1>6, <1>10 DEF Remembers
      <4>4. Min({FollowGrace, up[s]}) = IF FollowGrace <= up[s] THEN FollowGrace ELSE up[s] BY <1>1, MinOfTwo
      <4>5. silent'[t] = IF silent[t] + 1 <= FollowGrace THEN silent[t] + 1 ELSE FollowGrace BY <1>3, <1>7, <4>2
      <4> QED BY <1>1, <1>8, <3>1, <4>3, <4>4, <4>5
    <3> QED BY <3>2, <3>3
  <2> QED BY <1>5, <2>1, <2>2 DEF Remembers, NoOne
<1>11. CASE seen.n # 0
  <2>1. ~Loading(s)
    <3>1. Loading(s) => seen = NoOne BY DEF FollowInv, Blank
    <3> QED BY <1>11, <3>1 DEF NoOne
  <2>2. s \in done BY <2>1 DEF FlTick
  <2>3. memory'[s][t].n = seen.n /\ memory'[s][t].age = Min({seen.age + 1, FollowGrace + 1})
    BY <1>1, <1>2, <1>11
  <2>4. seen.age <= silent[t] + 1 /\ (t \in whole => seen.age = 0) BY <1>6, <1>11, <2>2 DEF Remembers
  <2>5. memory'[s][t].age <= silent'[t] + 1
    <3>1. CASE t \in whole BY <1>1, <1>3, <1>7, <2>3, <2>4, <3>1
    <3>2. CASE t \notin whole
      <4>1. seen.age \in Nat BY <1>1
      <4> HIDE DEF seen
      <4> QED BY <1>1, <1>3, <1>7, <2>3, <2>4, <3>2, <4>1
    <3> QED BY <3>1, <3>2
  <2> QED BY <1>5, <1>11, <2>3, <2>5 DEF Remembers
<1> QED BY <1>10, <1>11

\* The debounce and the uptime run together.
LEMMA TickDebounced ==
  ASSUME FollowInv, FlTick
  PROVE  Debounced' /\ up' \in [Boxes -> Nat]
<1> DEFINE top == Max({FollowGrace, FollowDelay})
<1>1. /\ Debounced /\ up \in [Boxes -> Nat] /\ FollowGrace \in Nat /\ FollowDelay \in Nat
  BY Parts, IdleFollowAssumption DEF IdleFollowAssumption
<1>2. top \in Nat /\ top >= FollowDelay BY <1>1, MaxOfTwo
<1> HIDE DEF top
<1>3. \A s \in Boxes : Min({up[s] + 1, top}) = IF up[s] + 1 <= top THEN up[s] + 1 ELSE top
  <2> TAKE s \in Boxes
  <2>1. up[s] + 1 \in Nat BY <1>1
  <2> QED BY <1>2, <2>1, MinOfTwo
<1>4. up' = [s \in Boxes |-> IF Loading(s) THEN 0 ELSE Min({up[s] + 1, top})] BY DEF FlTick, top
<1>5. up' \in [Boxes -> Nat] BY <1>1, <1>2, <1>3, <1>4
<1>6. target' = [s \in Boxes |-> IF target[s].tag = 0 THEN NoTarget
                                 ELSE [target[s] EXCEPT !.age = Min({@ + 1, FollowDelay})]]
  BY DEF FlTick
<1>7. ASSUME NEW s \in Boxes PROVE target'[s] \in Targets /\ target'[s].age <= up'[s]
  <2>1. target[s] \in Targets /\ target[s].age <= up[s] /\ up[s] \in Nat BY <1>1 DEF Debounced
  <2>2. target[s].age \in Nat BY <2>1 DEF Targets
  <2>3. CASE target[s].tag = 0
    <3>1. target'[s] = NoTarget BY <1>6, <2>3
    <3> QED BY <1>5, <3>1, NoTargetIs
  <2>4. CASE target[s].tag # 0
    <3> DEFINE older == Min({target[s].age + 1, FollowDelay})
    <3>1. older = IF target[s].age + 1 <= FollowDelay THEN target[s].age + 1 ELSE FollowDelay
      BY <1>1, <2>2, MinOfTwo
    <3>2. target'[s] = [target[s] EXCEPT !.age = older] BY <1>6, <2>4
    <3>3. older \in Nat BY <1>1, <2>2, <3>1
    <3> HIDE DEF older
    <3>4. target'[s] \in Targets /\ target'[s].age = older BY <2>1, <3>2, <3>3 DEF Targets
    <3>5. ~Loading(s)
      <4>1. Loading(s) => target[s] = NoTarget BY DEF FollowInv, Blank
      <4> QED BY <2>4, <4>1, NoTargetIs
    <3>6. up'[s] = IF up[s] + 1 <= top THEN up[s] + 1 ELSE top BY <1>3, <1>4, <3>5
    <3> QED BY <1>1, <1>2, <2>1, <2>2, <3>1, <3>4, <3>6
  <2> QED BY <2>3, <2>4
<1>8. target' \in [Boxes -> Targets]
  <2>1. DOMAIN target' = Boxes /\ target' = [s \in Boxes |-> target'[s]] BY <1>6
  <2> QED BY <1>7, <2>1
<1> QED BY <1>5, <1>7, <1>8 DEF Debounced

\* A tick keeps the invariant.
LEMMA TickKeeps ==
  ASSUME FollowInv, FlTick
  PROVE  FollowInv'
<1>1. /\ UNCHANGED <<people, flMap, left, exit, armed, visits>> /\ done' = {} /\ move' = NoMove
      /\ loads' = [s \in Boxes |-> IF Loading(s) THEN loads[s] + 1 ELSE -1]
      /\ whole' = {t \in Boxes : people[t] > 0 /\ ~Loading(t)}
      /\ idle' = [s \in Boxes |-> IF idle[s] = -1 THEN -1 ELSE Min({idle[s] + 1, RotateAfter})]
      /\ silent' = [t \in Boxes |-> IF t \in whole THEN 0 ELSE Min({silent[t] + 1, FollowGrace})]
  BY DEF FlTick
<1>2. \A r \in Boxes : \A t \in Boxes \ {r} : Remembers(r, t)' BY TickRemembers
<1>3. Debounced' /\ up' \in [Boxes -> Nat] BY TickDebounced
<1>4. loads' \in [Boxes -> Int] /\ \A r \in Boxes : Loading(r)' <=> Loading(r)
  <2>1. \A r \in Boxes : loads[r] \in Int BY Parts
  <2>2. loads' \in [Boxes -> Int] BY <1>1, <2>1
  <2>3. ASSUME NEW r \in Boxes PROVE Loading(r)' <=> Loading(r)
    <3>1. loads'[r] = IF Loading(r) THEN loads[r] + 1 ELSE -1 BY <1>1
    <3> QED BY <2>1, <3>1 DEF Loading
  <2> QED BY <2>2, <2>3
<1>5. idle' \in [Boxes -> Int]
  <2>1. \A r \in Boxes : idle[r] \in Int BY Parts
  <2>2. RotateAfter \in Int BY IdleFollowAssumption DEF IdleFollowAssumption
  <2>3. \A r \in Boxes : Min({idle[r] + 1, RotateAfter}) \in Int BY <2>1, <2>2, LeastOfTwo
  <2> QED BY <1>1, <2>3
<1>6. silent' \in [Boxes -> 0..FollowGrace]
  <2>1. FollowGrace \in Nat /\ \A t \in Boxes : silent[t] \in Nat
    BY Parts, IdleFollowAssumption DEF IdleFollowAssumption
  <2>2. ASSUME NEW t \in Boxes PROVE Min({silent[t] + 1, FollowGrace}) \in 0..FollowGrace
    <3>1. silent[t] + 1 \in Nat BY <2>1
    <3>2. Min({silent[t] + 1, FollowGrace}) = IF silent[t] + 1 <= FollowGrace THEN silent[t] + 1 ELSE FollowGrace
      BY <2>1, <3>1, MinOfTwo
    <3> QED BY <2>1, <3>1, <3>2
  <2> QED BY <1>1, <2>1, <2>2
<1>7. DOMAIN memory' = Boxes /\ \A s \in Boxes : memory'[s] \in [Boxes \ {s} -> [n : 0..MaxPeople, age : Nat]]
  <2>1. memory' = [s \in Boxes |-> [t \in Boxes \ {s} |->
          IF memory[s][t].n = 0 THEN NoOne
          ELSE [memory[s][t] EXCEPT !.age = Min({@ + 1, FollowGrace + 1})]]]
    BY DEF FlTick
  <2>2. ASSUME NEW s \in Boxes, NEW t \in Boxes \ {s}
        PROVE  (IF memory[s][t].n = 0 THEN NoOne
                ELSE [memory[s][t] EXCEPT !.age = Min({@ + 1, FollowGrace + 1})]) \in [n : 0..MaxPeople, age : Nat]
    <3>1. memory[s][t] \in [n : 0..MaxPeople, age : Nat]
      <4>1. memory[s] \in [Boxes \ {s} -> [n : 0..MaxPeople, age : Nat]] BY Parts
      <4> QED BY <4>1
    <3>2. FollowGrace + 1 \in Nat /\ memory[s][t].age + 1 \in Nat
      BY <3>1, IdleFollowAssumption DEF IdleFollowAssumption
    <3>3. Min({memory[s][t].age + 1, FollowGrace + 1}) \in Nat BY <3>2, MinOfTwo
    <3>4. NoOne \in [n : 0..MaxPeople, age : Nat] BY NoOneIs
    <3> QED BY <3>1, <3>3, <3>4
  <2> QED BY <2>1, <2>2
<1>8. FlTyped'
  <2>1. /\ people' \in [Boxes -> 0..MaxPeople] /\ done' \subseteq Boxes /\ Exits'
        /\ armed' \in [Boxes -> FlMaps \cup {""}] /\ flMap' \in [Boxes -> FlMaps]
        /\ left' \in [Boxes -> FlMaps \cup {""}]
    BY <1>1, Parts DEF Exits
  <2> QED BY <1>3, <1>4, <1>5, <1>6, <1>7, <2>1, Retyped
<1>9. ASSUME NEW r \in Boxes, Loading(r)' PROVE Blank(r)'
  <2>1. Loading(r) BY <1>4, <1>9
  <2>2. Blank(r) BY <2>1 DEF FollowInv
  <2>3. up'[r] = 0 BY <2>1 DEF FlTick
  <2>4. target'[r] = NoTarget
    <3>1. target[r].tag = 0 BY <2>2, NoTargetIs DEF Blank
    <3> QED BY <3>1 DEF FlTick
  <2>5. \A t \in Boxes \ {r} : memory'[r][t] = NoOne
    <3>1. \A t \in Boxes \ {r} : memory[r][t].n = 0 BY <2>2 DEF Blank, NoOne
    <3> QED BY <3>1 DEF FlTick
  <2> QED BY <1>1, <2>3, <2>4, <2>5 DEF Blank
<1>10. \A t \in whole' : t \in Boxes /\ people'[t] > 0 /\ ~Loading(t)' BY <1>1, <1>4
<1>11. FollowSound' BY <1>1 DEF NoMove, FollowSound, RotateOnlyQuiet, FollowRate
<1>12. \A r \in Boxes : target'[r].age <= up'[r] BY <1>3 DEF Debounced
<1> QED BY <1>2, <1>8, <1>9, <1>10, <1>11, <1>12 DEF FollowInv

-----------------------------------------------------------------------------
(* All together.                                                           *)

\* At the start nobody plays and nobody is known.
LEMMA FollowInit == FlInit => FollowInv
<1> SUFFICES ASSUME FlInit PROVE FollowInv OBVIOUS
<1>1. /\ people = [s \in Boxes |-> 0] /\ flMap = [s \in Boxes |-> FlHome] /\ loads = [s \in Boxes |-> -1]
      /\ exit = [s \in Boxes |-> ""] /\ armed = [s \in Boxes |-> ""] /\ idle = [s \in Boxes |-> -1]
      /\ memory = [s \in Boxes |-> [t \in Boxes \ {s} |-> NoOne]] /\ target = [s \in Boxes |-> NoTarget]
      /\ done = {} /\ whole = {} /\ silent = [t \in Boxes |-> FollowGrace] /\ up = [s \in Boxes |-> 0]
      /\ move = NoMove /\ left = [s \in Boxes |-> ""]
  BY DEF FlInit
<1>2. 0 \in 0..MaxPeople /\ FollowGrace \in Nat /\ FollowGrace \in 0..FollowGrace /\ FlHome \in FlMaps /\ -1 \in Int
  BY IdleFollowAssumption DEF IdleFollowAssumption
<1>3. NoOne \in [n : 0..MaxPeople, age : Nat] /\ NoOne.n = 0 BY NoOneIs
<1>4. /\ DOMAIN memory = Boxes /\ \A s \in Boxes : memory[s] \in [Boxes \ {s} -> [n : 0..MaxPeople, age : Nat]]
      /\ target \in [Boxes -> Targets] /\ \A s \in Boxes : target[s] = NoTarget
  BY <1>1, <1>3, NoTargetIs
<1>5. FlTyped
  <2>1. target \in [Boxes -> [tag : Boxes \cup {0}, map : FlMaps \cup {""}, age : Nat]] BY <1>4 DEF Targets
  <2> QED BY <1>1, <1>2, <1>4, <2>1 DEF FlTyped
<1>6. \A s \in Boxes : \A t \in Boxes \ {s} : Remembers(s, t)
  <2> TAKE s \in Boxes
  <2> TAKE t \in Boxes \ {s}
  <2>1. Min({FollowGrace, up[s]}) = 0
    <3>1. 0 \in Nat /\ up[s] = 0 BY <1>1
    <3> QED BY <1>2, <3>1, MinOfTwo
  <2>2. memory[s][t] = NoOne /\ silent[t] = FollowGrace /\ done = {} BY <1>1
  <2> QED BY <1>2, <1>3, <2>1, <2>2 DEF Remembers
<1>7. \A s \in Boxes : ~Loading(s)
  <2>1. \A s \in Boxes : loads[s] = -1 BY <1>1
  <2> QED BY <2>1 DEF Loading
<1>8. \A s \in Boxes : target[s].age <= up[s]
  <2>1. \A s \in Boxes : up[s] = 0 BY <1>1
  <2> QED BY <1>4, <2>1, NoTargetIs
<1>9. FollowSound BY <1>1 DEF NoMove, FollowSound, RotateOnlyQuiet, FollowRate
<1> QED BY <1>1, <1>5, <1>6, <1>7, <1>8, <1>9 DEF FollowInv

\* Every step of the idle servers keeps the invariant.
LEMMA FollowNext == FollowInv /\ [FlNext]_flVars => FollowInv'
<1> SUFFICES ASSUME FollowInv, [FlNext]_flVars PROVE FollowInv' OBVIOUS
<1>1. CASE FlTick BY <1>1, TickKeeps
<1>2. ASSUME NEW s \in Boxes, IdleRotateThink(s) PROVE FollowInv' BY <1>2, ThinkKeeps
<1>3. ASSUME NEW s \in Boxes, MatchExit(s) PROVE FollowInv'
  <2>1. exit[s] \in FlMaps \cup {""} /\ armed[s] \in FlMaps \cup {""} BY Parts DEF Exits
  <2>2. PICK m \in {exit[s], armed[s]} : BeginLoad(s, m) BY <1>3 DEF MatchExit
  <2>3. m \in FlMaps BY <2>1, <2>2 DEF BeginLoad
  <2> QED BY <2>2, <2>3, LoadKeeps
<1>4. ASSUME NEW s \in Boxes, EndLoad(s) PROVE FollowInv' BY <1>4, LoadedKeeps
<1>5. ASSUME NEW s \in Boxes, Visit(s) PROVE FollowInv' BY <1>5, VisitKeeps
<1>6. ASSUME NEW s \in Boxes, NEW m \in FlMaps, Steer(s, m) PROVE FollowInv'
  <2>1. exit' \in [Boxes -> FlMaps \cup {""}] /\ armed' \in [Boxes -> FlMaps \cup {""}]
    BY <1>6, Parts DEF Steer, Exits
  <2> QED BY <1>6, <2>1, ArmKeeps DEF Steer, flHistory
<1>7. ASSUME NEW m \in FlMaps, VotePasses(m) PROVE FollowInv'
  <2>1. exit' \in [Boxes -> FlMaps \cup {""}] /\ armed' \in [Boxes -> FlMaps \cup {""}]
    BY <1>7, Parts DEF VotePasses, Exits
  <2> QED BY <1>7, <2>1, ArmKeeps DEF VotePasses, flHistory
<1>8. CASE UNCHANGED flVars
  <2>1. exit' \in [Boxes -> FlMaps \cup {""}] /\ armed' \in [Boxes -> FlMaps \cup {""}]
    BY <1>8, Parts DEF flVars, Exits
  <2> QED BY <1>8, <2>1, ArmKeeps DEF flVars
<1> QED BY <1>1, <1>2, <1>3, <1>4, <1>5, <1>6, <1>7, <1>8 DEF FlNext, FlBoxes, FlPeople

(* An empty server never rotates to a random map while somebody it could   *)
(* have heard since its own load plays within the grace, and it follows    *)
(* nobody before it has been up for the delay: for every number of servers *)
(* and every value of the delays, the grace longer than a map load         *)
(* (maprotate.as, RACE_FollowThink and RACE_IdleRotateThink).              *)
THEOREM IdleServersFollow == FlSpec => []FollowSound
<1>1. FlInit => FollowInv BY FollowInit
<1>2. FollowInv /\ [FlNext]_flVars => FollowInv' BY FollowNext
<1>3. FollowInv => FollowSound BY DEF FollowInv
<1> QED BY <1>1, <1>2, <1>3, PTL DEF FlSpec

-----------------------------------------------------------------------------
(* The mesh vote: what the actions have in common.                         *)

\* What the invariant says of the state's parts, for citing.
LEMMA VoteParts ==
  ASSUME ConvergeInv
  PROVE  /\ mvNow \in Nat /\ vote \in [Tags -> Votes] /\ cool \in [Tags -> Nat]
         /\ budget.opens \in 0..MaxOpens /\ DOMAIN budget = {"opens", "casts", "odd"}
         /\ result \in [Tags -> [on : BOOLEAN, id : Ids \cup {NoId}, pass : BOOLEAN, map : MvMaps, until : Nat]]
         /\ \A s \in Tags : /\ vote[s].on \in BOOLEAN /\ vote[s].mine \in BOOLEAN /\ vote[s].due \in Nat
                            /\ vote[s].map \in MvMaps
                            /\ vote[s].on => vote[s].id \in Ids /\ Opened(vote[s].id)
         /\ \A e \in air : e.to \in Tags /\ e.id \in Ids /\ Opened(e.id) /\ (e.kind = "O" => e.body \in MvMaps)
<1>1. MvTyped BY DEF ConvergeInv
<1>2. ASSUME NEW s \in Tags
      PROVE  /\ vote[s].on \in BOOLEAN /\ vote[s].mine \in BOOLEAN /\ vote[s].due \in Nat /\ vote[s].map \in MvMaps
  <2>1. vote[s] \in Votes BY <1>1 DEF MvTyped
  <2> QED BY <2>1 DEF Votes
<1> QED BY <1>1, <1>2 DEF MvTyped

\* A running vote is its master's.
LEMMA MasterRuns ==
  ASSUME ConvergeInv, NEW s \in Tags, vote[s].on, vote[s].mine
  PROVE  vote[s].id[1] = s /\ Running(vote[s].id)
<1>1. vote[s].id[1] = s BY DEF ConvergeInv, Owned
<1> QED BY <1>1 DEF Running

\* Steps that leave the votes as they are, but for the ballots.
LEMMA VotesStay ==
  ASSUME ConvergeInv, NEW s \in Tags,
         vote' \in [Tags -> Votes],
         \A t \in Tags : /\ vote'[t].on = vote[t].on /\ vote'[t].id = vote[t].id /\ vote'[t].mine = vote[t].mine
                         /\ vote'[t].master = vote[t].master /\ vote'[t].due = vote[t].due,
         mvNow' = mvNow, cool' = cool, unaware \subseteq unaware',
         budget'.opens = budget.opens, DOMAIN budget' = DOMAIN budget,
         result' \in [Tags -> [on : BOOLEAN, id : Ids \cup {NoId}, pass : BOOLEAN, map : MvMaps, until : Nat]],
         \A t \in Tags : result'[t].on => result[t].on /\ result'[t].id = result[t].id,
         \A e \in air' : \/ e \in air
                         \/ /\ e.to \in Tags /\ e.id \in Ids /\ Opened(e.id) /\ e.kind # "O" /\ e.to # e.from
                            /\ e.kind = "R" => result[s].on /\ e.id = result[s].id,
         \A e \in air : e.kind = "O" =>
            \/ e \in air' \/ <<e.to, e.id>> \in unaware'
            \/ vote[e.to].on /\ ~vote[e.to].mine /\ vote[e.to].id = e.id,
         \A t \in thought' : t \in thought \/ (t = s /\ (vote[s].on /\ vote[s].mine => mvNow < vote[s].due))
  PROVE  ConvergeInv'
<1>1. \A id \in Ids : Running(id)' <=> Running(id)
  <2>1. \A id \in Ids : id[1] \in Tags BY DEF Ids
  <2> QED BY <2>1 DEF Running
<1>2. \A id : Opened(id)' <=> Opened(id) BY DEF Opened
<1>3. MvTyped'
  <2>1. \A t \in Tags : vote'[t].on => vote'[t].id \in Ids /\ Opened(vote[t].id)' BY <1>2, VoteParts
  <2>2. \A e \in air' : e.to \in Tags /\ e.id \in Ids /\ Opened(e.id)' /\ (e.kind = "O" => e.body \in MvMaps)
    BY <1>2, VoteParts
  <2> QED BY <2>1, <2>2, VoteParts DEF MvTyped
<1>4. Owned'
  <2>1. Owned BY DEF ConvergeInv
  <2>2. \A t \in Tags : result'[t].on => result'[t].id \in Ids /\ Opened(result[t].id)' /\ result'[t].id[1] = t
    BY <1>2, <2>1 DEF Owned
  <2> QED BY <2>1, <2>2 DEF Owned
<1>5. Settled'
  <2>1. Settled /\ Owned BY DEF ConvergeInv
  <2>2. \A t \in Tags : result'[t].on => ~Running(result[t].id)' BY <1>1, <2>1 DEF Settled, Owned
  <2>3. \A e \in air' : e.kind = "R" => ~Running(e.id)'
    <3> TAKE e \in air'
    <3>1. e.id \in Ids BY VoteParts
    <3> QED BY <1>1, <2>1, <3>1 DEF Settled
  <2>4. \A t \in Tags : vote'[t].on /\ vote'[t].mine =>
          /\ mvNow' <= vote'[t].due /\ vote'[t].due <= mvNow' + Duration
          /\ t \in thought' => mvNow' < vote'[t].due
    BY <2>1 DEF Settled
  <2>5. \A t \in Tags : vote'[t].on /\ ~vote'[t].mine /\ Running(vote[t].id)' =>
          vote'[vote'[t].id[1]].due <= vote'[t].due
    <3> TAKE t \in Tags
    <3>1. vote[t].on => vote[t].id \in Ids /\ vote[t].id[1] \in Tags BY VoteParts DEF Ids
    <3> QED BY <1>1, <2>1, <3>1 DEF Settled
  <2> QED BY <2>2, <2>3, <2>4, <2>5 DEF Settled
<1>6. ASSUME NEW r \in Tags, NEW t \in Tags, r < t, vote'[r].on, vote'[r].mine
      PROVE  \/ <<t, vote'[r].id>> \in unaware'
             \/ \E e \in air' : e.kind = "O" /\ e.to = t /\ e.id = vote'[r].id
             \/ Aware(r, t)'
  <2>1. CASE <<t, vote[r].id>> \in unaware BY <2>1
  <2>2. CASE Aware(r, t) BY <2>2 DEF Aware
  <2>3. ASSUME NEW e \in air, e.kind = "O", e.to = t, e.id = vote[r].id
        PROVE  \/ <<t, vote'[r].id>> \in unaware'
               \/ \E x \in air' : x.kind = "O" /\ x.to = t /\ x.id = vote'[r].id
               \/ Aware(r, t)'
    BY <2>3 DEF Aware
  <2>4. \/ <<t, vote[r].id>> \in unaware \/ Aware(r, t)
        \/ \E e \in air : e.kind = "O" /\ e.to = t /\ e.id = vote[r].id
    BY <1>6 DEF ConvergeInv
  <2> QED BY <2>1, <2>2, <2>3, <2>4
<1> QED BY <1>3, <1>4, <1>5, <1>6 DEF ConvergeInv

\* Steps after which a server runs or follows no vote.
LEMMA VoteDropped ==
  ASSUME ConvergeInv, NEW s \in Tags,
         vote' = [vote EXCEPT ![s] = NoVote],
         mvNow' = mvNow, unaware \subseteq unaware', cool' \in [Tags -> Nat],
         \A t \in Tags \ {s} : cool'[t] = cool[t],
         budget'.opens = budget.opens, DOMAIN budget' = DOMAIN budget,
         result' \in [Tags -> [on : BOOLEAN, id : Ids \cup {NoId}, pass : BOOLEAN, map : MvMaps, until : Nat]],
         \A t \in Tags : result'[t].on => \/ result[t].on /\ result'[t].id = result[t].id
                                          \/ t = s /\ vote[s].on /\ vote[s].mine /\ result'[t].id = vote[s].id,
         \A e \in air' : \/ e \in air
                         \/ /\ e.to \in Tags /\ e.id \in Ids /\ Opened(e.id) /\ e.kind # "O" /\ e.to # e.from
                            /\ e.kind = "R" => \/ result[s].on /\ e.id = result[s].id
                                               \/ vote[s].on /\ vote[s].mine /\ e.id = vote[s].id,
         \A e \in air : e.kind = "O" => e \in air',
         thought' \subseteq thought \cup {s},
         \A r \in Tags : r < s /\ vote[r].on /\ vote[r].mine /\ Aware(r, s) =>
            \/ <<s, vote[r].id>> \in unaware'
            \/ mvNow = vote[r].due /\ cool'[s] > mvNow
  PROVE  ConvergeInv'
<1>1. ~NoVote.on /\ NoVote \in Votes
  BY MeshVoteAssumption DEF NoVote, Votes, MeshVoteAssumption
<1>2. /\ vote' \in [Tags -> Votes] /\ ~vote'[s].on /\ \A t \in Tags \ {s} : vote'[t] = vote[t]
  BY <1>1, VoteParts
<1>3. \A id \in Ids : Running(id)' => Running(id) /\ id[1] # s
  <2>1. \A id \in Ids : id[1] \in Tags BY DEF Ids
  <2> QED BY <1>2, <2>1 DEF Running
<1>4. \A id : Opened(id)' <=> Opened(id) BY DEF Opened
<1>5. MvTyped'
  <2>1. \A t \in Tags : vote'[t].on => vote'[t].id \in Ids /\ Opened(vote[t].id)'
    <3> TAKE t \in Tags
    <3> QED BY <1>2, <1>4, VoteParts
  <2>2. \A e \in air' : e.to \in Tags /\ e.id \in Ids /\ Opened(e.id)' /\ (e.kind = "O" => e.body \in MvMaps)
    BY <1>4, VoteParts
  <2> QED BY <1>2, <2>1, <2>2, VoteParts DEF MvTyped
<1>6. vote[s].on /\ vote[s].mine => vote[s].id \in Ids /\ vote[s].id[1] = s /\ Opened(vote[s].id)
  BY VoteParts, MasterRuns
<1>7. Owned'
  <2>1. Owned BY DEF ConvergeInv
  <2>2. \A t \in Tags : result'[t].on => result'[t].id \in Ids /\ Opened(result[t].id)' /\ result'[t].id[1] = t
    BY <1>4, <1>6, <2>1 DEF Owned
  <2>3. \A t \in Tags : vote'[t].on => vote'[t].master = vote'[t].id[1] /\ (vote'[t].mine <=> vote'[t].master = t)
    <3> TAKE t \in Tags
    <3> QED BY <1>2, <2>1 DEF Owned
  <2>4. \A e \in air' : (e.kind = "O" => e.from = e.id[1]) /\ e.to # e.from BY <2>1 DEF Owned
  <2> QED BY <2>2, <2>3, <2>4 DEF Owned
<1>8. Settled'
  <2>1. Settled /\ Owned BY DEF ConvergeInv
  <2>2. \A t \in Tags : result'[t].on => ~Running(result[t].id)'
    <3> TAKE t \in Tags
    <3>1. result[t].on => result[t].id \in Ids /\ ~Running(result[t].id) BY <2>1 DEF Settled, Owned
    <3> QED BY <1>3, <1>6, <3>1
  <2>3. \A e \in air' : e.kind = "R" => ~Running(e.id)'
    <3> TAKE e \in air'
    <3>1. e.id \in Ids BY VoteParts
    <3>2. result[s].on => ~Running(result[s].id) BY <2>1 DEF Settled
    <3> QED BY <1>3, <1>6, <2>1, <3>1, <3>2 DEF Settled
  <2>4. \A t \in Tags : vote'[t].on /\ vote'[t].mine =>
          /\ mvNow' <= vote'[t].due /\ vote'[t].due <= mvNow' + Duration
          /\ t \in thought' => mvNow' < vote'[t].due
    <3> TAKE t \in Tags
    <3> QED BY <1>2, <2>1 DEF Settled
  <2>5. \A t \in Tags : vote'[t].on /\ ~vote'[t].mine /\ Running(vote[t].id)' =>
          vote'[vote'[t].id[1]].due <= vote'[t].due
    <3> TAKE t \in Tags
    <3>1. vote'[t].on => vote[t].on /\ vote'[t] = vote[t] /\ vote[t].id \in Ids /\ vote[t].id[1] \in Tags
      BY <1>2, VoteParts DEF Ids
    <3> QED BY <1>2, <1>3, <2>1, <3>1 DEF Settled
  <2> QED BY <2>2, <2>3, <2>4, <2>5 DEF Settled
<1>9. ASSUME NEW r \in Tags, NEW t \in Tags, r < t, vote'[r].on, vote'[r].mine
      PROVE  \/ <<t, vote'[r].id>> \in unaware'
             \/ \E e \in air' : e.kind = "O" /\ e.to = t /\ e.id = vote'[r].id
             \/ Aware(r, t)'
  <2>1. r # s /\ vote'[r] = vote[r] BY <1>2, <1>9
  <2>2. CASE <<t, vote[r].id>> \in unaware BY <2>1, <2>2
  <2>3. CASE Aware(r, t)
    <3>1. CASE t = s BY <1>2, <1>9, <2>1, <2>3, <3>1 DEF Aware
    <3>2. CASE t # s
      <4>1. vote'[t] = vote[t] /\ cool'[t] = cool[t] BY <1>2, <3>2
      <4> QED BY <2>1, <2>3, <4>1 DEF Aware
    <3> QED BY <3>1, <3>2
  <2>4. CASE \E e \in air : e.kind = "O" /\ e.to = t /\ e.id = vote[r].id BY <2>1, <2>4
  <2> QED BY <1>9, <2>1, <2>2, <2>3, <2>4 DEF ConvergeInv
<1> QED BY <1>5, <1>7, <1>8, <1>9 DEF ConvergeInv

\* What a server sends of its subtotals and results.
LEMMA Said ==
  ASSUME ConvergeInv, NEW s \in Tags, NEW e \in Repeated(s) \cup Event(s, "T", vote[s].id, Subtotal(s)),
         vote[s].on \/ e \in Repeated(s)
  PROVE  /\ e.to \in Tags /\ e.id \in Ids /\ Opened(e.id) /\ e.kind # "O" /\ e.to # e.from
         /\ e.kind = "R" => result[s].on /\ e.id = result[s].id
<1>1. CASE e \in Repeated(s)
  <2>1. result[s].on BY <1>1 DEF Repeated
  <2>2. result[s].id \in Ids /\ Opened(result[s].id) BY <2>1 DEF ConvergeInv, Owned
  <2>3. /\ e.to \in Tags \ {s} /\ e.from = s /\ e.kind = "R" /\ e.id = result[s].id
    BY <1>1, <2>1 DEF Repeated, Event
  <2> QED BY <2>1, <2>2, <2>3
<1>2. CASE e \in Event(s, "T", vote[s].id, Subtotal(s)) /\ vote[s].on
  <2>1. vote[s].id \in Ids /\ Opened(vote[s].id) BY <1>2, VoteParts
  <2>2. e.to \in Tags \ {s} /\ e.from = s /\ e.kind = "T" /\ e.id = vote[s].id
    BY <1>2 DEF Event
  <2> QED BY <2>1, <2>2
<1> QED BY <1>1, <1>2

-----------------------------------------------------------------------------
(* The mesh vote: the players.                                             *)

\* A fresh vote: nobody follows it, and everybody is told.
LEMMA OpenKeeps ==
  ASSUME ConvergeInv, NEW s \in Tags, NEW c \in Slots, NEW m \in MvMaps, Open(s, c, m)
  PROVE  ConvergeInv'
<1> DEFINE n == MaxOpens - budget.opens + 1
<1>2. /\ mvNow \in Nat /\ Duration \in Nat /\ Duration > 0 /\ MaxOpens \in Nat /\ budget.opens \in 0..MaxOpens
      /\ budget.opens \in Int /\ budget.opens > 0
  BY VoteParts, MeshVoteAssumption DEF MeshVoteAssumption, Open
<1>3. n \in 1..MaxOpens BY <1>2
<1>4. PICK id \in Ids : id = <<s, n>> BY <1>3 DEF Ids
<1> DEFINE new == [on |-> TRUE, id |-> id, map |-> m, master |-> s, mine |-> TRUE,
                   due |-> mvNow + Duration, ballot |-> [NoVote.ballot EXCEPT ![c] = "yes"]]
<1>1. /\ budget.opens > 0 /\ budget' = [budget EXCEPT !.opens = budget.opens - 1]
      /\ ~vote[s].on /\ mvNow >= cool[s] /\ vote' = [vote EXCEPT ![s] = new]
      /\ air' = air \cup Event(s, "O", id, m)
      /\ UNCHANGED <<mvNow, cool, result, thought, unaware>>
  BY <1>4 DEF Open, CanStart
<1>5. new \in Votes
  <2>1. [NoVote.ballot EXCEPT ![c] = "yes"] \in [Slots -> {"yes", "no", "none"}] BY DEF NoVote
  <2>2. mvNow + Duration \in Nat BY <1>2
  <2> QED BY <2>1, <2>2 DEF Votes
<1>6. new.on /\ new.id = id /\ new.master = s /\ new.mine /\ new.due = mvNow + Duration OBVIOUS
<1>7. id[1] = s /\ id[2] = n BY <1>4
<1> HIDE DEF new
<1>8. /\ vote' \in [Tags -> Votes] /\ vote'[s] = new /\ \A t \in Tags \ {s} : vote'[t] = vote[t]
  BY <1>1, <1>5, VoteParts
<1>9. /\ DOMAIN budget' = {"opens", "casts", "odd"} /\ budget'.opens = budget.opens - 1
      /\ budget'.opens \in 0..MaxOpens
  <2>1. DOMAIN budget = {"opens", "casts", "odd"} BY VoteParts
  <2>2. DOMAIN budget' = {"opens", "casts", "odd"} BY <1>1, <2>1
  <2>3. budget'.opens = budget.opens - 1 BY <1>1, <2>1
  <2>4. budget.opens - 1 \in 0..MaxOpens BY <1>1, <1>2
  <2> QED BY <2>2, <2>3, <2>4
<1>10. Opened(id)' /\ ~Opened(id) /\ \A x \in Ids : Opened(x) => Opened(x)'
  <2>1. \A x : Opened(x)' <=> x[2] <= MaxOpens - (budget.opens - 1) BY <1>9 DEF Opened
  <2>2. \A x \in Ids : x[2] \in Int BY DEF Ids
  <2>3. \A x : Opened(x) <=> x[2] <= MaxOpens - budget.opens BY DEF Opened
  <2>4. id[2] <= MaxOpens - (budget.opens - 1) /\ ~(id[2] <= MaxOpens - budget.opens)
    BY <1>2, <1>7
  <2>5. \A x \in Ids : x[2] <= MaxOpens - budget.opens => x[2] <= MaxOpens - (budget.opens - 1)
    BY <1>2, <2>2
  <2> HIDE DEF n
  <2> QED BY <2>1, <2>3, <2>4, <2>5
<1>11. /\ \A e \in Event(s, "O", id, m) : /\ e.kind = "O" /\ e.id = id /\ e.from = s /\ e.to \in Tags /\ e.to # s
                                          /\ e.body = m
       /\ \A t \in Tags \ {s} : \E e \in Event(s, "O", id, m) : e.kind = "O" /\ e.to = t /\ e.id = id
  <2>1. ASSUME NEW t \in Tags \ {s} PROVE \E e \in Event(s, "O", id, m) : e.kind = "O" /\ e.to = t /\ e.id = id
    <3>1. [to |-> t, from |-> s, kind |-> "O", id |-> id, body |-> m] \in Event(s, "O", id, m) BY DEF Event
    <3> QED BY <3>1
  <2>2. ASSUME NEW e \in Event(s, "O", id, m)
        PROVE  e.kind = "O" /\ e.id = id /\ e.from = s /\ e.to \in Tags /\ e.to # s /\ e.body = m
    BY DEF Event
  <2> QED BY <2>1, <2>2
<1>12. MvTyped'
  <2>1. ASSUME NEW t \in Tags, vote'[t].on PROVE vote'[t].id \in Ids /\ Opened(vote[t].id)'
    <3>1. CASE t = s
      <4>1. vote'[t].id = id BY <1>6, <1>8, <3>1
      <4> QED BY <1>10, <4>1
    <3>2. CASE t # s
      <4>1. vote'[t] = vote[t] BY <1>8, <3>2
      <4>2. vote[t].id \in Ids /\ Opened(vote[t].id) BY <2>1, <4>1, VoteParts
      <4> QED BY <1>10, <4>1, <4>2
    <3> QED BY <3>1, <3>2
  <2>2. ASSUME NEW e \in air'
        PROVE e.to \in Tags /\ e.id \in Ids /\ Opened(e.id)' /\ (e.kind = "O" => e.body \in MvMaps)
    BY <1>1, <1>4, <1>10, <1>11, VoteParts, SMTT(60)
  <2> QED BY <1>1, <1>8, <1>9, <2>1, <2>2, VoteParts DEF MvTyped
<1>13. Owned'
  <2>1. Owned BY DEF ConvergeInv
  <2>2. ASSUME NEW t \in Tags, vote'[t].on
        PROVE vote'[t].master = vote'[t].id[1] /\ (vote'[t].mine <=> vote'[t].master = t)
    <3>1. CASE t = s BY <1>6, <1>7, <1>8, <3>1
    <3>2. CASE t # s
      <4>1. vote'[t] = vote[t] BY <1>8, <3>2
      <4> QED BY <2>1, <2>2, <4>1 DEF Owned
    <3> QED BY <3>1, <3>2
  <2>3. \A t \in Tags : result'[t].on => result'[t].id \in Ids /\ Opened(result[t].id)' /\ result'[t].id[1] = t
    BY <1>1, <1>10, <2>1 DEF Owned
  <2>4. ASSUME NEW e \in air' PROVE (e.kind = "O" => e.from = e.id[1]) /\ e.to # e.from
    <3>1. CASE e \in air BY <2>1, <3>1 DEF Owned
    <3>2. CASE e \in Event(s, "O", id, m) BY <1>7, <1>11, <3>2
    <3> QED BY <1>1, <3>1, <3>2
  <2> QED BY <2>2, <2>3, <2>4 DEF Owned
<1>14. \A x \in Ids : Opened(x) => (Running(x)' => Running(x))
  <2> TAKE x \in Ids
  <2>1. x[1] \in Tags BY DEF Ids
  <2>2. CASE x[1] = s BY <1>6, <1>8, <1>10, <2>2 DEF Running
  <2>3. CASE x[1] # s
    <3>1. vote'[x[1]] = vote[x[1]] BY <1>8, <2>1, <2>3
    <3> QED BY <3>1 DEF Running
  <2> QED BY <2>2, <2>3
<1>15. Settled'
  <2>1. Settled /\ Owned BY DEF ConvergeInv
  <2>2. \A t \in Tags : result'[t].on => ~Running(result[t].id)' BY <1>1, <1>14, <2>1 DEF Settled, Owned
  <2>3. ASSUME NEW e \in air', e.kind = "R" PROVE ~Running(e.id)'
    <3>1. e \in air BY <1>1, <1>11, <2>3
    <3> QED BY <1>14, <2>1, <2>3, <3>1, VoteParts DEF Settled
  <2>4. ASSUME NEW t \in Tags, vote'[t].on, vote'[t].mine
        PROVE  /\ mvNow' <= vote'[t].due /\ vote'[t].due <= mvNow' + Duration
               /\ t \in thought' => mvNow' < vote'[t].due
    <3>1. CASE t = s BY <1>1, <1>2, <1>6, <1>8, <3>1
    <3>2. CASE t # s
      <4>1. vote'[t] = vote[t] BY <1>8, <3>2
      <4> QED BY <1>1, <2>1, <2>4, <4>1 DEF Settled
    <3> QED BY <3>1, <3>2
  <2>5. ASSUME NEW t \in Tags, vote'[t].on, ~vote'[t].mine, Running(vote[t].id)'
        PROVE  vote'[vote'[t].id[1]].due <= vote'[t].due
    <3>1. t # s /\ vote'[t] = vote[t] BY <1>6, <1>8, <2>5
    <3>2. vote[t].id \in Ids /\ Opened(vote[t].id) /\ vote[t].id[1] \in Tags BY <2>5, <3>1, VoteParts DEF Ids
    <3>3. Running(vote[t].id) BY <1>14, <2>5, <3>1, <3>2
    <3>4. vote[t].id[1] # s BY <1>1, <3>3 DEF Running
    <3>5. vote'[vote[t].id[1]] = vote[vote[t].id[1]] BY <1>8, <3>2, <3>4
    <3> QED BY <2>1, <2>5, <3>1, <3>3, <3>5 DEF Settled
  <2> QED BY <2>2, <2>3, <2>4, <2>5 DEF Settled
<1>16. ASSUME NEW r \in Tags, NEW t \in Tags, r < t, vote'[r].on, vote'[r].mine
       PROVE  \/ <<t, vote'[r].id>> \in unaware'
              \/ \E e \in air' : e.kind = "O" /\ e.to = t /\ e.id = vote'[r].id
              \/ Aware(r, t)'
  <2>1. r # t BY <1>16, MeshVoteAssumption DEF MeshVoteAssumption
  <2>2. CASE r = s
    <3>1. vote'[r].id = id BY <1>6, <1>8, <2>2
    <3>2. PICK e \in Event(s, "O", id, m) : e.kind = "O" /\ e.to = t /\ e.id = id BY <1>11, <2>1, <2>2
    <3> QED BY <1>1, <3>1, <3>2
  <2>3. CASE r # s
    <3>1. vote'[r] = vote[r] BY <1>8, <2>3
    <3>2. \/ <<t, vote[r].id>> \in unaware \/ Aware(r, t)
          \/ \E e \in air : e.kind = "O" /\ e.to = t /\ e.id = vote[r].id
      BY <1>16, <3>1 DEF ConvergeInv
    <3>3. CASE Aware(r, t)
      <4>1. t # s
        <5>1. CASE t = s
          <6>1. mvNow = vote[r].due /\ cool[s] > mvNow BY <1>1, <3>3, <5>1 DEF Aware
          <6>2. cool[s] \in Nat BY VoteParts
          <6> QED BY <1>1, <1>2, <6>1, <6>2
        <5> QED BY <5>1
      <4>2. vote'[t] = vote[t] BY <1>8, <4>1
      <4> QED BY <1>1, <3>1, <3>3, <4>2 DEF Aware
    <3> QED BY <1>1, <3>1, <3>2, <3>3
  <2> QED BY <2>2, <2>3
<1> QED BY <1>12, <1>13, <1>15, <1>16 DEF ConvergeInv

\* A ballot is only counted at the next frame.
LEMMA CastKeeps ==
  ASSUME ConvergeInv, NEW s \in Tags, NEW c \in Slots, NEW b \in {"yes", "no"}, Cast(s, c, b)
  PROVE  ConvergeInv'
<1>1. /\ vote' = [vote EXCEPT ![s] = [vote[s] EXCEPT !.ballot = [vote[s].ballot EXCEPT ![c] = b]]]
      /\ thought' = thought \ {s} /\ budget' = [budget EXCEPT !.casts = @ - 1]
      /\ UNCHANGED <<mvNow, result, cool, air, unaware>>
  BY DEF Cast
<1>2. vote \in [Tags -> Votes] /\ vote[s] \in Votes BY VoteParts
<1> DEFINE new == [vote[s] EXCEPT !.ballot = [vote[s].ballot EXCEPT ![c] = b]]
<1>3. /\ new \in Votes
      /\ new.on = vote[s].on /\ new.id = vote[s].id /\ new.mine = vote[s].mine /\ new.master = vote[s].master
      /\ new.due = vote[s].due
  <2>1. vote[s].ballot \in [Slots -> {"yes", "no", "none"}] BY <1>2 DEF Votes
  <2>2. [vote[s].ballot EXCEPT ![c] = b] \in [Slots -> {"yes", "no", "none"}] BY <2>1
  <2> QED BY <1>2, <2>2 DEF Votes
<1> HIDE DEF new
<1>4. vote' = [vote EXCEPT ![s] = new] BY <1>1 DEF new
<1>5. vote' \in [Tags -> Votes] /\ vote'[s] = new /\ \A t \in Tags \ {s} : vote'[t] = vote[t]
  BY <1>2, <1>3, <1>4
<1>6. \A t \in Tags : /\ vote'[t].on = vote[t].on /\ vote'[t].id = vote[t].id /\ vote'[t].mine = vote[t].mine
                      /\ vote'[t].master = vote[t].master /\ vote'[t].due = vote[t].due
  BY <1>3, <1>5
<1>7. budget'.opens = budget.opens /\ DOMAIN budget' = DOMAIN budget BY <1>1, VoteParts
<1>8. result' \in [Tags -> [on : BOOLEAN, id : Ids \cup {NoId}, pass : BOOLEAN, map : MvMaps, until : Nat]]
  BY <1>1, VoteParts
<1> QED BY <1>1, <1>5, <1>6, <1>7, <1>8, VotesStay

\* Steps that touch neither votes nor events.
LEMMA CrowdKeeps ==
  ASSUME ConvergeInv, NEW s \in Tags, budget'.opens = budget.opens, DOMAIN budget' = DOMAIN budget,
         UNCHANGED <<mvNow, vote, result, cool, air, thought, unaware>>
  PROVE  ConvergeInv'
<1>1. /\ result' \in [Tags -> [on : BOOLEAN, id : Ids \cup {NoId}, pass : BOOLEAN, map : MvMaps, until : Nat]]
      /\ vote' \in [Tags -> Votes]
  BY VoteParts
<1> QED BY <1>1, VotesStay

\* A master drops its own vote: no other server was waiting for it to follow.
LEMMA MasterFree ==
  ASSUME NEW s \in Tags, vote[s].on, vote[s].mine
  PROVE  \A r \in Tags : ~Aware(r, s)
BY DEF Aware

\* The master gives its vote up.
LEMMA CancelKeeps ==
  ASSUME ConvergeInv, NEW s \in Tags, Cancel(s)
  PROVE  ConvergeInv'
<1>1. /\ vote[s].on /\ vote[s].mine /\ vote' = [vote EXCEPT ![s] = NoVote]
      /\ cool' = [cool EXCEPT ![s] = mvNow + Cooldown]
      /\ air' = air \cup Event(s, "R", vote[s].id, "FAIL")
      /\ UNCHANGED <<mvNow, result, thought, budget, unaware>>
  BY DEF Cancel, Reset, mvHistory
<1>2. cool' \in [Tags -> Nat] /\ \A t \in Tags \ {s} : cool'[t] = cool[t]
  <2>1. mvNow + Cooldown \in Nat BY VoteParts, MeshVoteAssumption DEF MeshVoteAssumption
  <2> QED BY <1>1, <2>1, VoteParts
<1>3. ASSUME NEW e \in Event(s, "R", vote[s].id, "FAIL")
      PROVE  /\ e.to \in Tags /\ e.id \in Ids /\ Opened(e.id) /\ e.kind # "O" /\ e.to # e.from /\ e.id = vote[s].id
  <2>1. vote[s].id \in Ids /\ Opened(vote[s].id) BY <1>1, VoteParts
  <2>2. e.to \in Tags \ {s} /\ e.from = s /\ e.kind = "R" /\ e.id = vote[s].id BY DEF Event
  <2> QED BY <2>1, <2>2
<1>4. result' \in [Tags -> [on : BOOLEAN, id : Ids \cup {NoId}, pass : BOOLEAN, map : MvMaps, until : Nat]]
  BY <1>1, VoteParts
<1> QED BY <1>1, <1>2, <1>3, <1>4, MasterFree, VoteDropped

\* A map load: whoever runs a vote is forgotten.
LEMMA VoteLoadKeeps ==
  ASSUME ConvergeInv, NEW s \in Tags, NEW m, Load(s, m), mvNow' = mvNow,
         budget'.opens = budget.opens, DOMAIN budget' = DOMAIN budget,
         air' = air \cup Repeated(s) \/ air' = air, thought' \subseteq thought \cup {s}
  PROVE  ConvergeInv'
<1>1. /\ vote' = [vote EXCEPT ![s] = NoVote] /\ cool' = [cool EXCEPT ![s] = 0]
      /\ result' = [result EXCEPT ![s] = NoResult]
      /\ unaware' = unaware \cup {<<s, vote[t].id>> : t \in {u \in Tags \ {s} : vote[u].on /\ vote[u].mine}}
  BY DEF Load
<1>2. cool' \in [Tags -> Nat] /\ \A t \in Tags \ {s} : cool'[t] = cool[t]
  <2>1. 0 \in Nat OBVIOUS
  <2> QED BY <1>1, <2>1, VoteParts
<1>3. NoResult \in [on : BOOLEAN, id : Ids \cup {NoId}, pass : BOOLEAN, map : MvMaps, until : Nat] /\ ~NoResult.on
  BY MeshVoteAssumption DEF NoResult, MeshVoteAssumption
<1>4. /\ result' \in [Tags -> [on : BOOLEAN, id : Ids \cup {NoId}, pass : BOOLEAN, map : MvMaps, until : Nat]]
      /\ \A t \in Tags : result'[t].on => result[t].on /\ result'[t].id = result[t].id
  <2>1. result \in [Tags -> [on : BOOLEAN, id : Ids \cup {NoId}, pass : BOOLEAN, map : MvMaps, until : Nat]]
    BY VoteParts
  <2>2. ~result'[s].on /\ \A t \in Tags \ {s} : result'[t] = result[t] BY <1>1, <1>3, <2>1
  <2> QED BY <1>1, <1>3, <2>1, <2>2
<1>5. \A r \in Tags : r < s /\ vote[r].on /\ vote[r].mine => <<s, vote[r].id>> \in unaware'
  <2> TAKE r \in Tags
  <2>1. r < s => r # s BY MeshVoteAssumption DEF MeshVoteAssumption
  <2> QED BY <1>1, <2>1
<1>6. \A e \in air' : \/ e \in air
                      \/ /\ e.to \in Tags /\ e.id \in Ids /\ Opened(e.id) /\ e.kind # "O" /\ e.to # e.from
                         /\ e.kind = "R" => result[s].on /\ e.id = result[s].id
  BY Said
<1>7. \A e \in air : e \in air' OBVIOUS
<1>8. unaware \subseteq unaware' BY <1>1
<1> QED BY <1>1, <1>2, <1>4, <1>5, <1>6, <1>7, <1>8, VoteDropped

-----------------------------------------------------------------------------
(* The mesh vote: frames.                                                  *)

\* A frame that only counts and repeats a result decides nothing.
LEMMA RepeatKeeps ==
  ASSUME ConvergeInv, NEW s \in Tags, Rest(s) \/ Wait(s), thought' = thought \cup {s},
         UNCHANGED <<mvNow, budget, unaware>>
  PROVE  ConvergeInv'
<1>1. /\ UNCHANGED <<vote, cool>> /\ result' = Repeating(s)
      /\ \A e \in air' : e \in air \/ (e \in Repeated(s) \cup Event(s, "T", vote[s].id, Subtotal(s))
                                       /\ (vote[s].on \/ e \in Repeated(s)))
      /\ vote[s].on /\ vote[s].mine => mvNow < vote[s].due
      /\ \A e \in air : e \in air'
  BY DEF Rest, Wait, Counting
<1>2. /\ result' \in [Tags -> [on : BOOLEAN, id : Ids \cup {NoId}, pass : BOOLEAN, map : MvMaps, until : Nat]]
      /\ \A t \in Tags : result'[t].on => result[t].on /\ result'[t].id = result[t].id
  <2> DEFINE Results == [on : BOOLEAN, id : Ids \cup {NoId}, pass : BOOLEAN, map : MvMaps, until : Nat]
             new == [result[s] EXCEPT !.on = @ /\ mvNow < result[s].until]
  <2>1. result \in [Tags -> Results] /\ result[s] \in Results BY VoteParts
  <2>2. new \in Results /\ new.id = result[s].id /\ (new.on => result[s].on)
    BY <2>1
  <2>3. result' = [result EXCEPT ![s] = new] BY <1>1 DEF Repeating
  <2> HIDE DEF new, Results
  <2>4. result' \in [Tags -> Results] /\ result'[s] = new /\ \A t \in Tags \ {s} : result'[t] = result[t]
    BY <2>1, <2>2, <2>3
  <2>5. \A t \in Tags : result'[t].on => result[t].on /\ result'[t].id = result[t].id
    BY <2>2, <2>4
  <2> QED BY <2>4, <2>5 DEF Results
<1>3. \A e \in air' : \/ e \in air
                      \/ /\ e.to \in Tags /\ e.id \in Ids /\ Opened(e.id) /\ e.kind # "O" /\ e.to # e.from
                         /\ e.kind = "R" => result[s].on /\ e.id = result[s].id
  BY <1>1, Said
<1>4. vote' \in [Tags -> Votes] /\ \A t \in Tags : vote'[t] = vote[t] BY <1>1, VoteParts
<1> QED BY <1>1, <1>2, <1>3, <1>4, VotesStay

\* The master decides: the result is out and the vote is over in one step.
LEMMA DecideKeeps ==
  ASSUME ConvergeInv, NEW s \in Tags, DecidePass(s) \/ DecideFail(s), thought' = thought \cup {s},
         UNCHANGED <<mvNow, budget, unaware>>
  PROVE  ConvergeInv'
<1>1. /\ vote[s].on /\ vote[s].mine /\ vote' = [vote EXCEPT ![s] = NoVote]
      /\ cool' = [cool EXCEPT ![s] = mvNow + Cooldown]
      /\ \E pass \in BOOLEAN : BeginResult(s, pass)
      /\ \A e \in air' : e \in air \/ e \in Repeated(s) \cup Event(s, "T", vote[s].id, Subtotal(s))
      /\ \A e \in air : e \in air'
  BY DEF DecidePass, DecideFail, Counting, ArmSwitch, Reset
<1>2. cool' \in [Tags -> Nat] /\ \A t \in Tags \ {s} : cool'[t] = cool[t]
  <2>1. mvNow + Cooldown \in Nat BY VoteParts, MeshVoteAssumption DEF MeshVoteAssumption
  <2> QED BY <1>1, <2>1, VoteParts
<1>3. PICK pass \in BOOLEAN : BeginResult(s, pass) BY <1>1
<1>4. /\ result' \in [Tags -> [on : BOOLEAN, id : Ids \cup {NoId}, pass : BOOLEAN, map : MvMaps, until : Nat]]
      /\ \A t \in Tags : result'[t].on => \/ result[t].on /\ result'[t].id = result[t].id
                                          \/ t = s /\ vote[s].on /\ vote[s].mine /\ result'[t].id = vote[s].id
  <2> DEFINE Results == [on : BOOLEAN, id : Ids \cup {NoId}, pass : BOOLEAN, map : MvMaps, until : Nat]
             new == [on |-> TRUE, id |-> vote[s].id, pass |-> pass, map |-> vote[s].map, until |-> mvNow + SwitchDelay]
  <2>1. result \in [Tags -> Results] BY VoteParts
  <2>2. new \in Results /\ new.id = vote[s].id
    <3>1. mvNow + SwitchDelay \in Nat BY VoteParts, MeshVoteAssumption DEF MeshVoteAssumption
    <3>2. vote[s].id \in Ids /\ vote[s].map \in MvMaps BY <1>1, VoteParts
    <3> QED BY <3>1, <3>2
  <2>3. result' = [result EXCEPT ![s] = new] BY <1>3 DEF BeginResult
  <2> HIDE DEF new, Results
  <2>4. result' \in [Tags -> Results] /\ result'[s] = new /\ \A t \in Tags \ {s} : result'[t] = result[t]
    BY <2>1, <2>2, <2>3
  <2>5. \A t \in Tags : result'[t].on => \/ result[t].on /\ result'[t].id = result[t].id
                                         \/ t = s /\ result'[t].id = vote[s].id
    BY <2>2, <2>4
  <2> QED BY <1>1, <2>4, <2>5 DEF Results
<1>5. \A e \in air' : \/ e \in air
                      \/ /\ e.to \in Tags /\ e.id \in Ids /\ Opened(e.id) /\ e.kind # "O" /\ e.to # e.from
                         /\ e.kind = "R" => result[s].on /\ e.id = result[s].id
  BY <1>1, Said
<1> QED BY <1>1, <1>2, <1>4, <1>5, MasterFree, VoteDropped

\* A follower gives up when its master must have decided, and cools down.
LEMMA ExpireKeeps ==
  ASSUME ConvergeInv, NEW s \in Tags, ExpireVote(s), thought' = thought \cup {s},
         UNCHANGED <<mvNow, budget, unaware>>
  PROVE  ConvergeInv'
<1>1. /\ vote[s].on /\ ~vote[s].mine /\ mvNow >= vote[s].due + ExpireGrace
      /\ vote' = [vote EXCEPT ![s] = NoVote] /\ cool' = [cool EXCEPT ![s] = mvNow + Cooldown]
      /\ result' = [result EXCEPT ![s].on = @ /\ mvNow < result[s].until]
      /\ \A e \in air' : e \in air \/ e \in Repeated(s) \cup Event(s, "T", vote[s].id, Subtotal(s))
      /\ \A e \in air : e \in air'
  BY DEF ExpireVote, Counting, Reset, Repeating
<1>2. /\ mvNow \in Nat /\ ExpireGrace \in Nat /\ Cooldown \in Nat /\ Cooldown > 0
      /\ cool' \in [Tags -> Nat] /\ cool'[s] = mvNow + Cooldown /\ \A t \in Tags \ {s} : cool'[t] = cool[t]
  <2>1. mvNow + Cooldown \in Nat BY VoteParts, MeshVoteAssumption DEF MeshVoteAssumption
  <2> QED BY <1>1, <2>1, VoteParts, MeshVoteAssumption DEF MeshVoteAssumption
<1>3. /\ result' \in [Tags -> [on : BOOLEAN, id : Ids \cup {NoId}, pass : BOOLEAN, map : MvMaps, until : Nat]]
      /\ \A t \in Tags : result'[t].on => result[t].on /\ result'[t].id = result[t].id
  <2> DEFINE Results == [on : BOOLEAN, id : Ids \cup {NoId}, pass : BOOLEAN, map : MvMaps, until : Nat]
             new == [result[s] EXCEPT !.on = @ /\ mvNow < result[s].until]
  <2>1. result \in [Tags -> Results] /\ result[s] \in Results BY VoteParts
  <2>2. new \in Results /\ new.id = result[s].id /\ (new.on => result[s].on)
    BY <2>1
  <2>3. result' = [result EXCEPT ![s] = new] BY <1>1
  <2> HIDE DEF new, Results
  <2>4. result' \in [Tags -> Results] /\ result'[s] = new /\ \A t \in Tags \ {s} : result'[t] = result[t]
    BY <2>1, <2>2, <2>3
  <2>5. \A t \in Tags : result'[t].on => result[t].on /\ result'[t].id = result[t].id
    BY <2>2, <2>4
  <2> QED BY <2>4, <2>5 DEF Results
<1>4. \A e \in air' : \/ e \in air
                      \/ /\ e.to \in Tags /\ e.id \in Ids /\ Opened(e.id) /\ e.kind # "O" /\ e.to # e.from
                         /\ e.kind = "R" => result[s].on /\ e.id = result[s].id
  BY <1>1, Said
<1>5. ASSUME NEW r \in Tags, r < s, vote[r].on, vote[r].mine, Aware(r, s)
      PROVE  mvNow = vote[r].due /\ cool'[s] > mvNow
  <2>1. cool'[s] > mvNow BY <1>2
  <2>2. mvNow <= vote[r].due BY <1>5 DEF ConvergeInv, Settled
  <2>3. CASE vote[s].id = vote[r].id
    <3>1. Running(vote[s].id) /\ vote[s].id[1] = r BY <1>5, <2>3, MasterRuns
    <3>2. vote[r].due <= vote[s].due BY <1>1, <3>1 DEF ConvergeInv, Settled
    <3>3. vote[r].due \in Nat /\ vote[s].due \in Nat BY VoteParts
    <3> QED BY <1>1, <1>2, <2>1, <2>2, <3>2, <3>3
  <2> QED BY <1>5, <2>1, <2>3 DEF Aware
<1>6. /\ vote' = [vote EXCEPT ![s] = NoVote] /\ mvNow' = mvNow /\ unaware \subseteq unaware'
      /\ \A t \in Tags \ {s} : cool'[t] = cool[t]
      /\ budget'.opens = budget.opens /\ DOMAIN budget' = DOMAIN budget /\ thought' \subseteq thought \cup {s}
      /\ \A e \in air : e.kind = "O" => e \in air'
  BY <1>1, <1>2
<1> QED BY <1>2, <1>3, <1>4, <1>5, <1>6, VoteDropped

\* Time passes when every master has thought, so nobody is past the deadline.
LEMMA TickKeepsVotes ==
  ASSUME ConvergeInv, MvTick
  PROVE  ConvergeInv'
<1>1. /\ mvNow' = mvNow + 1 /\ thought' = {} /\ air = {} /\ \A s \in Tags : s \in thought \/ NothingToDo(s)
      /\ UNCHANGED <<vote, result, cool, air, budget, unaware>>
  BY DEF MvTick, mvHistory
<1>2. mvNow \in Nat /\ Duration \in Nat BY VoteParts, MeshVoteAssumption DEF MeshVoteAssumption
<1>3. \A s \in Tags : vote[s].on /\ vote[s].mine =>
        vote[s].due \in Nat /\ mvNow < vote[s].due /\ vote[s].due <= mvNow + Duration
  <2> TAKE s \in Tags
  <2>1. vote[s].on => s \in thought BY <1>1 DEF NothingToDo
  <2> QED BY <2>1, VoteParts DEF ConvergeInv, Settled
<1>4. \A id \in Ids : Running(id)' <=> Running(id) BY <1>1 DEF Running
<1>5. MvTyped' BY <1>1, <1>2 DEF ConvergeInv, MvTyped, Opened
<1>6. Owned' BY <1>1 DEF ConvergeInv, Owned, Opened
<1>7. Settled'
  <2>1. Settled BY DEF ConvergeInv
  <2>2. \A s \in Tags : result'[s].on => ~Running(result[s].id)' BY <1>1, <2>1 DEF Settled, Running
  <2>3. \A s \in Tags : vote'[s].on /\ vote'[s].mine =>
          /\ mvNow' <= vote'[s].due /\ vote'[s].due <= mvNow' + Duration
          /\ s \in thought' => mvNow' < vote'[s].due
    BY <1>1, <1>2, <1>3
  <2>4. \A t \in Tags : vote'[t].on /\ ~vote'[t].mine /\ Running(vote[t].id)' =>
          vote'[vote'[t].id[1]].due <= vote'[t].due
    BY <1>1, <2>1 DEF Settled, Running
  <2>5. \A e \in air' : e.kind = "R" => ~Running(e.id)' BY <1>1
  <2> QED BY <2>2, <2>3, <2>4, <2>5 DEF Settled
<1>8. ASSUME NEW r \in Tags, NEW t \in Tags, r < t, vote'[r].on, vote'[r].mine
      PROVE  \/ <<t, vote'[r].id>> \in unaware'
             \/ \E e \in air' : e.kind = "O" /\ e.to = t /\ e.id = vote'[r].id
             \/ Aware(r, t)'
  <2>1. \/ <<t, vote[r].id>> \in unaware \/ Aware(r, t)
        \/ \E e \in air : e.kind = "O" /\ e.to = t /\ e.id = vote[r].id
    BY <1>1, <1>8 DEF ConvergeInv
  <2>2. mvNow # vote[r].due BY <1>1, <1>2, <1>3, <1>8
  <2> QED BY <1>1, <2>1, <2>2 DEF Aware
<1> QED BY <1>5, <1>6, <1>7, <1>8 DEF ConvergeInv

-----------------------------------------------------------------------------
(* The mesh vote: events.                                                  *)

\* The vote with the smaller tag takes over; the other is passed over.
LEMMA FollowKeeps ==
  ASSUME ConvergeInv, NEW e \in air, e.kind = "O",
         vote' = [vote EXCEPT ![e.to] = [on |-> TRUE, id |-> e.id, map |-> e.body, master |-> e.from,
                                         mine |-> FALSE, due |-> mvNow + Duration, ballot |-> NoVote.ballot]],
         air' = air \ {e}, unaware \subseteq unaware',
         vote[e.to].on /\ vote[e.to].id # e.id => <<e.to, vote[e.to].id>> \in unaware',
         UNCHANGED <<mvNow, result, cool, thought, budget>>
  PROVE  ConvergeInv'
<1> DEFINE new == [on |-> TRUE, id |-> e.id, map |-> e.body, master |-> e.from,
                   mine |-> FALSE, due |-> mvNow + Duration, ballot |-> NoVote.ballot]
<1>1. PICK s \in Tags : s = e.to BY VoteParts
<1>2. PICK id \in Ids : id = e.id BY VoteParts
<1>3. /\ Opened(id) /\ e.body \in MvMaps /\ e.from = id[1] /\ e.from # s /\ id[1] \in Tags
  <2>1. Opened(e.id) /\ e.body \in MvMaps BY VoteParts
  <2>2. e.from = e.id[1] /\ e.to # e.from BY DEF ConvergeInv, Owned
  <2> QED BY <1>1, <1>2, <2>1, <2>2 DEF Ids
<1>4. mvNow \in Nat /\ Duration \in Nat /\ mvNow + Duration \in Nat
  BY VoteParts, MeshVoteAssumption DEF MeshVoteAssumption
<1>5. new \in Votes
  <2>1. NoVote.ballot \in [Slots -> {"yes", "no", "none"}] BY DEF NoVote
  <2> QED BY <1>2, <1>3, <1>4, <2>1 DEF Votes
<1>6. new.on /\ new.id = id /\ new.master = e.from /\ ~new.mine /\ new.due = mvNow + Duration BY <1>2
<1>7. vote' = [vote EXCEPT ![s] = new] BY <1>1
<1> HIDE DEF new
<1>8. vote' \in [Tags -> Votes] /\ vote'[s] = new /\ \A t \in Tags \ {s} : vote'[t] = vote[t]
  BY <1>5, <1>7, VoteParts
<1>9. \A x : Opened(x)' <=> Opened(x) BY DEF Opened
<1>10. \A x \in Ids : Running(x)' => Running(x) /\ x[1] # s
  <2>1. \A x \in Ids : x[1] \in Tags BY DEF Ids
  <2> QED BY <1>6, <1>8, <2>1 DEF Running
<1>11. MvTyped'
  <2>1. ASSUME NEW t \in Tags, vote'[t].on PROVE vote'[t].id \in Ids /\ Opened(vote[t].id)'
    <3>1. CASE t = s BY <1>3, <1>6, <1>8, <1>9, <3>1
    <3>2. CASE t # s
      <4>1. vote'[t] = vote[t] BY <1>8, <3>2
      <4> QED BY <1>9, <2>1, <4>1, VoteParts
    <3> QED BY <3>1, <3>2
  <2>2. \A x \in air' : x.to \in Tags /\ x.id \in Ids /\ Opened(x.id)' /\ (x.kind = "O" => x.body \in MvMaps)
    BY <1>9, VoteParts
  <2> QED BY <1>8, <2>1, <2>2, VoteParts DEF MvTyped
<1>12. Owned'
  <2>1. Owned BY DEF ConvergeInv
  <2>2. ASSUME NEW t \in Tags, vote'[t].on
        PROVE vote'[t].master = vote'[t].id[1] /\ (vote'[t].mine <=> vote'[t].master = t)
    <3>1. CASE t = s BY <1>3, <1>6, <1>8, <3>1
    <3>2. CASE t # s
      <4>1. vote'[t] = vote[t] BY <1>8, <3>2
      <4> QED BY <2>1, <2>2, <4>1 DEF Owned
    <3> QED BY <3>1, <3>2
  <2>3. \A t \in Tags : result'[t].on => result'[t].id \in Ids /\ Opened(result[t].id)' /\ result'[t].id[1] = t
    BY <1>9, <2>1 DEF Owned
  <2> QED BY <2>1, <2>2, <2>3 DEF Owned
<1>13. Settled'
  <2>1. Settled /\ Owned BY DEF ConvergeInv
  <2>2. \A t \in Tags : result'[t].on => ~Running(result[t].id)' BY <1>10, <2>1 DEF Settled, Owned
  <2>3. \A x \in air' : x.kind = "R" => ~Running(x.id)' BY <1>10, <2>1, VoteParts DEF Settled
  <2>4. ASSUME NEW t \in Tags, vote'[t].on, vote'[t].mine
        PROVE  /\ mvNow' <= vote'[t].due /\ vote'[t].due <= mvNow' + Duration
               /\ t \in thought' => mvNow' < vote'[t].due
    <3>1. t # s /\ vote'[t] = vote[t] BY <1>6, <1>8, <2>4
    <3> QED BY <2>1, <2>4, <3>1 DEF Settled
  <2>5. ASSUME NEW t \in Tags, vote'[t].on, ~vote'[t].mine, Running(vote[t].id)'
        PROVE  vote'[vote'[t].id[1]].due <= vote'[t].due
    <3>1. CASE t = s
      <4>1. vote'[t].id = id /\ vote'[t].due = mvNow + Duration BY <1>6, <1>8, <3>1
      <4>2. Running(id) /\ id[1] # s BY <1>10, <2>5, <4>1
      <4>3. vote[id[1]].due <= mvNow + Duration BY <1>3, <2>1, <4>2 DEF Settled, Running
      <4>4. vote'[id[1]] = vote[id[1]] BY <1>3, <1>8
      <4> QED BY <4>1, <4>3, <4>4
    <3>2. CASE t # s
      <4>1. vote'[t] = vote[t] BY <1>8, <3>2
      <4>2. vote[t].id \in Ids /\ vote[t].id[1] \in Tags BY <2>5, <4>1, VoteParts DEF Ids
      <4>3. Running(vote[t].id) /\ vote[t].id[1] # s BY <1>10, <2>5, <4>1, <4>2
      <4>4. vote'[vote[t].id[1]] = vote[vote[t].id[1]] BY <1>8, <4>2, <4>3
      <4> QED BY <2>1, <2>5, <4>1, <4>3, <4>4 DEF Settled
    <3> QED BY <3>1, <3>2
  <2> QED BY <2>2, <2>3, <2>4, <2>5 DEF Settled
<1>14. ASSUME NEW r \in Tags, NEW t \in Tags, r < t, vote'[r].on, vote'[r].mine
       PROVE  \/ <<t, vote'[r].id>> \in unaware'
              \/ \E x \in air' : x.kind = "O" /\ x.to = t /\ x.id = vote'[r].id
              \/ Aware(r, t)'
  <2>1. r # s /\ vote'[r] = vote[r] BY <1>6, <1>8, <1>14
  <2>2. \/ <<t, vote[r].id>> \in unaware \/ Aware(r, t)
        \/ \E x \in air : x.kind = "O" /\ x.to = t /\ x.id = vote[r].id
    BY <1>14, <2>1 DEF ConvergeInv
  <2>3. CASE t = s
    <3>1. CASE vote[r].id = id BY <1>6, <1>8, <2>1, <2>3, <3>1 DEF Aware
    <3>2. CASE vote[r].id # id
      <4>1. CASE Aware(r, t)
        <5>1. CASE vote[s].on /\ vote[s].id = vote[r].id BY <1>1, <1>2, <2>1, <2>3, <3>2, <5>1
        <5>2. CASE ~(vote[s].on /\ vote[s].mine) /\ mvNow = vote[r].due /\ cool[s] > mvNow
          BY <1>6, <1>8, <2>1, <2>3, <5>2 DEF Aware
        <5> QED BY <2>3, <4>1, <5>1, <5>2 DEF Aware
      <4>2. CASE \E x \in air : x.kind = "O" /\ x.to = t /\ x.id = vote[r].id
        BY <1>2, <2>1, <3>2, <4>2
      <4> QED BY <2>1, <2>2, <4>1, <4>2
    <3> QED BY <3>1, <3>2
  <2>4. CASE t # s
    <3>1. vote'[t] = vote[t] BY <1>8, <2>4
    <3>2. CASE Aware(r, t) BY <2>1, <3>1, <3>2 DEF Aware
    <3>3. CASE \E x \in air : x.kind = "O" /\ x.to = t /\ x.id = vote[r].id BY <1>1, <2>1, <2>4, <3>3
    <3> QED BY <2>1, <2>2, <3>2, <3>3
  <2> QED BY <2>3, <2>4
<1> QED BY <1>11, <1>12, <1>13, <1>14 DEF ConvergeInv

\* What is delivered, or lost and noted, and changes no vote.
LEMMA ConsumeKeeps ==
  ASSUME ConvergeInv, NEW e \in air, air' = air \ {e}, unaware \subseteq unaware',
         e.kind = "O" => \/ <<e.to, e.id>> \in unaware'
                         \/ vote[e.to].on /\ ~vote[e.to].mine /\ vote[e.to].id = e.id,
         budget'.opens = budget.opens, DOMAIN budget' = DOMAIN budget,
         UNCHANGED <<mvNow, vote, result, cool, thought>>
  PROVE  ConvergeInv'
<1>1. /\ result' \in [Tags -> [on : BOOLEAN, id : Ids \cup {NoId}, pass : BOOLEAN, map : MvMaps, until : Nat]]
      /\ vote' \in [Tags -> Votes] /\ e.to \in Tags
  BY VoteParts
<1>2. \A x \in air : x.kind = "O" =>
            \/ x \in air' \/ <<x.to, x.id>> \in unaware'
            \/ vote[x.to].on /\ ~vote[x.to].mine /\ vote[x.to].id = x.id
  OBVIOUS
<1> QED BY <1>1, <1>2, VotesStay

\* An OPEN is followed, or passed over for a smaller vote.
LEMMA OpenArrives ==
  ASSUME ConvergeInv, NEW e \in air, OnOpen(e), air' = air \ {e},
         UNCHANGED <<mvNow, result, thought, budget>>
  PROVE  ConvergeInv'
<1> DEFINE s == e.to
           new == [on |-> TRUE, id |-> e.id, map |-> e.body, master |-> e.from,
                   mine |-> FALSE, due |-> mvNow + Duration, ballot |-> NoVote.ballot]
<1>1. /\ e.kind = "O" /\ cool' = cool /\ (vote' = vote \/ vote' = [vote EXCEPT ![s] = new])
      /\ unaware' = IF vote[s].on THEN unaware \cup {<<s, id>> : id \in {vote[s].id, e.id} \ {vote'[s].id}} ELSE unaware
  BY DEF OnOpen
<1>2. ~vote[s].on => vote' = [vote EXCEPT ![s] = new] BY DEF OnOpen
<1>3. s \in Tags /\ e.from = e.id[1] /\ e.from # s BY <1>1, VoteParts DEF ConvergeInv, Owned
<1>4. CASE vote' = [vote EXCEPT ![s] = new]
  <2>1. vote'[s].id = e.id
    <3>1. new.id = e.id OBVIOUS
    <3> HIDE DEF new
    <3> QED BY <1>3, <1>4, <3>1, VoteParts
  <2>2. unaware \subseteq unaware' /\ (vote[s].on /\ vote[s].id # e.id => <<s, vote[s].id>> \in unaware')
    BY <1>1, <2>1
  <2> QED BY <1>1, <1>4, <2>2, FollowKeeps
<1>5. CASE vote' = vote /\ vote[s].on
  <2>1. unaware \subseteq unaware' /\ (vote[s].id # e.id => <<s, e.id>> \in unaware') BY <1>1, <1>5
  <2>2. vote[s].id = e.id => ~vote[s].mine BY <1>3, <1>5 DEF ConvergeInv, Owned
  <2> QED BY <1>1, <1>5, <2>1, <2>2, ConsumeKeeps
<1> QED BY <1>1, <1>2, <1>4, <1>5

\* A result frees the server, and cools it down.
LEMMA ResultArrives ==
  ASSUME ConvergeInv, NEW e \in air, OnPass(e) \/ OnFail(e), air' = air \ {e},
         UNCHANGED <<mvNow, result, thought, budget>>
  PROVE  ConvergeInv'
<1> DEFINE s == e.to
<1>1. s \in Tags /\ e.kind = "R" /\ e.kind # "O" BY VoteParts DEF OnPass, OnFail
<1>2. CASE UNCHANGED <<vote, cool, unaware>> BY <1>1, <1>2, ConsumeKeeps
<1>3. CASE /\ vote' = [vote EXCEPT ![s] = NoVote] /\ cool' = [cool EXCEPT ![s] = mvNow + Cooldown]
           /\ unaware \subseteq unaware'
           /\ vote[s].on => <<s, vote[s].id>> \in unaware' \/ vote[s].id = e.id
  <2>1. /\ cool' \in [Tags -> Nat] /\ \A t \in Tags \ {s} : cool'[t] = cool[t]
        /\ cool'[s] = mvNow + Cooldown /\ mvNow \in Nat /\ Cooldown \in Nat /\ Cooldown > 0
    <3>1. mvNow + Cooldown \in Nat BY VoteParts, MeshVoteAssumption DEF MeshVoteAssumption
    <3> QED BY <1>1, <1>3, <3>1, VoteParts, MeshVoteAssumption DEF MeshVoteAssumption
  <2>2. ASSUME NEW r \in Tags, r < s, vote[r].on, vote[r].mine, Aware(r, s)
        PROVE  \/ <<s, vote[r].id>> \in unaware'
               \/ mvNow = vote[r].due /\ cool'[s] > mvNow
    <3>1. ~Running(e.id) BY <1>1 DEF ConvergeInv, Settled
    <3>2. Running(vote[r].id) BY <2>2, MasterRuns
    <3>3. cool'[s] > mvNow BY <2>1
    <3> QED BY <1>3, <2>2, <3>1, <3>2, <3>3 DEF Aware
  <2>3. result' \in [Tags -> [on : BOOLEAN, id : Ids \cup {NoId}, pass : BOOLEAN, map : MvMaps, until : Nat]]
    BY VoteParts
  <2> QED BY <1>1, <1>3, <2>1, <2>2, <2>3, VoteDropped, ZenonT(60)
<1>4. \/ UNCHANGED <<vote, cool, unaware>>
      \/ /\ vote' = [vote EXCEPT ![s] = NoVote] /\ cool' = [cool EXCEPT ![s] = mvNow + Cooldown]
         /\ unaware \subseteq unaware'
         /\ vote[s].on => <<s, vote[s].id>> \in unaware' \/ vote[s].id = e.id
  <2>1. CASE OnPass(e) BY <2>1 DEF OnPass, ArmSwitch
  <2>2. CASE OnFail(e) BY <2>2 DEF OnFail, Reset
  <2> QED BY <2>1, <2>2
<1> QED BY <1>2, <1>3, <1>4

-----------------------------------------------------------------------------
(* The mesh vote: all together.                                            *)

\* At the start no vote runs.
LEMMA ConvergeInit == MvInit => ConvergeInv
<1> SUFFICES ASSUME MvInit PROVE ConvergeInv OBVIOUS
<1>1. /\ mvNow = 0 /\ vote = [s \in Tags |-> NoVote] /\ result = [s \in Tags |-> NoResult]
      /\ cool = [s \in Tags |-> 0] /\ air = {} /\ thought = {}
      /\ budget = [opens |-> MaxOpens, casts |-> MaxCasts, odd |-> MaxOdd]
  BY DEF MvInit
<1>2. ~NoVote.on /\ NoVote \in Votes /\ ~NoResult.on
      /\ NoResult \in [on : BOOLEAN, id : Ids \cup {NoId}, pass : BOOLEAN, map : MvMaps, until : Nat]
  BY MeshVoteAssumption DEF NoVote, Votes, NoResult, MeshVoteAssumption
<1>3. \A s \in Tags : ~vote[s].on /\ ~result[s].on BY <1>1, <1>2
<1>4. vote \in [Tags -> Votes]
      /\ result \in [Tags -> [on : BOOLEAN, id : Ids \cup {NoId}, pass : BOOLEAN, map : MvMaps, until : Nat]]
  BY <1>1, <1>2
<1>5. budget.opens \in 0..MaxOpens /\ DOMAIN budget = {"opens", "casts", "odd"}
  <2>1. MaxOpens \in 0..MaxOpens BY MeshVoteAssumption DEF MeshVoteAssumption
  <2>2. budget.opens = MaxOpens BY <1>1
  <2> QED BY <1>1, <2>1, <2>2
<1>6. MvTyped BY <1>1, <1>3, <1>4, <1>5 DEF MvTyped
<1>7. Owned /\ Settled BY <1>1, <1>3 DEF Owned, Settled
<1> QED BY <1>3, <1>6, <1>7 DEF ConvergeInv

\* Every step keeps the invariant.
LEMMA ConvergeNext == ConvergeInv /\ [MvNext]_mvVars => ConvergeInv'
<1> SUFFICES ASSUME ConvergeInv, [MvNext]_mvVars PROVE ConvergeInv' OBVIOUS
<1> DEFINE Spend == budget'.opens = budget.opens /\ DOMAIN budget' = DOMAIN budget
<1>1. budget' = budget \/ (\E n : budget' = [budget EXCEPT !.odd = n]) => Spend
  BY VoteParts
<1>2. ASSUME NEW s \in Tags, NEW c \in Slots, NEW m \in MvMaps, Open(s, c, m) PROVE ConvergeInv'
  BY <1>2, OpenKeeps
<1>3. ASSUME NEW s \in Tags, NEW c \in Slots, NEW b \in {"yes", "no"}, Cast(s, c, b) PROVE ConvergeInv'
  BY <1>3, CastKeeps
<1>4. ASSUME NEW s \in Tags, NEW c \in Slots, ComeOrGo(s, c) PROVE ConvergeInv'
  <2>1. Spend BY <1>1, <1>4 DEF ComeOrGo
  <2> QED BY <1>4, <2>1, CrowdKeeps DEF ComeOrGo
<1>5. ASSUME NEW s \in Tags, Cancel(s) PROVE ConvergeInv' BY <1>5, CancelKeeps
<1>6. ASSUME NEW s \in Tags, NEW m \in MvMaps, LoadMap(s, m) PROVE ConvergeInv'
  <2>1. Spend BY <1>1, <1>6 DEF LoadMap
  <2> QED BY <1>6, <2>1, VoteLoadKeeps DEF LoadMap
<1>7. ASSUME NEW s \in Tags, Think(s) PROVE ConvergeInv'
  <2>1. CASE Switch(s)
    <3>1. Load(s, switch[s].map) /\ mvNow' = mvNow /\ air' = air \cup Repeated(s) /\ thought' = thought \cup {s}
          /\ budget' = budget
      BY <2>1 DEF Switch
    <3>2. Spend BY <1>1, <3>1
    <3> QED BY <3>1, <3>2, VoteLoadKeeps
  <2>2. CASE ~Switch(s)
    <3>1. /\ thought' = thought \cup {s} /\ UNCHANGED <<mvNow, budget, unaware>>
          /\ DecidePass(s) \/ DecideFail(s) \/ ExpireVote(s) \/ Wait(s) \/ Rest(s)
      BY <1>7, <2>2 DEF Think
    <3> QED BY <3>1, DecideKeeps, ExpireKeeps, RepeatKeeps
  <2> QED BY <2>1, <2>2
<1>8. ASSUME NEW e \in air, Deliver(e) PROVE ConvergeInv'
  <2>1. air' = air \ {e} /\ UNCHANGED <<mvNow, result, thought, budget>> BY <1>8 DEF Deliver
  <2>2. CASE OnOpen(e) BY <2>1, <2>2, OpenArrives
  <2>3. CASE OnPass(e) \/ OnFail(e) BY <2>1, <2>3, ResultArrives
  <2>4. CASE OnTally(e)
    <3>1. e.kind # "O" /\ UNCHANGED <<vote, cool, unaware>> BY <2>4 DEF OnTally
    <3> QED BY <2>1, <3>1, ConsumeKeeps
  <2> QED BY <1>8, <2>2, <2>3, <2>4 DEF Deliver
<1>9. ASSUME NEW e \in air, LoseEvent(e) PROVE ConvergeInv'
  <2>1. Spend BY <1>1, <1>9 DEF LoseEvent
  <2>2. unaware \subseteq unaware' /\ (e.kind = "O" => <<e.to, e.id>> \in unaware') BY <1>9 DEF LoseEvent
  <2> QED BY <1>9, <2>1, <2>2, ConsumeKeeps DEF LoseEvent
<1>10. CASE MvTick BY <1>10, TickKeepsVotes
<1>11. CASE UNCHANGED mvVars \/ \E s \in Tags : Arrive(s)
  <2>1. UNCHANGED <<mvNow, vote, result, cool, air, thought, budget, unaware>> BY <1>11 DEF mvVars, Arrive
  <2>2. MvTyped' BY <2>1 DEF ConvergeInv, MvTyped, Opened
  <2>3. Owned' BY <2>1 DEF ConvergeInv, Owned, Opened
  <2>4. Settled' BY <2>1 DEF ConvergeInv, Settled, Running
  <2>5. \A s, t \in Tags : Aware(s, t)' = Aware(s, t) BY <2>1 DEF Aware, Running
  <2> QED BY <2>1, <2>2, <2>3, <2>4, <2>5 DEF ConvergeInv
<1> QED BY <1>2, <1>3, <1>4, <1>5, <1>6, <1>7, <1>8, <1>9, <1>10, <1>11 DEF MvNext, MvPlayers, MvSystem

(* Votes opened at once converge on every mesh, whatever the durations:    *)
(* of two masters the one with the greater tag has not had the OPEN of the *)
(* other, gave its vote up for a third one or a result, or loaded a map    *)
(* (meshvote.as, RACE_MeshVoteOnOpen and RACE_MeshVoteThink).  It needs a  *)
(* cooldown: without one, and without a grace, a follower that expires in  *)
(* the tick in which its master decides could open a vote beside it.       *)
THEOREM VotesConverge == MvSpec => []OneMasterSoon
<1>1. MvInit => ConvergeInv BY ConvergeInit
<1>2. ConvergeInv /\ [MvNext]_mvVars => ConvergeInv' BY ConvergeNext
<1>3. ConvergeInv => OneMasterSoon
  <2> SUFFICES ASSUME ConvergeInv, NEW s \in Tags, NEW t \in Tags, s < t,
                      vote[s].on, vote[s].mine, vote[t].on, vote[t].mine
               PROVE  \/ <<t, vote[s].id>> \in unaware
                      \/ \E e \in air : e.kind = "O" /\ e.to = t /\ e.id = vote[s].id
    BY DEF OneMasterSoon
  <2>1. ~Aware(s, t) BY MasterFree
  <2> QED BY <2>1 DEF ConvergeInv
<1> QED BY <1>1, <1>2, <1>3, PTL DEF MvSpec

-----------------------------------------------------------------------------
(* The mesh vote: what a vote that passes is made of.                      *)

\* Of two tables of natural numbers the smaller sums to no more.
LEMMA SumLess ==
  ASSUME NEW f, NEW g, NEW S, IsFiniteSet(S), \A x \in S : f[x] \in Nat /\ g[x] \in Nat /\ f[x] <= g[x]
  PROVE  SumFunctionOnSet(f, S) <= SumFunctionOnSet(g, S)
<1> DEFINE d == [x \in S |-> g[x] - f[x]]
<1>1. \A x \in S : d[x] \in Nat /\ g[x] = f[x] + d[x] OBVIOUS
<1> HIDE DEF d
<1>2. SumFunctionOnSet(g, S) = SumFunctionOnSet(f, S) + SumFunctionOnSet(d, S) BY <1>1, SumPlus
<1>3. SumFunctionOnSet(f, S) \in Nat /\ SumFunctionOnSet(d, S) \in Nat BY <1>1, SumNat
<1> QED BY <1>2, <1>3

\* The ballots of a vote at some of the servers.
Voters(id, P) == {v \in yes : v[1] = id /\ v[2] \in P}

\* What was cast can be counted.
LEMMA YesFinite ==
  ASSUME yes \subseteq Ids \X Tags \X Slots
  PROVE  /\ IsFiniteSet(yes)
         /\ \A id, t : IsFiniteSet(Backers(id, t)) /\ Cardinality(Backers(id, t)) \in Nat
         /\ \A id, P : IsFiniteSet(Voters(id, P)) /\ Cardinality(Voters(id, P)) \in Nat
<1>1. IsFiniteSet(Tags) /\ IsFiniteSet(Slots) /\ MaxOpens \in Nat
  BY MeshVoteAssumption DEF MeshVoteAssumption
<1>2. IsFiniteSet(1..MaxOpens) BY <1>1, FS_Interval
<1>3. IsFiniteSet(Ids) BY <1>1, <1>2, FS_Product DEF Ids
<1>4. IsFiniteSet(yes)
  <2>1. IsFiniteSet(Ids \X Tags \X Slots) BY <1>1, <1>3, TripleFinite
  <2> QED BY <2>1, FS_Subset
<1>5. \A id, t : IsFiniteSet(Backers(id, t)) /\ Cardinality(Backers(id, t)) \in Nat
  BY <1>1, FS_Subset, FS_CardinalityType DEF Backers
<1>6. \A id, P : IsFiniteSet(Voters(id, P)) /\ Cardinality(Voters(id, P)) \in Nat
  BY <1>4, FS_Subset, FS_CardinalityType DEF Voters
<1> QED BY <1>4, <1>5, <1>6

\* One more server adds its ballots.
LEMMA VotersPut ==
  ASSUME yes \subseteq Ids \X Tags \X Slots, NEW id \in Ids, NEW P \in SUBSET Tags, NEW t \in P
  PROVE  Cardinality(Voters(id, P)) = Cardinality(Backers(id, t)) + Cardinality(Voters(id, P \ {t}))
<1> DEFINE A == Backers(id, t)
           B == {v \in yes : v[1] = id /\ v[2] = t}
           C == Voters(id, P \ {t})
           f == [c \in A |-> <<id, t, c>>]
<1>1. IsFiniteSet(A) /\ IsFiniteSet(C) /\ Cardinality(A) \in Nat /\ Cardinality(C) \in Nat /\ IsFiniteSet(yes)
  BY YesFinite
<1>2. IsFiniteSet(B) BY <1>1, FS_Subset
<1>3. f \in Bijection(A, B)
  <2>1. \A c \in A : f[c] \in B BY DEF Backers
  <2>2. \A c \in A, e \in A : f[c] = f[e] => c = e OBVIOUS
  <2>3. \A v \in B : \E c \in A : f[c] = v
    <3> TAKE v \in B
    <3>1. PICK i \in Ids, u \in Tags, c \in Slots : v = <<i, u, c>> OBVIOUS
    <3>2. v = <<id, t, c>> /\ c \in A BY <3>1 DEF Backers
    <3> QED BY <3>2
  <2> HIDE DEF A, B
  <2>4. f \in [A -> B] BY <2>1
  <2> QED BY <2>2, <2>3, <2>4 DEF Bijection, Injection, Surjection, IsInjective
<1>4. Cardinality(A) = Cardinality(B) BY <1>1, <1>2, <1>3, FS_Bijection DEF ExistsBijection
<1>5. Voters(id, P) = B \cup C /\ B \cap C = {} BY DEF Voters
<1> HIDE DEF A, B, C
<1>9. Cardinality(B \cap C) = 0 BY <1>5, FS_EmptySet
<1>6. Cardinality(B \cup C) = Cardinality(B) + Cardinality(C) - Cardinality(B \cap C) BY <1>1, <1>2, FS_Union
<1>8. Cardinality(B \cup C) = Cardinality(A) + Cardinality(C) BY <1>1, <1>4, <1>6, <1>9
<1> QED BY <1>5, <1>8 DEF A, C

\* Over any servers, what each has cast is what was cast there.
LEMMA VotersSum ==
  ASSUME yes \subseteq Ids \X Tags \X Slots, NEW id \in Ids, NEW f, \A t \in Tags : f[t] = Cardinality(Backers(id, t))
  PROVE  \A P \in SUBSET Tags : SumFunctionOnSet(f, P) = Cardinality(Voters(id, P))
<1> DEFINE Bad == {P \in SUBSET Tags : SumFunctionOnSet(f, P) # Cardinality(Voters(id, P))}
<1>1. IsFiniteSet(Tags) BY MeshVoteAssumption DEF MeshVoteAssumption
<1>2. Bad \in SUBSET (SUBSET Tags) OBVIOUS
<1> SUFFICES ASSUME Bad # {} PROVE FALSE OBVIOUS
<1>3. PICK P \in Bad : \A R \in Bad : R \subseteq P => R = P
  <2> HIDE DEF Bad
  <2> QED BY <1>1, <1>2, LeastSet
<1>4. P \in SUBSET Tags /\ IsFiniteSet(P) BY <1>1, <1>3, FS_Subset
<1>5. \A t \in P : f[t] \in Nat BY <1>4, YesFinite
<1>6. CASE P = {}
  <2>1. SumFunctionOnSet(f, P) = 0 BY <1>4, <1>6, SumStep
  <2>2. Voters(id, P) = {} BY <1>6 DEF Voters
  <2>3. Cardinality({}) = 0 BY FS_EmptySet
  <2> QED BY <1>3, <2>1, <2>2, <2>3
<1>7. CASE P # {}
  <2>1. PICK t \in P : TRUE BY <1>7
  <2>2. SumFunctionOnSet(f, P) = f[t] + SumFunctionOnSet(f, P \ {t}) BY <1>4, <1>5, <2>1, SumTake
  <2>3. Cardinality(Voters(id, P)) = Cardinality(Backers(id, t)) + Cardinality(Voters(id, P \ {t}))
    BY <1>4, <2>1, VotersPut
  <2>4. P \ {t} \notin Bad BY <1>3, <2>1
  <2>5. SumFunctionOnSet(f, P \ {t}) = Cardinality(Voters(id, P \ {t})) BY <1>4, <2>4
  <2>6. f[t] = Cardinality(Backers(id, t)) BY <1>4, <2>1
  <2>7. SumFunctionOnSet(f, P) = Cardinality(Voters(id, P)) BY <2>2, <2>3, <2>5, <2>6
  <2> QED BY <1>3, <2>7
<1> QED BY <1>6, <1>7

\* A passed vote that counted only its own subtotals was voted for by MinYes.
LEMMA PassesBacked ==
  ASSUME ConvergeInv, FloorInv, NEW s \in Tags, vote[s].on, vote[s].mine, Passes(s), ~Aggregate(s).old
  PROVE  Cardinality({v \in yes : v[1] = vote[s].id}) >= MinYes
<1> DEFINE D == DOMAIN tally[s]
           f == [t \in D |-> tally[s][t].yes]
           n == Subtotal(s).yes
           own == {c \in here[s] : vote[s].ballot[c] = "yes"}
<1>0. PICK id \in Ids : id = vote[s].id BY VoteParts
<1>1. Running(id) BY <1>0, MasterRuns
<1>2. /\ yes \subseteq Ids \X Tags \X Slots /\ here[s] \subseteq Slots /\ D \subseteq Tags \ {s}
      /\ \A t \in D : Backed(tally[s][t], t)
  BY DEF FloorInv
<1>3. IsFiniteSet(Tags) /\ IsFiniteSet(D) BY <1>2, MeshVoteAssumption, FS_Subset DEF MeshVoteAssumption
<1>4. \A t \in D : tally[s][t].of = id BY <1>0 DEF Aggregate
<1>5. \A t \in D : f[t] \in Nat /\ f[t] <= Cardinality(Backers(id, t)) BY <1>1, <1>2, <1>4 DEF Backed
<1>6. n \in Nat /\ n <= Cardinality(Backers(id, s))
  <2>1. own \subseteq Backers(id, s) BY <1>0, <1>1, <1>2 DEF FloorInv
  <2>2. IsFiniteSet(Backers(id, s)) /\ Cardinality(Backers(id, s)) \in Nat BY <1>2, YesFinite
  <2>3. n = Cardinality(own) BY DEF Subtotal
  <2> QED BY <2>1, <2>2, <2>3, FS_Subset, FS_CardinalityType
<1>7. n + SumFunctionOnSet(f, D) >= MinYes BY DEF Passes, Aggregate
<1> DEFINE b == [t \in Tags |-> Cardinality(Backers(id, t))]
<1>8. \A t \in Tags : b[t] = Cardinality(Backers(id, t)) /\ b[t] \in Nat BY <1>2, YesFinite
<1> HIDE DEF f, n, own, b, D
<1>9. SumFunctionOnSet(f, D) \in Nat /\ SumFunctionOnSet(f, D) <= SumFunctionOnSet(b, D)
  BY <1>2, <1>3, <1>5, <1>8, SumLess, SumNat
<1>10. SumFunctionOnSet(b, D) = Cardinality(Voters(id, D)) BY <1>2, <1>8, VotersSum
<1> DEFINE E == D \cup {s}
<1>11. Cardinality(Voters(id, E)) = Cardinality(Backers(id, s)) + Cardinality(Voters(id, E \ {s}))
  BY <1>2, VotersPut
<1>12. E \ {s} = D BY <1>2
<1>13. /\ IsFiniteSet({v \in yes : v[1] = id}) /\ Voters(id, E) \subseteq {v \in yes : v[1] = id}
       /\ Cardinality(Voters(id, E)) \in Nat
  <2>1. IsFiniteSet(yes) /\ Cardinality(Voters(id, E)) \in Nat BY <1>2, YesFinite
  <2> QED BY <2>1, FS_Subset DEF Voters
<1>14. Cardinality(Voters(id, E)) <= Cardinality({v \in yes : v[1] = id}) BY <1>13, FS_Subset
<1>15. Cardinality({v \in yes : v[1] = id}) \in Nat BY <1>13, FS_CardinalityType
<1>16. Cardinality(Backers(id, s)) \in Nat /\ Cardinality(Voters(id, D)) \in Nat BY <1>2, YesFinite
<1>17. MinYes \in Nat BY MeshVoteAssumption DEF MeshVoteAssumption
<1>18. Cardinality({v \in yes : v[1] = id}) >= MinYes
  BY <1>6, <1>7, <1>9, <1>10, <1>11, <1>12, <1>14, <1>15, <1>16, <1>17
<1> QED BY <1>0, <1>18

-----------------------------------------------------------------------------
(* The mesh vote: no step adds to a vote but a ballot.                     *)

\* What is said of a vote stays backed while the vote runs.
LEMMA BackedStays ==
  ASSUME yes' \subseteq Ids \X Tags \X Slots,
         \A id \in Ids : Opened(id) => Opened(id)' /\ (Running(id)' => Running(id)),
         \A v \in yes : Opened(v[1]) /\ Running(v[1])' => v \in yes',
         NEW part, NEW t, Backed(part, t)
  PROVE  /\ part.yes \in Nat /\ part.of \in Ids /\ Opened(part.of)'
         /\ Running(part.of)' => part.yes <= Cardinality(Backers(part.of, t)')
<1>1. part.yes \in Nat /\ part.of \in Ids /\ Opened(part.of) BY DEF Backed
<1> SUFFICES ASSUME Running(part.of)' PROVE part.yes <= Cardinality(Backers(part.of, t)') BY <1>1
<1> DEFINE A == Backers(part.of, t)
           B == {c \in Slots : <<part.of, t, c>> \in yes'}
<1>2. part.yes <= Cardinality(A) BY <1>1 DEF Backed
<1>3. A \subseteq B
  <2> SUFFICES ASSUME NEW c \in A PROVE c \in B OBVIOUS
  <2>1. c \in Slots /\ <<part.of, t, c>> \in yes BY DEF Backers
  <2>2. PICK v \in yes : v = <<part.of, t, c>> BY <2>1
  <2>3. v[1] = part.of BY <2>2
  <2> QED BY <1>1, <2>1, <2>2, <2>3
<1>4. IsFiniteSet(B) BY MeshVoteAssumption, FS_Subset DEF MeshVoteAssumption
<1>5. IsFiniteSet(A) /\ Cardinality(A) <= Cardinality(B) BY <1>3, <1>4, FS_Subset
<1>6. Cardinality(A) \in Nat /\ Cardinality(B) \in Nat BY <1>4, <1>5, FS_CardinalityType
<1>7. Backers(part.of, t)' = B BY DEF Backers
<1> QED BY <1>1, <1>2, <1>5, <1>6, <1>7

\* A step that forgets no ballot of a running vote and notes only what is backed.
LEMMA FloorStays ==
  ASSUME FloorInv, yes' \subseteq Ids \X Tags \X Slots, here' \in [Tags -> SUBSET Slots],
         \A id \in Ids : Opened(id) => Opened(id)' /\ (Running(id)' => Running(id)),
         \A v \in yes : Opened(v[1]) /\ Running(v[1])' => v \in yes',
         \A s \in Tags : vote'[s].on /\ Running(vote[s].id)' =>
           \A c \in Slots : vote'[s].ballot[c] = "yes" => <<vote'[s].id, s, c>> \in yes',
         \A e \in air' : e.kind = "T" => e \in air \/ (e.from \in Tags /\ Backed(e.body, e.from)),
         DOMAIN tally' = Tags,
         \A s \in Tags : DOMAIN tally'[s] \subseteq Tags \ {s},
         \A s \in Tags : \A t \in DOMAIN tally'[s] : Backed(tally'[s][t], t),
         \A p \in passed' : p \in passed \/ p.voters >= MinYes \/ p.old
  PROVE  FloorInv'
<1> DEFINE Kept(part, t) == /\ part.yes \in Nat /\ part.of \in Ids /\ Opened(part.of)'
                            /\ Running(part.of)' => part.yes <= Cardinality(Backers(part.of, t)')
<1>1. \A part, t : Backed(part, t) => Kept(part, t) BY BackedStays
<1> HIDE DEF Kept
<1>2. \A e \in air' : e.kind = "T" => e.from \in Tags /\ Kept(e.body, e.from) BY <1>1 DEF FloorInv
<1>4. VoteFloor' BY DEF FloorInv, VoteFloor
<1>5. \A s \in Tags : vote'[s].on /\ Running(vote[s].id)' =>
           \A c \in Slots : vote'[s].ballot[c] = "yes" => c \in Backers(vote[s].id, s)'
  BY DEF Backers
<1>6. (\A e \in air : e.kind = "T" => e.from \in Tags /\ Backed(e.body, e.from))' BY <1>2 DEF Backed, Kept
<1>7. (\A s \in Tags : \A t \in DOMAIN tally[s] : Backed(tally[s][t], t))'
  <2> SUFFICES ASSUME NEW s \in Tags, NEW t \in DOMAIN tally'[s] PROVE Backed(tally[s][t], t)' OBVIOUS
  <2>1. PICK part : part = tally'[s][t] OBVIOUS
  <2>2. Backed(part, t) BY <2>1
  <2>3. Kept(part, t) BY <1>1, <2>2
  <2> QED BY <2>1, <2>3 DEF Backed, Kept
<1> QED BY <1>4, <1>5, <1>6, <1>7 DEF FloorInv

\* A subtotal says what was cast here.
LEMMA SubtotalBacked ==
  ASSUME ConvergeInv, FloorInv, NEW s \in Tags, vote[s].on PROVE Backed(Subtotal(s), s)
<1> DEFINE own == {c \in here[s] : vote[s].ballot[c] = "yes"}
<1>1. vote[s].id \in Ids /\ Opened(vote[s].id) BY VoteParts
<1>2. yes \subseteq Ids \X Tags \X Slots /\ here[s] \subseteq Slots BY DEF FloorInv
<1>3. IsFiniteSet(Backers(vote[s].id, s)) /\ Cardinality(Backers(vote[s].id, s)) \in Nat BY <1>2, YesFinite
<1>4. IsFiniteSet(own) /\ Cardinality(own) \in Nat
  <2>1. own \subseteq Slots BY <1>2
  <2> QED BY <2>1, MeshVoteAssumption, FS_Subset, FS_CardinalityType DEF MeshVoteAssumption
<1>5. Running(vote[s].id) => own \subseteq Backers(vote[s].id, s) BY <1>2 DEF FloorInv
<1>6. Running(vote[s].id) => Cardinality(own) <= Cardinality(Backers(vote[s].id, s)) BY <1>3, <1>5, FS_Subset
<1>7. Subtotal(s).yes = Cardinality(own) /\ Subtotal(s).of = vote[s].id BY DEF Subtotal
<1> QED BY <1>1, <1>4, <1>6, <1>7 DEF Backed

\* Votes that stay or end: nothing that runs was not running.
LEMMA RunsNothingNew ==
  ASSUME ConvergeInv, budget'.opens = budget.opens,
         \A t \in Tags : vote'[t].on /\ vote'[t].mine =>
           vote[t].on /\ vote[t].mine /\ vote'[t].id = vote[t].id
  PROVE  \A id \in Ids : Opened(id) => Opened(id)' /\ (Running(id)' => Running(id))
<1> TAKE id \in Ids
<1>1. id[1] \in Tags BY DEF Ids
<1> QED BY <1>1 DEF Opened, Running

\* A fresh vote has an id of its own, and one ballot.
LEMMA OpenFloor ==
  ASSUME ConvergeInv, FloorInv, NEW s \in Tags, NEW c \in Slots, NEW m \in MvMaps, Open(s, c, m)
  PROVE  FloorInv'
<1> DEFINE n == MaxOpens - budget.opens + 1
<1>2. MaxOpens \in Nat /\ budget.opens \in 0..MaxOpens /\ budget.opens > 0
  BY VoteParts, MeshVoteAssumption DEF MeshVoteAssumption, Open
<1>3. n \in 1..MaxOpens BY <1>2
<1>4. PICK id \in Ids : id = <<s, n>> BY <1>3 DEF Ids
<1> DEFINE new == [on |-> TRUE, id |-> id, map |-> m, master |-> s, mine |-> TRUE,
                   due |-> mvNow + Duration, ballot |-> [NoVote.ballot EXCEPT ![c] = "yes"]]
<1>5. /\ ~vote[s].on /\ vote' = [vote EXCEPT ![s] = new] /\ budget' = [budget EXCEPT !.opens = budget.opens - 1]
      /\ air' = air \cup Event(s, "O", id, m) /\ yes' = {v \in yes : v[1][1] # s} \cup {<<id, s, c>>}
      /\ UNCHANGED <<here, tally, passed>>
  BY <1>4 DEF Open, CanStart
<1>6. new.on /\ new.id = id /\ new.mine /\ \A d \in Slots : new.ballot[d] = "yes" => d = c BY DEF NoVote
<1> HIDE DEF new
<1>7. vote'[s] = new /\ \A t \in Tags \ {s} : vote'[t] = vote[t] BY <1>5, VoteParts
<1>8. id[1] = s /\ id[2] = n BY <1>4
<1>9. budget'.opens = budget.opens - 1 BY <1>5, VoteParts
<1>10. ~Opened(id) /\ \A x \in Ids : Opened(x) => Opened(x)'
  <2>1. ~Opened(id) BY <1>2, <1>8 DEF Opened
  <2>2. \A x \in Ids : x[2] \in Int BY DEF Ids
  <2> HIDE DEF n
  <2>3. ASSUME NEW x \in Ids, Opened(x) PROVE Opened(x)'
    <3>1. x[2] \in Int /\ x[2] <= MaxOpens - budget.opens BY <2>2, <2>3 DEF Opened
    <3>2. x[2] <= MaxOpens - (budget.opens - 1) BY <1>2, <3>1
    <3> QED BY <1>9, <3>2 DEF Opened
  <2> QED BY <2>1, <2>3
<1> HIDE DEF n
<1>11. \A x \in Ids : Running(x)' => x = id \/ (x[1] # s /\ Running(x))
  <2> TAKE x \in Ids
  <2>1. x[1] \in Tags BY DEF Ids
  <2> QED BY <1>6, <1>7, <2>1 DEF Running
<1>12. \A x \in Ids : Opened(x) => Opened(x)' /\ (Running(x)' => Running(x)) BY <1>10, <1>11
<1>13. yes \subseteq Ids \X Tags \X Slots /\ here \in [Tags -> SUBSET Slots] BY DEF FloorInv
<1>14. yes' \subseteq Ids \X Tags \X Slots
  <2>1. <<id, s, c>> \in Ids \X Tags \X Slots OBVIOUS
  <2> QED BY <1>5, <1>13, <2>1
<1>15. \A v \in yes : Opened(v[1]) /\ Running(v[1])' => v \in yes'
  <2> SUFFICES ASSUME NEW v \in yes, Opened(v[1]), Running(v[1])' PROVE v \in yes' OBVIOUS
  <2>1. v[1] \in Ids BY <1>13
  <2>2. v[1] # id BY <1>10
  <2>3. v[1][1] # s BY <1>11, <2>1, <2>2
  <2> QED BY <1>5, <2>3
<1>16. \A t \in Tags : vote'[t].on /\ Running(vote[t].id)' =>
         \A d \in Slots : vote'[t].ballot[d] = "yes" => <<vote'[t].id, t, d>> \in yes'
  <2> SUFFICES ASSUME NEW t \in Tags, vote'[t].on, Running(vote[t].id)', NEW d \in Slots, vote'[t].ballot[d] = "yes"
               PROVE  <<vote'[t].id, t, d>> \in yes'
    OBVIOUS
  <2>1. CASE t = s
    <3>1. d = c /\ vote'[t].id = id BY <1>6, <1>7, <2>1
    <3> QED BY <1>5, <2>1, <3>1
  <2>2. CASE t # s
    <3>1. vote'[t] = vote[t] /\ vote[t].on BY <1>7, <2>2
    <3>2. vote[t].id \in Ids /\ Opened(vote[t].id) BY <3>1, VoteParts
    <3>3. vote[t].id # id BY <1>10, <3>2
    <3>4. Running(vote[t].id)' => Running(vote[t].id) /\ vote[t].id[1] # s
      <4> SUFFICES ASSUME Running(vote[t].id)' PROVE Running(vote[t].id) /\ vote[t].id[1] # s OBVIOUS
      <4>1. PICK x \in Ids : x = vote[t].id BY <3>2
      <4>2. x # id BY <3>3, <4>1
      <4>3. Running(x)' BY <3>1, <4>1
      <4> QED BY <1>11, <4>1, <4>2, <4>3
    <3>5. Running(vote[t].id) /\ vote[t].id[1] # s BY <3>4
    <3>6. d \in Backers(vote[t].id, t) BY <2>2, <3>1, <3>5 DEF FloorInv
    <3>7. <<vote[t].id, t, d>> \in yes BY <3>6 DEF Backers
    <3> QED BY <1>5, <3>1, <3>5, <3>7
  <2> QED BY <2>1, <2>2
<1>17. \A e \in air' : e.kind = "T" => e \in air BY <1>5 DEF Event
<1>18. DOMAIN tally' = Tags /\ \A t \in Tags : DOMAIN tally'[t] \subseteq Tags \ {t}
  BY <1>5 DEF FloorInv
<1>19. \A t \in Tags : \A u \in DOMAIN tally'[t] : Backed(tally'[t][u], u) BY <1>5 DEF FloorInv
<1>20. here' \in [Tags -> SUBSET Slots] /\ \A p \in passed' : p \in passed BY <1>5, <1>13
<1> QED BY <1>12, <1>14, <1>15, <1>16, <1>17, <1>18, <1>19, <1>20, FloorStays

\* A step that casts nothing: the ballots of a vote that runs are old ones.
LEMMA BallotsStay ==
  ASSUME ConvergeInv, FloorInv, yes' = yes, here' \in [Tags -> SUBSET Slots],
         \A id \in Ids : Opened(id) => Opened(id)' /\ (Running(id)' => Running(id)),
         \A s \in Tags : vote'[s].on =>
           \/ vote[s].on /\ vote'[s].id = vote[s].id /\ vote'[s].ballot = vote[s].ballot
           \/ \A c \in Slots : vote'[s].ballot[c] # "yes",
         \A e \in air' : e.kind = "T" => e \in air \/ (e.from \in Tags /\ Backed(e.body, e.from)),
         DOMAIN tally' = Tags,
         \A s \in Tags : DOMAIN tally'[s] \subseteq Tags \ {s},
         \A s \in Tags : \A t \in DOMAIN tally'[s] : Backed(tally'[s][t], t),
         \A p \in passed' : p \in passed \/ p.voters >= MinYes \/ p.old
  PROVE  FloorInv'
<1>1. yes' \subseteq Ids \X Tags \X Slots BY DEF FloorInv
<1>2. \A s \in Tags : vote'[s].on /\ Running(vote[s].id)' =>
           \A c \in Slots : vote'[s].ballot[c] = "yes" => <<vote'[s].id, s, c>> \in yes'
  <2> SUFFICES ASSUME NEW s \in Tags, vote'[s].on, Running(vote[s].id)', NEW c \in Slots, vote'[s].ballot[c] = "yes"
               PROVE  <<vote'[s].id, s, c>> \in yes'
    OBVIOUS
  <2>1. vote[s].on /\ vote'[s].id = vote[s].id /\ vote'[s].ballot = vote[s].ballot OBVIOUS
  <2>2. PICK x \in Ids : x = vote[s].id /\ Opened(x) BY <2>1, VoteParts
  <2>3. Running(x)' BY <2>1, <2>2
  <2>4. Running(vote[s].id) BY <2>2, <2>3
  <2>5. c \in Backers(vote[s].id, s) BY <2>1, <2>4 DEF FloorInv
  <2> QED BY <2>1, <2>5 DEF Backers
<1> QED BY <1>1, <1>2, FloorStays

\* The votes stay, or one of them ends or is followed, and at most one tally changes.
LEMMA EndsFloor ==
  ASSUME ConvergeInv, FloorInv, NEW s \in Tags, NEW new, NEW noted,
         yes' = yes, here' \in [Tags -> SUBSET Slots], budget'.opens = budget.opens,
         \/ vote' = vote
         \/ vote' = [vote EXCEPT ![s] = new] /\ ~(new.on /\ new.mine) /\ \A c \in Slots : new.ballot[c] # "yes",
         \/ tally' = tally
         \/ /\ tally' = [tally EXCEPT ![s] = noted] /\ DOMAIN noted \subseteq Tags \ {s}
            /\ \A t \in DOMAIN noted : Backed(noted[t], t),
         \A e \in air' : e.kind = "T" => e \in air \/ (e.from \in Tags /\ Backed(e.body, e.from)),
         \A p \in passed' : p \in passed \/ p.voters >= MinYes \/ p.old
  PROVE  FloorInv'
<1>1. \A t \in Tags \ {s} : vote'[t] = vote[t]
  <2>1. vote \in [Tags -> Votes] BY VoteParts
  <2> QED BY <2>1
<1>2. \/ vote'[s] = vote[s]
      \/ ~(vote'[s].on /\ vote'[s].mine) /\ \A c \in Slots : vote'[s].ballot[c] # "yes"
  <2>1. vote \in [Tags -> Votes] BY VoteParts
  <2> QED BY <2>1
<1>3. \A t \in Tags : vote'[t].on /\ vote'[t].mine => vote[t].on /\ vote[t].mine /\ vote'[t].id = vote[t].id
  BY <1>1, <1>2
<1>4. \A id \in Ids : Opened(id) => Opened(id)' /\ (Running(id)' => Running(id)) BY <1>3, RunsNothingNew
<1>5. \A t \in Tags : vote'[t].on =>
           \/ vote[t].on /\ vote'[t].id = vote[t].id /\ vote'[t].ballot = vote[t].ballot
           \/ \A c \in Slots : vote'[t].ballot[c] # "yes"
  BY <1>1, <1>2
<1>6. DOMAIN tally = Tags /\ \A t \in Tags : DOMAIN tally[t] \subseteq Tags \ {t} /\ \A u \in DOMAIN tally[t] : Backed(tally[t][u], u)
  BY DEF FloorInv
<1>7. DOMAIN tally' = Tags /\ \A t \in Tags : tally'[t] = tally[t] \/ (t = s /\ DOMAIN tally'[t] \subseteq Tags \ {s}
                                                      /\ \A u \in DOMAIN tally'[t] : Backed(tally'[t][u], u))
  <2>1. CASE tally' = tally BY <1>6, <2>1
  <2>2. CASE /\ tally' = [tally EXCEPT ![s] = noted] /\ DOMAIN noted \subseteq Tags \ {s}
             /\ \A t \in DOMAIN noted : Backed(noted[t], t)
    <3>1. DOMAIN tally' = Tags /\ tally'[s] = noted /\ \A t \in Tags \ {s} : tally'[t] = tally[t] BY <1>6, <2>2
    <3> QED BY <2>2, <3>1
  <2> QED BY <2>1, <2>2
<1>8. \A t \in Tags : DOMAIN tally'[t] \subseteq Tags \ {t} BY <1>6, <1>7
<1>9. \A t \in Tags : \A u \in DOMAIN tally'[t] : Backed(tally'[t][u], u) BY <1>6, <1>7
<1> QED BY <1>4, <1>5, <1>7, <1>8, <1>9, BallotsStay

\* A ballot is noted as it is cast.
LEMMA CastFloor ==
  ASSUME ConvergeInv, FloorInv, NEW s \in Tags, NEW c \in Slots, NEW b \in {"yes", "no"}, Cast(s, c, b)
  PROVE  FloorInv'
<1>1. /\ vote[s].on /\ vote' = [vote EXCEPT ![s] = [vote[s] EXCEPT !.ballot = [vote[s].ballot EXCEPT ![c] = b]]]
      /\ budget' = [budget EXCEPT !.casts = @ - 1]
      /\ yes' = IF b = "yes" THEN yes \cup {<<vote[s].id, s, c>>} ELSE yes
      /\ UNCHANGED <<here, tally, air, passed>>
  BY DEF Cast
<1>2. vote \in [Tags -> Votes] /\ vote[s] \in Votes /\ vote[s].id \in Ids BY <1>1, VoteParts
<1> DEFINE new == [vote[s] EXCEPT !.ballot = [vote[s].ballot EXCEPT ![c] = b]]
<1>3. /\ new.on = vote[s].on /\ new.id = vote[s].id /\ new.mine = vote[s].mine
      /\ new.ballot[c] = b /\ \A d \in Slots \ {c} : new.ballot[d] = vote[s].ballot[d]
  <2>1. vote[s].ballot \in [Slots -> {"yes", "no", "none"}] BY <1>2 DEF Votes
  <2>2. new.ballot = [vote[s].ballot EXCEPT ![c] = b] BY <1>2 DEF Votes
  <2>3. new.on = vote[s].on /\ new.id = vote[s].id /\ new.mine = vote[s].mine BY <1>2 DEF Votes
  <2> HIDE DEF new
  <2> QED BY <2>1, <2>2, <2>3
<1> HIDE DEF new
<1>4. vote' = [vote EXCEPT ![s] = new] BY <1>1 DEF new
<1>5. vote'[s] = new /\ \A t \in Tags \ {s} : vote'[t] = vote[t] BY <1>2, <1>4
<1>6. \A t \in Tags : vote'[t].on = vote[t].on /\ vote'[t].id = vote[t].id /\ vote'[t].mine = vote[t].mine
  BY <1>3, <1>5
<1>7. budget'.opens = budget.opens BY <1>1, VoteParts
<1>8. \A id \in Ids : Opened(id) => Opened(id)' /\ (Running(id)' => Running(id)) BY <1>6, <1>7, RunsNothingNew
<1>9. yes \subseteq yes' BY <1>1
<1>10. yes' \subseteq Ids \X Tags \X Slots
  <2>1. <<vote[s].id, s, c>> \in Ids \X Tags \X Slots BY <1>2
  <2> QED BY <1>1, <2>1 DEF FloorInv
<1>11. \A t \in Tags : vote'[t].on /\ Running(vote[t].id)' =>
         \A d \in Slots : vote'[t].ballot[d] = "yes" => <<vote'[t].id, t, d>> \in yes'
  <2> SUFFICES ASSUME NEW t \in Tags, vote'[t].on, Running(vote[t].id)', NEW d \in Slots, vote'[t].ballot[d] = "yes"
               PROVE  <<vote'[t].id, t, d>> \in yes'
    OBVIOUS
  <2>1. CASE t = s /\ d = c
    <3>1. b = "yes" /\ vote'[t].id = vote[s].id BY <1>3, <1>5, <2>1
    <3>2. yes' = yes \cup {<<vote[s].id, s, c>>} BY <1>1, <3>1
    <3> QED BY <2>1, <3>1, <3>2
  <2>2. CASE ~(t = s /\ d = c)
    <3>1. vote[t].ballot[d] = "yes" /\ vote[t].on /\ vote'[t].id = vote[t].id BY <1>3, <1>5, <1>6, <2>2
    <3>2. PICK x \in Ids : x = vote[t].id /\ Opened(x) BY <3>1, VoteParts
    <3>3. Running(x)' BY <3>1, <3>2
    <3>4. Running(vote[t].id) BY <1>8, <3>2, <3>3
    <3>5. <<vote[t].id, t, d>> \in yes BY <3>1, <3>4 DEF FloorInv, Backers
    <3> QED BY <1>9, <3>1, <3>5
  <2> QED BY <2>1, <2>2
<1>12. here' \in [Tags -> SUBSET Slots] /\ DOMAIN tally' = Tags /\ \A t \in Tags : DOMAIN tally'[t] \subseteq Tags \ {t}
  BY <1>1 DEF FloorInv
<1>13. \A t \in Tags : \A u \in DOMAIN tally'[t] : Backed(tally'[t][u], u) BY <1>1 DEF FloorInv
<1>14. \A e \in air' : e \in air BY <1>1
<1>15. \A p \in passed' : p \in passed BY <1>1
<1> QED BY <1>8, <1>9, <1>10, <1>11, <1>12, <1>13, <1>14, <1>15, FloorStays

\* A player comes or goes; the ballots stay.
LEMMA CrowdFloor ==
  ASSUME ConvergeInv, FloorInv, NEW s \in Tags, NEW c \in Slots, ComeOrGo(s, c)
  PROVE  FloorInv'
<1>1. budget' = [budget EXCEPT !.odd = @ - 1] /\ UNCHANGED <<vote, tally, air, yes, passed>> BY DEF ComeOrGo
<1>2. budget'.opens = budget.opens BY <1>1, VoteParts
<1>3. here' \in [Tags -> SUBSET Slots] BY DEF ComeOrGo, FloorInv
<1>4. \A e \in air' : e \in air BY <1>1
<1>5. \A p \in passed' : p \in passed BY <1>1
<1> QED BY <1>1, <1>2, <1>3, <1>4, <1>5, EndsFloor

\* No ballot stands before one is cast.
LEMMA NoVoteIs == ~NoVote.on /\ \A c \in Slots : NoVote.ballot[c] # "yes"
BY DEF NoVote

\* The master gives its vote up.
LEMMA CancelFloor ==
  ASSUME ConvergeInv, FloorInv, NEW s \in Tags, Cancel(s)
  PROVE  FloorInv'
<1>1. /\ vote' = [vote EXCEPT ![s] = NoVote] /\ tally' = [tally EXCEPT ![s] = <<>>]
      /\ air' = air \cup Event(s, "R", vote[s].id, "FAIL")
      /\ UNCHANGED <<here, budget, yes, passed>>
  BY DEF Cancel, Reset, mvHistory
<1>2. here' \in [Tags -> SUBSET Slots] /\ budget'.opens = budget.opens BY <1>1 DEF FloorInv
<1>3. \A e \in air' : e.kind = "T" => e \in air BY <1>1 DEF Event
<1>4. \A p \in passed' : p \in passed BY <1>1
<1>5. DOMAIN <<>> = {} OBVIOUS
<1> QED BY <1>1, <1>2, <1>3, <1>4, <1>5, NoVoteIs, EndsFloor

\* A map load forgets the vote and what was noted of it.
LEMMA LoadFloor ==
  ASSUME ConvergeInv, FloorInv, NEW s \in Tags, NEW m, Load(s, m), budget'.opens = budget.opens,
         air' = air \cup Repeated(s) \/ air' = air, UNCHANGED <<here, yes, passed>>
  PROVE  FloorInv'
<1>1. vote' = [vote EXCEPT ![s] = NoVote] /\ tally' = [tally EXCEPT ![s] = <<>>] BY DEF Load
<1>2. here' \in [Tags -> SUBSET Slots] BY DEF FloorInv
<1>3. \A e \in air' : e.kind = "T" => e \in air BY DEF Repeated, Event
<1>4. \A p \in passed' : p \in passed OBVIOUS
<1>5. DOMAIN <<>> = {} OBVIOUS
<1> QED BY <1>1, <1>2, <1>3, <1>4, <1>5, NoVoteIs, EndsFloor

\* A frame counts and sends what was cast here.
LEMMA CountedBacked ==
  ASSUME ConvergeInv, FloorInv, NEW s \in Tags, Counting(s)
  PROVE  \A e \in air' : e.kind = "T" => e \in air \/ (e.from \in Tags /\ Backed(e.body, e.from))
<1> SUFFICES ASSUME NEW e \in air', e.kind = "T", e \notin air PROVE e.from \in Tags /\ Backed(e.body, e.from)
  OBVIOUS
<1>1. e \in Event(s, "T", vote[s].id, Subtotal(s)) BY DEF Counting, Repeated, Event
<1>2. e.from = s /\ e.body = Subtotal(s) BY <1>1 DEF Event
<1>3. Backed(Subtotal(s), s) BY SubtotalBacked DEF Counting
<1> QED BY <1>2, <1>3

\* A frame of a server without a map to load.
LEMMA ThinkFloor ==
  ASSUME ConvergeInv, FloorInv, NEW s \in Tags,
         DecidePass(s) \/ DecideFail(s) \/ ExpireVote(s) \/ Wait(s) \/ Rest(s),
         UNCHANGED <<here, budget, yes, heir>>
  PROVE  FloorInv'
<1>1. \A e \in air' : e.kind = "T" => e \in air \/ (e.from \in Tags /\ Backed(e.body, e.from))
  <2>1. CASE Counting(s) BY <2>1, CountedBacked
  <2>2. CASE Rest(s) BY <2>2 DEF Rest, Repeated, Event
  <2> QED BY <2>1, <2>2 DEF DecidePass, DecideFail, ExpireVote, Wait
<1>2. vote' = vote \/ vote' = [vote EXCEPT ![s] = NoVote]
  BY DEF DecidePass, DecideFail, ExpireVote, Wait, Rest, ArmSwitch, Reset
<1>3. tally' = tally \/ tally' = [tally EXCEPT ![s] = <<>>]
  BY DEF DecidePass, DecideFail, ExpireVote, Wait, Rest, ArmSwitch, Reset
<1>4. \A p \in passed' : p \in passed \/ p.voters >= MinYes \/ p.old
  <2>1. CASE DecidePass(s)
    <3> DEFINE votes == Cardinality({v \in yes : v[1] = vote[s].id})
               stale == Aggregate(s).old \/ heir # {}
    <3>1. vote[s].on /\ vote[s].mine /\ Passes(s) BY <2>1 DEF DecidePass, Counting
    <3>2. votes >= MinYes \/ stale BY <3>1, PassesBacked
    <3> HIDE DEF votes, stale
    <3>3. \A p \in passed' : p \in passed \/ (p.voters = votes /\ p.old = stale)
      BY <2>1 DEF DecidePass, votes, stale
    <3> QED BY <3>2, <3>3
  <2>2. CASE ~DecidePass(s) BY <2>2 DEF DecideFail, ExpireVote, Wait, Rest
  <2> QED BY <2>1, <2>2
<1>5. here' \in [Tags -> SUBSET Slots] /\ budget'.opens = budget.opens BY DEF FloorInv
<1>6. DOMAIN <<>> = {} OBVIOUS
<1> QED BY <1>1, <1>2, <1>3, <1>4, <1>5, <1>6, NoVoteIs, EndsFloor

\* A subtotal is noted with the vote it is of.
LEMMA TallyFloor ==
  ASSUME ConvergeInv, FloorInv, NEW e \in air, OnTally(e), air' = air \ {e},
         UNCHANGED <<here, budget, yes, passed>>
  PROVE  FloorInv'
<1> DEFINE s == e.to
           noted == [t \in DOMAIN tally[s] \cup {e.from} |-> IF t = e.from THEN e.body ELSE tally[s][t]]
<1>1. s \in Tags /\ e.from \in Tags /\ e.from # s /\ Backed(e.body, e.from)
  <2>1. e.kind = "T" BY DEF OnTally
  <2>2. e.from \in Tags /\ Backed(e.body, e.from) BY <2>1 DEF FloorInv
  <2>3. e.from # e.to BY DEF ConvergeInv, Owned
  <2> QED BY <2>2, <2>3, VoteParts
<1>2. vote' = vote /\ (tally' = tally \/ tally' = [tally EXCEPT ![s] = noted]) BY DEF OnTally
<1>3. DOMAIN tally[s] \subseteq Tags \ {s} /\ \A t \in DOMAIN tally[s] : Backed(tally[s][t], t) BY <1>1 DEF FloorInv
<1>4. DOMAIN noted \subseteq Tags \ {s} BY <1>1, <1>3
<1>5. \A t \in DOMAIN noted : Backed(noted[t], t) BY <1>1, <1>3
<1>6. here' \in [Tags -> SUBSET Slots] /\ budget'.opens = budget.opens BY DEF FloorInv
<1>7. \A x \in air' : x \in air OBVIOUS
<1>8. \A p \in passed' : p \in passed OBVIOUS
<1> HIDE DEF noted, s
<1> QED BY <1>1, <1>2, <1>4, <1>5, <1>6, <1>7, <1>8, EndsFloor

\* An event that starts or ends a vote brings no ballot.
LEMMA EventFloor ==
  ASSUME ConvergeInv, FloorInv, NEW e \in air, OnOpen(e) \/ OnPass(e) \/ OnFail(e), air' = air \ {e},
         UNCHANGED <<here, budget, yes, passed>>
  PROVE  FloorInv'
<1> DEFINE s == e.to
           new == [on |-> TRUE, id |-> e.id, map |-> e.body, master |-> e.from,
                   mine |-> FALSE, due |-> mvNow + Duration, ballot |-> NoVote.ballot]
<1>1. s \in Tags BY VoteParts
<1>2. ~(new.on /\ new.mine) /\ \A c \in Slots : new.ballot[c] # "yes" BY NoVoteIs
<1>3. here' \in [Tags -> SUBSET Slots] /\ budget'.opens = budget.opens BY DEF FloorInv
<1>4. \A x \in air' : x \in air OBVIOUS
<1>5. \A p \in passed' : p \in passed OBVIOUS
<1>6. DOMAIN <<>> = {} OBVIOUS
<1>7. CASE OnOpen(e)
  <2>1. tally' = tally /\ (vote' = vote \/ vote' = [vote EXCEPT ![s] = new]) BY <1>7 DEF OnOpen
  <2> HIDE DEF new, s
  <2> QED BY <1>1, <1>2, <1>3, <1>4, <1>5, <2>1, EndsFloor
<1>8. CASE OnPass(e) \/ OnFail(e)
  <2>1. vote' = vote \/ vote' = [vote EXCEPT ![s] = NoVote] BY <1>8 DEF OnPass, OnFail, ArmSwitch, Reset
  <2>2. tally' = tally \/ tally' = [tally EXCEPT ![s] = <<>>] BY <1>8 DEF OnPass, OnFail, ArmSwitch, Reset
  <2> HIDE DEF new, s
  <2> QED BY <1>1, <1>3, <1>4, <1>5, <1>6, <2>1, <2>2, NoVoteIs, EndsFloor
<1> QED BY <1>7, <1>8

\* Steps that leave votes, ballots and tallies alone.
LEMMA QuietFloor ==
  ASSUME ConvergeInv, FloorInv, budget'.opens = budget.opens, air' \subseteq air,
         UNCHANGED <<here, vote, tally, yes, passed>>
  PROVE  FloorInv'
<1>1. here' \in [Tags -> SUBSET Slots] BY DEF FloorInv
<1>2. \A t \in Tags : vote'[t].on /\ vote'[t].mine => vote[t].on /\ vote[t].mine /\ vote'[t].id = vote[t].id
  OBVIOUS
<1>3. \A id \in Ids : Opened(id) => Opened(id)' /\ (Running(id)' => Running(id)) BY <1>2, RunsNothingNew
<1>4. \A t \in Tags : vote'[t].on => vote[t].on /\ vote'[t].id = vote[t].id /\ vote'[t].ballot = vote[t].ballot
  OBVIOUS
<1>5. DOMAIN tally' = Tags /\ \A t \in Tags : DOMAIN tally'[t] \subseteq Tags \ {t} BY DEF FloorInv
<1>6. \A t \in Tags : \A u \in DOMAIN tally'[t] : Backed(tally'[t][u], u) BY DEF FloorInv
<1>7. \A e \in air' : e \in air OBVIOUS
<1>8. \A p \in passed' : p \in passed OBVIOUS
<1> QED BY <1>1, <1>3, <1>4, <1>5, <1>6, <1>7, <1>8, BallotsStay

\* At the start nobody has voted.
LEMMA FloorInit == MvInit => FloorInv
<1> SUFFICES ASSUME MvInit PROVE FloorInv OBVIOUS
<1>1. /\ yes = {} /\ air = {} /\ passed = {} /\ here = Crowd
      /\ vote = [s \in Tags |-> NoVote] /\ tally = [s \in Tags |-> <<>>]
  BY DEF MvInit
<1>2. here \in [Tags -> SUBSET Slots] BY <1>1, MeshVoteAssumption DEF MeshVoteAssumption
<1>3. \A s \in Tags : ~vote[s].on BY <1>1, NoVoteIs
<1>4. DOMAIN <<>> = {} OBVIOUS
<1>5. DOMAIN tally = Tags /\ \A s \in Tags : DOMAIN tally[s] = {} BY <1>1, <1>4
<1>6. VoteFloor BY <1>1 DEF VoteFloor
<1> QED BY <1>1, <1>2, <1>3, <1>5, <1>6 DEF FloorInv

\* Every step keeps the floor.
LEMMA FloorNext == ConvergeInv /\ FloorInv /\ [MvNext]_mvVars => FloorInv'
<1> SUFFICES ASSUME ConvergeInv, FloorInv, [MvNext]_mvVars PROVE FloorInv' OBVIOUS
<1>1. budget' = budget \/ (\E n : budget' = [budget EXCEPT !.odd = n]) => budget'.opens = budget.opens
  BY VoteParts
<1>2. ASSUME NEW s \in Tags, NEW c \in Slots, NEW m \in MvMaps, Open(s, c, m) PROVE FloorInv'
  BY <1>2, OpenFloor
<1>3. ASSUME NEW s \in Tags, NEW c \in Slots, NEW b \in {"yes", "no"}, Cast(s, c, b) PROVE FloorInv'
  BY <1>3, CastFloor
<1>4. ASSUME NEW s \in Tags, NEW c \in Slots, ComeOrGo(s, c) PROVE FloorInv' BY <1>4, CrowdFloor
<1>5. ASSUME NEW s \in Tags, Cancel(s) PROVE FloorInv' BY <1>5, CancelFloor
<1>6. ASSUME NEW s \in Tags, NEW m \in MvMaps, LoadMap(s, m) PROVE FloorInv'
  <2>1. budget'.opens = budget.opens BY <1>1, <1>6 DEF LoadMap
  <2> QED BY <1>6, <2>1, LoadFloor DEF LoadMap
<1>7. ASSUME NEW s \in Tags, Think(s) PROVE FloorInv'
  <2>1. CASE Switch(s)
    <3>1. /\ Load(s, switch[s].map) /\ air' = air \cup Repeated(s) /\ budget'.opens = budget.opens
          /\ UNCHANGED <<here, yes, passed>>
      BY <2>1 DEF Switch
    <3> QED BY <3>1, LoadFloor
  <2>2. CASE ~Switch(s)
    <3>1. /\ UNCHANGED <<here, budget, yes, heir>>
          /\ DecidePass(s) \/ DecideFail(s) \/ ExpireVote(s) \/ Wait(s) \/ Rest(s)
      BY <1>7, <2>2 DEF Think
    <3> QED BY <3>1, ThinkFloor
  <2> QED BY <2>1, <2>2
<1>8. ASSUME NEW e \in air, Deliver(e) PROVE FloorInv'
  <2>1. air' = air \ {e} /\ UNCHANGED <<here, budget, yes, passed>> BY <1>8 DEF Deliver
  <2>2. CASE OnTally(e) BY <2>1, <2>2, TallyFloor
  <2>3. CASE OnOpen(e) \/ OnPass(e) \/ OnFail(e) BY <2>1, <2>3, EventFloor
  <2> QED BY <1>8, <2>2, <2>3 DEF Deliver
<1>9. ASSUME NEW e \in air, LoseEvent(e) PROVE FloorInv'
  <2>1. budget'.opens = budget.opens BY <1>1, <1>9 DEF LoseEvent
  <2> QED BY <1>9, <2>1, QuietFloor DEF LoseEvent
<1>10. CASE MvTick BY <1>10, QuietFloor DEF MvTick, mvHistory
<1>11. CASE UNCHANGED mvVars \/ \E s \in Tags : Arrive(s) BY <1>11, QuietFloor DEF mvVars, Arrive
<1> QED BY <1>2, <1>3, <1>4, <1>5, <1>6, <1>7, <1>8, <1>9, <1>10, <1>11 DEF MvNext, MvPlayers, MvSystem

(* One player cannot move the mesh, however many servers and players there *)
(* are: a vote passes on the ballots of MinYes people or more, each cast   *)
(* while it ran, unless the count holds what a former vote or a former     *)
(* player left behind (meshvote.as, RACE_MeshVoteAggregate and             *)
(* RACE_MeshVoteThink).                                                    *)
THEOREM VotesNeedVoters == MvSpec => []VoteFloor
<1>1. MvInit => ConvergeInv /\ FloorInv BY ConvergeInit, FloorInit
<1>2. ConvergeInv /\ FloorInv /\ [MvNext]_mvVars => (ConvergeInv /\ FloorInv)' BY ConvergeNext, FloorNext
<1>3. FloorInv => VoteFloor BY DEF FloorInv
<1> QED BY <1>1, <1>2, <1>3, PTL DEF MvSpec

(* Both together: what the runs check of the votes.                        *)
THEOREM VotesAreSound == MvSpec => []VoteSound
<1>1. VoteFloor /\ OneMasterSoon => VoteSound BY DEF VoteSound
<1> QED BY <1>1, VotesNeedVoters, VotesConverge, PTL
=============================================================================
