------------------------------ MODULE MeshVote ------------------------------
(***************************************************************************)
(* The mesh-wide map vote (hrace/meshvote.as).  A server that opens a vote *)
(* is its master: it alone sums the subtotals of the others and decides.   *)
(* Two votes opened at once resolve to the smaller id.  A decided result   *)
(* is sent again and again for a while; a passed one arms a switch.        *)
(*                                                                         *)
(* Abstractions.  Tags are numbers and a vote id is <<tag, serial>>: ids   *)
(* of two tags compare by the tag, those of one tag by the digits of a     *)
(* time, either way.  A tick stands for the intervals of the code; an      *)
(* event crosses the mesh within the tick it is sent in, in any order, is  *)
(* deduplicated by the transport, or lost with its one repetition.  A      *)
(* server that loads a map is deaf for as long as that takes: the library  *)
(* is unloaded and its socket closed.  A wildcard or a sync is a choice of *)
(* the map.                                                                *)
(***************************************************************************)
EXTENDS Integers, FiniteSets, Functions

CONSTANTS Tags,         \* rs_mirror_tag of every server, numbers
          Slots,        \* client slots of a server
          Crowd,        \* [Tags -> SUBSET Slots]: who plays at the start
          MvMaps, Home, \* maps, and the one every server starts on
          Refused,      \* <<tag, map>>: not installed or blocked there
          Duration, ExpireGrace, Cooldown, SwitchDelay, MinYes,
          LastOpen,     \* bound: no vote is opened later
          MaxOpens, MaxCasts,
          MaxOdd        \* bound: players coming or going, other map loads, lost events

ASSUME MeshVoteAssumption ==
  /\ Tags \subseteq Nat /\ IsFiniteSet(Tags) /\ IsFiniteSet(Slots)
  /\ Home \in MvMaps /\ Crowd \in [Tags -> SUBSET Slots] /\ Refused \subseteq Tags \X MvMaps
  /\ {Duration, Cooldown} \subseteq Nat \ {0} /\ {ExpireGrace, SwitchDelay, MinYes} \subseteq Nat
  /\ {LastOpen, MaxOpens, MaxCasts, MaxOdd} \subseteq Nat

VARIABLES mvNow,      \* realTime
          here,       \* [tag -> slots with an eligible player]
          mvMap,      \* [tag -> current map]
          vote,       \* [tag -> the active vote's globals]
          tally,      \* [tag -> [peer -> latest subtotal]] (mvTagList ...)
          switch,     \* [tag -> pending switch]
          result,     \* [tag -> result being repeated]
          lastResult, \* [tag -> mvLastResultId]
          cool,       \* [tag -> mvCooldownUntil]
          air,        \* events on their way
          thought,    \* servers whose frame has run in this tick
          away,       \* servers in a map load
          budget,       \* what is left of the bounds
          yes,        \* history: <<vote, tag, slot>> that voted yes
          heir,       \* history: <<tag, slot>> taken over with a ballot in it
          unaware,    \* history: <<tag, vote>>: OPEN lost, the vote given up for
                      \* another one or for its result, or a map loaded since
          passed,     \* history: the votes that passed
          missed      \* history: servers that were loading another map at the last pass,
                      \* or since, and not back before its result was sent for the last time

mvVars == <<mvNow, here, mvMap, vote, tally, switch, result, lastResult, cool,
            air, thought, away, budget, yes, heir, unaware, passed, missed>>
mvHistory == <<yes, heir, unaware, passed, missed>>

NoId == <<0, 0>>
NoVote == [on |-> FALSE, id |-> NoId, map |-> Home, master |-> 0, mine |-> FALSE, due |-> 0,
           ballot |-> [c \in Slots |-> "none"]]
NoSwitch == [on |-> FALSE, map |-> Home, at |-> 0]
NoResult == [on |-> FALSE, id |-> NoId, pass |-> FALSE, map |-> Home, until |-> 0]

\* What RACE_MeshVoteIdLess may answer.
IdLess(a, b) == IF a[1] # b[1] THEN {a[1] < b[1]} ELSE BOOLEAN

Subtotal(s) ==
  LET said(b) == Cardinality({c \in here[s] : vote[s].ballot[c] = b})
  IN [yes |-> said("yes"), no |-> said("no"), elig |-> Cardinality(here[s]), of |-> vote[s].id]

Aggregate(s) ==
  LET peers == DOMAIN tally[s] part == Subtotal(s)
  IN [yes |-> part.yes + SumFunctionOnSet([t \in peers |-> tally[s][t].yes], peers),
      elig |-> part.elig + SumFunctionOnSet([t \in peers |-> tally[s][t].elig], peers),
      old |-> \E t \in peers : tally[s][t].of # vote[s].id]

Event(s, kind, id, body) ==
  {[to |-> t, from |-> s, kind |-> kind, id |-> id, body |-> body] : t \in Tags \ {s}}

\* RACE_MeshVoteReset.
Reset(s, wait) ==
  /\ vote' = [vote EXCEPT ![s] = NoVote]
  /\ tally' = [tally EXCEPT ![s] = <<>>]
  /\ cool' = [cool EXCEPT ![s] = mvNow + wait]

\* RACE_MeshVoteArmSwitch.  The subtotals stay.  (So do the other globals of
\* the vote, which nothing reads while none is active.)
ArmSwitch(s, m) ==
  /\ vote' = [vote EXCEPT ![s] = NoVote]
  /\ cool' = [cool EXCEPT ![s] = mvNow + Cooldown]
  /\ switch' = IF m = mvMap[s] \/ <<s, m>> \in Refused THEN switch
               ELSE [switch EXCEPT ![s] = [on |-> TRUE, map |-> m, at |-> mvNow + SwitchDelay]]
  /\ UNCHANGED tally

-----------------------------------------------------------------------------
(* The players.                                                            *)

CanStart(s, c) == s \notin away /\ ~vote[s].on /\ mvNow >= cool[s] /\ c \in here[s]

\* /meshvote <map> and /meshvote sync: become the master of a fresh vote.
Open(s, c, m) ==
  LET id == <<s, MaxOpens - budget.opens + 1>> IN
  /\ budget.opens > 0 /\ mvNow <= LastOpen /\ budget' = [budget EXCEPT !.opens = @ - 1]
  /\ CanStart(s, c) /\ <<s, m>> \notin Refused
  /\ vote' = [vote EXCEPT ![s] = [on |-> TRUE, id |-> id, map |-> m, master |-> s, mine |-> TRUE,
                due |-> mvNow + Duration, ballot |-> [NoVote.ballot EXCEPT ![c] = "yes"]]]
  /\ air' = air \cup Event(s, "O", id, m)
  /\ yes' = {v \in yes : v[1][1] # s} \cup {<<id, s, c>>}
  /\ heir' = {h \in heir : h[1] # s}
  /\ UNCHANGED <<mvNow, here, mvMap, tally, switch, result, lastResult, cool, thought, away, unaware, passed, missed>>

Cast(s, c, b) ==
  /\ budget.casts > 0 /\ budget' = [budget EXCEPT !.casts = @ - 1]
  /\ vote[s].on /\ c \in here[s] /\ vote[s].ballot[c] # b
  /\ vote' = [vote EXCEPT ![s].ballot[c] = b]
  /\ thought' = thought \ {s}
  /\ yes' = IF b = "yes" THEN yes \cup {<<vote[s].id, s, c>>} ELSE yes
  /\ heir' = heir \ {<<s, c>>}
  /\ UNCHANGED <<mvNow, here, mvMap, tally, switch, result, lastResult, cool, air, away, unaware, passed, missed>>

Cancel(s) ==
  /\ vote[s].on /\ vote[s].mine
  /\ air' = air \cup Event(s, "R", vote[s].id, "FAIL")
  /\ Reset(s, Cooldown)
  /\ UNCHANGED <<mvNow, here, mvMap, switch, result, lastResult, thought, away, budget>> /\ UNCHANGED mvHistory

\* A player comes or goes, while a vote runs somewhere; nothing clears the
\* ballot of the slot.
Voting == \E t \in Tags : vote[t].on

ComeOrGo(s, c) ==
  /\ Voting
  /\ budget.odd > 0 /\ budget' = [budget EXCEPT !.odd = @ - 1]
  /\ here' = [here EXCEPT ![s] = IF c \in @ THEN @ \ {c} ELSE @ \cup {c}]
  /\ heir' = IF c \notin here[s] /\ vote[s].on /\ vote[s].ballot[c] # "none" THEN heir \cup {<<s, c>>} ELSE heir
  /\ UNCHANGED <<mvNow, mvMap, vote, tally, switch, result, lastResult, cool, air, thought, away, yes, unaware, passed, missed>>

-----------------------------------------------------------------------------
(* Events.                                                                 *)

\* Mutant: a vote under way is kept, whatever the ids.
MutOnOpen(e) ==
  LET s == e.to IN
  /\ e.kind = "O"
  /\ vote' = IF vote[s].on THEN vote
             ELSE [vote EXCEPT ![s] = [on |-> TRUE, id |-> e.id, map |-> e.body, master |-> e.from,
                     mine |-> FALSE, due |-> mvNow + Duration, ballot |-> NoVote.ballot]]
  /\ heir' = IF vote' = vote THEN heir ELSE {h \in heir : h[1] # s}
  /\ UNCHANGED <<tally, switch, lastResult, cool, unaware>>

OnOpen(e) ==
  LET s == e.to IN
  /\ e.kind = "O"
  /\ \E less \in IF vote[s].on THEN IdLess(e.id, vote[s].id) ELSE {TRUE} :
       vote' = IF (vote[s].on /\ e.id = vote[s].id) \/ ~less THEN vote
               ELSE [vote EXCEPT ![s] = [on |-> TRUE, id |-> e.id, map |-> e.body, master |-> e.from,
                       mine |-> FALSE, due |-> mvNow + Duration, ballot |-> NoVote.ballot]]
  /\ heir' = IF vote' = vote THEN heir ELSE {h \in heir : h[1] # s}
  /\ unaware' = IF vote[s].on THEN unaware \cup {<<s, id>> : id \in {vote[s].id, e.id} \ {vote'[s].id}} ELSE unaware
  /\ UNCHANGED <<tally, switch, lastResult, cool>>

OnTally(e) ==
  LET s == e.to IN
  /\ e.kind = "T"
  /\ tally' = IF vote[s].on /\ vote[s].mine /\ e.id = vote[s].id
              THEN [tally EXCEPT ![s] = [t \in DOMAIN tally[s] \cup {e.from} |->
                                           IF t = e.from THEN e.body ELSE tally[s][t]]] ELSE tally
  /\ UNCHANGED <<vote, switch, lastResult, cool, heir, unaware>>

OnPass(e) ==
  LET s == e.to IN
  /\ e.kind = "R" /\ e.body # "FAIL"
  /\ IF e.id = lastResult[s] THEN UNCHANGED <<vote, tally, switch, lastResult, cool, unaware>>
     ELSE /\ ArmSwitch(s, e.body) /\ lastResult' = [lastResult EXCEPT ![s] = e.id]
          /\ unaware' = IF vote[s].on THEN unaware \cup {<<s, vote[s].id>>} ELSE unaware
  /\ UNCHANGED heir

\* Only from the master of this server's vote.
OnFail(e) ==
  LET s == e.to IN
  /\ e.kind = "R" /\ e.body = "FAIL"
  /\ IF e.id # lastResult[s] /\ vote[s].on /\ e.id = vote[s].id /\ e.from = vote[s].master
     THEN Reset(s, Cooldown) /\ lastResult' = [lastResult EXCEPT ![s] = e.id]
     ELSE UNCHANGED <<vote, tally, cool, lastResult>>
  /\ UNCHANGED <<switch, heir, unaware>>

Deliver(e) ==
  /\ e.to \notin away /\ air' = air \ {e}
  /\ OnOpen(e) \/ OnTally(e) \/ OnPass(e) \/ OnFail(e)
  /\ UNCHANGED <<mvNow, here, mvMap, result, thought, away, budget, yes, passed, missed>>

\* Lost on its way, or nobody there to receive it.
LoseEvent(e) ==
  /\ IF e.to \in away THEN UNCHANGED budget
     ELSE budget.odd > 0 /\ budget' = [budget EXCEPT !.odd = @ - 1]
  /\ air' = air \ {e}
  /\ unaware' = IF e.kind = "O" THEN unaware \cup {<<e.to, e.id>>} ELSE unaware
  /\ UNCHANGED <<mvNow, here, mvMap, vote, tally, switch, result, lastResult, cool, thought, away, yes, heir, passed, missed>>

-----------------------------------------------------------------------------
(* RACE_MeshVoteThink, once a tick and after every ballot.                 *)

Repeated(s) ==
  IF result[s].on
  THEN Event(s, "R", result[s].id, IF result[s].pass THEN result[s].map ELSE "FAIL") ELSE {}
Repeating(s) == [result EXCEPT ![s].on = @ /\ mvNow < result[s].until]

SwitchDue(s) == switch[s].on /\ mvNow >= switch[s].at

\* The load begins; the script's globals will be those of a fresh map.
Load(s, m) ==
  /\ mvMap' = [mvMap EXCEPT ![s] = m] /\ away' = away \cup {s}
  /\ vote' = [vote EXCEPT ![s] = NoVote] /\ tally' = [tally EXCEPT ![s] = <<>>]
  /\ switch' = [switch EXCEPT ![s] = NoSwitch] /\ result' = [result EXCEPT ![s] = NoResult]
  /\ lastResult' = [lastResult EXCEPT ![s] = NoId] /\ cool' = [cool EXCEPT ![s] = 0]
  /\ heir' = {h \in heir : h[1] # s}
  /\ unaware' = unaware \cup {<<s, vote[t].id>> : t \in {u \in Tags \ {s} : vote[u].on /\ vote[u].mine}}

Switch(s) ==
  /\ SwitchDue(s) /\ Load(s, switch[s].map)
  /\ air' = air \cup Repeated(s) /\ thought' = thought \cup {s}
  /\ UNCHANGED <<mvNow, here, budget, yes, passed, missed>>

\* The map is loaded and the worker of the mesh runs again.
Arrive(s) ==
  /\ s \in away /\ away' = away \ {s}
  /\ missed' = IF \E t \in Tags : result[t].on /\ result[t].pass THEN missed \ {s} ELSE missed
  /\ UNCHANGED <<mvNow, here, mvMap, vote, tally, switch, result, lastResult, cool, air, thought, budget,
                 yes, heir, unaware, passed>>

Rest(s) ==
  /\ ~SwitchDue(s) /\ ~vote[s].on /\ result[s].on
  /\ air' = air \cup Repeated(s) /\ result' = Repeating(s)
  /\ UNCHANGED <<vote, tally, switch, lastResult, cool, passed, missed>>

Passes(s) == LET sum == Aggregate(s) IN sum.yes >= MinYes /\ 2 * sum.yes > sum.elig

BeginResult(s, pass) ==
  /\ result' = [result EXCEPT ![s] = [on |-> TRUE, id |-> vote[s].id, pass |-> pass,
                  map |-> vote[s].map, until |-> mvNow + SwitchDelay]]
  /\ lastResult' = [lastResult EXCEPT ![s] = vote[s].id]

\* The subtotal goes to everybody; only the server the id names can use it.
Counting(s) ==
  /\ ~SwitchDue(s) /\ vote[s].on
  /\ air' = air \cup Repeated(s)
                \cup {e \in Event(s, "T", vote[s].id, Subtotal(s)) : e.to = vote[s].id[1]}

\* Somebody else is at it too: another master, or a result that is not out (or, below,
\* still on its way).
Rivals(s) == {t \in Tags \ {s} : (vote[t].on /\ vote[t].mine) \/ switch[t].on \/ result[t].on}

DecidePass(s) ==
  /\ Counting(s) /\ vote[s].mine /\ Passes(s)
  /\ BeginResult(s, TRUE) /\ ArmSwitch(s, vote[s].map)
  /\ passed' = passed \cup {[id |-> vote[s].id, map |-> vote[s].map, nth |-> Cardinality(passed),
                 voters |-> Cardinality({v \in yes : v[1] = vote[s].id}),
                 old |-> Aggregate(s).old \/ heir # {}, alone |-> Rivals(s) = {} /\ ~switch[s].on /\ ~result[s].on
                            /\ \A e \in air : e.kind # "R"]}
  /\ missed' = away

DecideFail(s) ==
  /\ Counting(s) /\ vote[s].mine /\ ~Passes(s) /\ mvNow >= vote[s].due
  /\ BeginResult(s, FALSE) /\ Reset(s, Cooldown)
  /\ UNCHANGED <<switch, passed, missed>>

\* The master went silent.
ExpireVote(s) ==
  /\ Counting(s) /\ ~vote[s].mine /\ mvNow >= vote[s].due + ExpireGrace
  /\ Reset(s, Cooldown) /\ result' = Repeating(s)
  /\ UNCHANGED <<switch, lastResult, passed, missed>>

Wait(s) ==
  /\ Counting(s) /\ result' = Repeating(s)
  /\ IF vote[s].mine THEN ~Passes(s) /\ mvNow < vote[s].due ELSE mvNow < vote[s].due + ExpireGrace
  /\ UNCHANGED <<vote, tally, switch, lastResult, cool, passed, missed>>

Think(s) ==
  \/ Switch(s)
  \/ /\ DecidePass(s) \/ DecideFail(s) \/ ExpireVote(s) \/ Wait(s) \/ Rest(s)
     /\ thought' = thought \cup {s}
     /\ UNCHANGED <<mvNow, here, mvMap, away, budget, yes, heir, unaware>>

\* A native vote, the rotation or an administrator changes the map while a
\* mesh vote runs.
LoadMap(s, m) ==
  /\ budget.odd > 0 /\ budget' = [budget EXCEPT !.odd = @ - 1]
  /\ Voting /\ s \notin away /\ m # mvMap[s] /\ Load(s, m)
  /\ missed' = missed \cup {s}
  /\ UNCHANGED <<mvNow, here, air, thought, yes, passed>>

\* A frame without a vote, a switch or a result changes nothing; a server
\* in a map load has none of them, nor a frame.
NothingToDo(s) == ~SwitchDue(s) /\ ~vote[s].on /\ ~result[s].on

MvTick ==
  /\ \A s \in Tags : s \in thought \/ NothingToDo(s)
  /\ air = {} /\ mvNow < LastOpen + Duration + ExpireGrace + 2 * SwitchDelay + 1
  /\ mvNow' = mvNow + 1 /\ thought' = {}
  /\ UNCHANGED <<here, mvMap, vote, tally, switch, result, lastResult, cool, air, away, budget>>
  /\ UNCHANGED mvHistory

MvInit ==
  /\ mvNow = 0 /\ here = Crowd /\ mvMap = [s \in Tags |-> Home]
  /\ vote = [s \in Tags |-> NoVote] /\ tally = [s \in Tags |-> <<>>]
  /\ switch = [s \in Tags |-> NoSwitch] /\ result = [s \in Tags |-> NoResult]
  /\ lastResult = [s \in Tags |-> NoId] /\ cool = [s \in Tags |-> 0]
  /\ air = {} /\ thought = {} /\ away = {}
  /\ budget = [opens |-> MaxOpens, casts |-> MaxCasts, odd |-> MaxOdd]
  /\ yes = {} /\ heir = {} /\ unaware = {} /\ passed = {} /\ missed = {}

MvPlayers ==
  \E s \in Tags :
    \/ \E c \in Slots : (\E m \in MvMaps : Open(s, c, m)) \/ (\E b \in {"yes", "no"} : Cast(s, c, b)) \/ ComeOrGo(s, c)
    \/ Cancel(s)
    \/ \E m \in MvMaps : LoadMap(s, m)

MvSystem == (\E s \in Tags : (s \notin thought /\ Think(s)) \/ Arrive(s)) \/ (\E e \in air : Deliver(e) \/ LoseEvent(e)) \/ MvTick

MvNext == MvPlayers \/ MvSystem

MvSpec == MvInit /\ [][MvNext]_mvVars

-----------------------------------------------------------------------------
(* One player cannot move the mesh: a vote that passes was voted for by    *)
(* MinYes people, unless subtotals of an earlier vote, which a pass leaves *)
(* behind at a master that stays on its map, or the ballot of a slot's     *)
(* former player were counted.                                             *)
VoteFloor == \A p \in passed : p.voters >= MinYes \/ p.old

(* ... and why: while a vote runs nobody's yes is forgotten, and neither a *)
(* subtotal of it on its way nor one noted by its master says more than    *)
(* were cast at the server it is from.                                     *)
Ids == Tags \X (1..MaxOpens)
Opened(id) == id[2] <= MaxOpens - budget.opens
Running(id) == vote[id[1]].on /\ vote[id[1]].mine /\ vote[id[1]].id = id
Backers(id, t) == {c \in Slots : <<id, t, c>> \in yes}
Backed(part, t) ==
  /\ part.yes \in Nat /\ part.of \in Ids /\ Opened(part.of)
  /\ Running(part.of) => part.yes <= Cardinality(Backers(part.of, t))
FloorInv ==
  /\ yes \subseteq Ids \X Tags \X Slots /\ here \in [Tags -> SUBSET Slots]
  /\ \A s \in Tags : vote[s].on /\ Running(vote[s].id) =>
       \A c \in Slots : vote[s].ballot[c] = "yes" => c \in Backers(vote[s].id, s)
  /\ \A e \in air : e.kind = "T" => e.from \in Tags /\ Backed(e.body, e.from)
  /\ DOMAIN tally = Tags
  /\ \A s \in Tags : DOMAIN tally[s] \subseteq Tags \ {s} /\ \A t \in DOMAIN tally[s] : Backed(tally[s][t], t)
  /\ VoteFloor

(* Votes opened at once converge without negotiation: of two masters, the  *)
(* one with the greater tag is not aware of the other: the OPEN is on its  *)
(* way or was lost, it gave that vote up for a third one or on the result  *)
(* of one, or it has loaded a map since.                                   *)
OneMasterSoon ==
  \A s, t \in Tags :
    s < t /\ vote[s].on /\ vote[s].mine /\ vote[t].on /\ vote[t].mine =>
      \/ <<t, vote[s].id>> \in unaware
      \/ \E e \in air : e.kind = "O" /\ e.to = t /\ e.id = vote[s].id

(* ... and why: who follows a vote does so until its master has decided,   *)
(* and the cooldown holds it for the rest of that tick.                    *)
Votes == [on : BOOLEAN, id : Ids \cup {NoId}, map : MvMaps, master : Tags \cup {0}, mine : BOOLEAN, due : Nat,
          ballot : [Slots -> {"yes", "no", "none"}]]
MvTyped ==
  /\ mvNow \in Nat /\ vote \in [Tags -> Votes] /\ cool \in [Tags -> Nat]
  /\ DOMAIN budget = {"opens", "casts", "odd"} /\ budget.opens \in 0..MaxOpens
  /\ \A s \in Tags : vote[s].on => vote[s].id \in Ids /\ Opened(vote[s].id)
  /\ result \in [Tags -> [on : BOOLEAN, id : Ids \cup {NoId}, pass : BOOLEAN, map : MvMaps, until : Nat]]
  /\ \A e \in air : e.to \in Tags /\ e.id \in Ids /\ Opened(e.id) /\ (e.kind = "O" => e.body \in MvMaps)
\* A vote belongs to the server its id names, and so do its events and results.
Owned ==
  /\ \A s \in Tags : vote[s].on => vote[s].master = vote[s].id[1] /\ (vote[s].mine <=> vote[s].master = s)
  /\ \A s \in Tags : result[s].on => result[s].id \in Ids /\ Opened(result[s].id) /\ result[s].id[1] = s
  /\ \A e \in air : (e.kind = "O" => e.from = e.id[1]) /\ e.to # e.from
\* A result is out only when the vote is over, and a master decides in time,
\* before its followers give up.
Settled ==
  /\ \A s \in Tags : result[s].on => ~Running(result[s].id)
  /\ \A e \in air : e.kind = "R" => ~Running(e.id)
  /\ \A s \in Tags : vote[s].on /\ vote[s].mine =>
       /\ mvNow <= vote[s].due /\ vote[s].due <= mvNow + Duration
       /\ s \in thought => mvNow < vote[s].due
  /\ \A t \in Tags : vote[t].on /\ ~vote[t].mine /\ Running(vote[t].id) =>
       vote[vote[t].id[1]].due <= vote[t].due
\* What t knows of the vote that s runs.
Aware(s, t) ==
  \/ vote[t].on /\ ~vote[t].mine /\ vote[t].id = vote[s].id
  \/ ~(vote[t].on /\ vote[t].mine) /\ mvNow = vote[s].due /\ cool[t] > mvNow
ConvergeInv ==
  /\ MvTyped /\ Owned /\ Settled
  /\ \A s, t \in Tags : s < t /\ vote[s].on /\ vote[s].mine =>
       \/ <<t, vote[s].id>> \in unaware
       \/ \E e \in air : e.kind = "O" /\ e.to = t /\ e.id = vote[s].id
       \/ Aware(s, t)

(* A vote that passes with nobody else at it moves every server that can   *)
(* load the map, whatever single event is lost, and none twice: when all   *)
(* is quiet again they are on it.  The vote is abandoned on a server that  *)
(* loads another map for as long as the result is sent, and with a master  *)
(* that does.                                                              *)
MvQuiet == air = {} /\ \A s \in Tags : ~vote[s].on /\ ~switch[s].on /\ ~result[s].on
AllSwitched ==
  MvQuiet /\ passed # {} =>
    LET last == CHOOSE p \in passed : \A q \in passed : q.nth <= p.nth
      IN last.alone /\ last.id[1] \notin missed =>
         \A s \in Tags : mvMap[s] = last.map \/ <<s, last.map>> \in Refused \/ s \in missed

VoteSound == VoteFloor /\ OneMasterSoon

(* Every vote ends everywhere, also where its master is gone.              *)
VotesEnd == \A s \in Tags : ~vote[s].on /\ ~switch[s].on
=============================================================================
