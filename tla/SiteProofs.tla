----------------------------- MODULE SiteProofs -----------------------------
(***************************************************************************)
(* What the parts of MCSite promise for every value of their constants.    *)
(*                                                                         *)
(* ResponseCache: a body written before record v cannot be stored or       *)
(* served once v's second eviction is on its way, as no handler and no SET *)
(* older than it is left (NothingOlder); a follower gets the body of a     *)
(* leader that still runs (Leads, Built), so it read no earlier than that. *)
(*                                                                         *)
(* ReadApi: an answer misses no more of a write than its route's query     *)
(* reads of it (ReadInv), and what each query reads is a matter of the     *)
(* routes' table (RoutesAreGood).                                          *)
(*                                                                         *)
(* Pages: without an overlap only the page asked for runs blocks and       *)
(* polls, and what it shows is on the screen or in a block yet to run      *)
(* (PageParts).  Editor: whoever works in a control has a state to go back *)
(* to, and edits are numbered as they are made (EdParts).  RandomDealer:   *)
(* the way on from where a piece was entered never leads back to it        *)
(* (Sound).  ReplayViewer: ViewerInv.                                      *)
(***************************************************************************)
EXTENDS MCSite, TLAPS, SequenceTheorems, FiniteSetTheorems


\* The empty caches are well typed.
LEMMA InitTyped == Init => TypeOK
  BY CacheAssumption DEF Init, TypeOK, Bodies, Empty, Nobody, CacheAssumption

\* A message appended to a channel leaves channels well typed.
LEMMA Sent ==
  ASSUME TypeOK, NEW n \in Replicas, NEW c \in Commands
  PROVE  [chan EXCEPT ![n] = Append(@, c)] \in [Replicas -> Seq(Commands)]
<1>1. \A s \in Seq(Commands) : Append(s, c) \in Seq(Commands) OBVIOUS
<1> QED BY <1>1 DEF TypeOK

\* Every step keeps the types.
LEMMA TypedNext == TypeOK /\ Built /\ [Next]_vars => TypeOK'
<1> SUFFICES ASSUME TypeOK, Built, [Next]_vars PROVE TypeOK' OBVIOUS
<1> USE CacheAssumption DEF CacheAssumption
<1>1. ASSUME NEW r \in Requests, NEW n \in Replicas, Arrive(r, n) PROVE TypeOK'
  <2>1. /\ asOf' \in [Requests -> Bodies] /\ at' \in [Requests -> Replicas \cup {Nobody}]
        /\ joined' \in [Requests -> Requests \cup {Nobody}]
    BY <1>1 DEF TypeOK, Arrive
  <2>2. /\ inflight' \in [Replicas -> Requests \cup {Nobody}] /\ leads' \in [Requests -> BOOLEAN]
        /\ pc' \in [Requests -> {"new", "get", "follow", "handler", "send", "adrift", "late", "done", "failed"}]
    <3>1. CASE Lead(r, n) BY <3>1 DEF TypeOK, Lead
    <3>2. CASE UNCHANGED <<inflight, leads>> /\ \E to \in {"follow", "get"} : pc' = [pc EXCEPT ![r] = to]
      BY <3>2 DEF TypeOK
    <3> QED BY <1>1, <3>1, <3>2 DEF Arrive
  <2> QED BY <1>1, <2>1, <2>2 DEF TypeOK, Arrive
<1>2. ASSUME NEW r \in Requests, GetAnswered(r) PROVE TypeOK'
  <2>1. /\ inflight' \in [Replicas -> Requests \cup {Nobody}] /\ leads' \in [Requests -> BOOLEAN]
        /\ pc' \in [Requests -> {"new", "get", "follow", "handler", "send", "adrift", "late", "done", "failed"}]
        /\ body' \in [Requests -> Bodies \cup {Empty}]
    <3>1. CASE Lead(r, at[r]) /\ UNCHANGED body BY <3>1 DEF TypeOK, Lead
    <3>2. CASE Serve(r, redis) BY <3>2 DEF TypeOK, Serve
    <3> QED BY <1>2, <3>1, <3>2 DEF GetAnswered
  <2> QED BY <1>2, <2>1 DEF TypeOK, GetAnswered
<1>3. ASSUME NEW r \in Requests, GetFails(r) PROVE TypeOK'
  BY <1>3 DEF TypeOK, GetFails, Lead, Bodies
<1>4. ASSUME NEW r \in Requests, Build(r) PROVE TypeOK'
  BY <1>4 DEF TypeOK, Build, Bodies
<1>5. ASSUME NEW r \in Requests, Send(r) PROVE TypeOK'
  <2>1. Set(body[r]) \in Commands BY <1>5 DEF Send, Built, Commands, Set
  <2>2. chan' \in [Replicas -> Seq(Commands)] BY <1>5, <2>1, Sent DEF TypeOK, Send, Built
  <2> QED BY <1>5, <2>2 DEF TypeOK, Send, Settle
<1>6. ASSUME NEW r \in Requests, Fail(r) PROVE TypeOK'
  BY <1>6 DEF TypeOK, Fail, Settle, Bodies, Empty
<1>7. ASSUME NEW r \in Requests, Follow(r) PROVE TypeOK'
  <2>1. pc[joined[r]] = "done" => body[joined[r]] \in Bodies BY <1>7 DEF Follow, Built
  <2> QED BY <1>7, <2>1 DEF TypeOK, Follow, Serve, Solo
<1>8. ASSUME NEW r \in Requests, FollowTimeout(r) PROVE TypeOK'
  BY <1>8 DEF TypeOK, FollowTimeout, Solo, Bodies
<1>9. ASSUME NEW n \in Replicas, Land(n) PROVE TypeOK'
  BY <1>9 DEF TypeOK, Land, Bodies
<1>10. ASSUME NEW n \in Replicas, NEW v \in Bodies, Invalidate(n, v) PROVE TypeOK'
  <2>1. Del(0) \in Commands BY DEF Bodies, Commands, Del
  <2>2. owed' \in [Replicas -> SUBSET Bodies] BY <1>10 DEF TypeOK, Invalidate
  <2>3. chan' \in [Replicas -> Seq(Commands)] /\ sweep' \in [Replicas -> SUBSET Bodies]
    <3>1. CASE ready[n]
      <4>1. chan' = [chan EXCEPT ![n] = Append(@, Del(0))] /\ sweep' = [sweep EXCEPT ![n] = @ \cup {v}]
        BY <1>10, <3>1 DEF Invalidate
      <4>2. chan' \in [Replicas -> Seq(Commands)] BY <4>1, <2>1, Sent
      <4> QED BY <4>1, <4>2 DEF TypeOK
    <3>2. CASE ~ready[n] BY <1>10, <3>2 DEF TypeOK, Invalidate
    <3> QED BY <3>1, <3>2
  <2> QED BY <1>10, <2>2, <2>3 DEF TypeOK, Invalidate
<1>11. ASSUME NEW n \in Replicas, NEW v \in Bodies, Reinvalidate(n, v) PROVE TypeOK'
  <2>1. Del(v) \in Commands BY DEF Bodies, Commands, Del
  <2>2. chan' \in [Replicas -> Seq(Commands)] BY <1>11, <2>1, Sent DEF TypeOK, Reinvalidate
  <2> QED BY <1>11, <2>2 DEF TypeOK, Reinvalidate
<1>12. ASSUME NEW n \in Replicas, Execute(n) PROVE TypeOK'
  BY <1>12, SMTT(60) DEF TypeOK, Execute, Bodies, Commands
<1>13. ASSUME NEW n \in Replicas, Disconnect(n) PROVE TypeOK'
  BY <1>13 DEF TypeOK, Disconnect, Bodies
<1>14. ASSUME NEW n \in Replicas, Reconnect(n) PROVE TypeOK'
  BY <1>14 DEF TypeOK, Reconnect, Bodies
<1>15. CASE Expire BY <1>15 DEF TypeOK, Expire, Bodies
<1>16. CASE UNCHANGED vars BY <1>16 DEF TypeOK, vars
<1>17. ASSUME NEW r \in Requests, Abort(r) PROVE TypeOK'
  BY <1>17 DEF TypeOK, Abort, Settle
<1> QED BY <1>1, <1>2, <1>3, <1>4, <1>5, <1>6, <1>7, <1>8, <1>9, <1>10, <1>11, <1>12,
           <1>13, <1>14, <1>15, <1>16, <1>17 DEF Next, Middleware

(* Who is registered still runs and will settle the entry it holds: a     *)
(* request registers under its own replica, and only while it is neither  *)
(* registered nor finished.                                               *)
LEMMA LeadsNext == TypeOK /\ Built /\ Leads /\ [Next]_vars => Leads'
<1> SUFFICES ASSUME TypeOK, Built, Leads, [Next]_vars PROVE Leads' OBVIOUS
<1> USE CacheAssumption DEF CacheAssumption
<1>1. ASSUME NEW r \in Requests, NEW n \in Replicas, Arrive(r, n) PROVE Leads'
  BY <1>1 DEF TypeOK, Built, Leads, Arrive, Lead
<1>2. ASSUME NEW r \in Requests, GetAnswered(r) PROVE Leads'
  <2>1. at[r] \in Replicas BY <1>2 DEF GetAnswered, Built
  <2>2. CASE Lead(r, at[r])
    BY <1>2, <2>1, <2>2 DEF TypeOK, Leads, GetAnswered, Lead
  <2>3. CASE Serve(r, redis)
    BY <1>2, <2>3 DEF TypeOK, Leads, GetAnswered, Serve
  <2> QED BY <1>2, <2>2, <2>3 DEF GetAnswered
<1>3. ASSUME NEW r \in Requests, GetFails(r) PROVE Leads'
  BY <1>3 DEF TypeOK, Built, Leads, GetFails, Lead
<1>4. ASSUME NEW r \in Requests, Build(r) PROVE Leads'
  BY <1>4 DEF TypeOK, Leads, Build
<1>5. ASSUME NEW r \in Requests, Send(r) PROVE Leads'
  BY <1>5 DEF TypeOK, Built, Leads, Send, Settle
<1>6. ASSUME NEW r \in Requests, Fail(r) PROVE Leads'
  BY <1>6 DEF TypeOK, Built, Leads, Fail, Settle
<1>7. ASSUME NEW r \in Requests, Follow(r) PROVE Leads'
  <2>1. pc[r] = "follow" /\ UNCHANGED <<inflight, leads, at>> /\ \E to \in {"done", "handler"} : pc' = [pc EXCEPT ![r] = to]
    BY <1>7 DEF Follow, Serve, Solo
  <2> QED BY <2>1 DEF TypeOK, Leads
<1>8. ASSUME NEW r \in Requests, FollowTimeout(r) PROVE Leads'
  BY <1>8 DEF TypeOK, Leads, FollowTimeout, Solo
<1>9. CASE UNCHANGED <<inflight, leads, at, pc>> BY <1>9 DEF Leads
<1>10. ASSUME NEW r \in Requests, Abort(r) PROVE Leads'
  BY <1>10 DEF TypeOK, Built, Leads, Abort, Settle
<1> QED
  BY <1>1, <1>2, <1>3, <1>4, <1>5, <1>6, <1>7, <1>8, <1>9, <1>10
  DEF Next, Middleware, Land, Invalidate, Reinvalidate, Execute, Expire, Disconnect, Reconnect, vars

(* Bodies exist when they are sent, and a follower follows a request that *)
(* has been running: the one registered when it arrived.                  *)
LEMMA BuiltNext == TypeOK /\ Built /\ Leads /\ [Next]_vars => Built'
<1> SUFFICES ASSUME TypeOK, Built, Leads, [Next]_vars PROVE Built' OBVIOUS
<1> USE CacheAssumption DEF CacheAssumption
<1>1. ASSUME NEW r \in Requests, NEW n \in Replicas, Arrive(r, n) PROVE Built'
  <2>1. at' = [at EXCEPT ![r] = n] /\ UNCHANGED <<db, owed, sweep, body>> /\ pc[r] = "new"
    BY <1>1 DEF Arrive
  <2>2. CASE inflight[n] # Nobody /\ joined' = [joined EXCEPT ![r] = inflight[n]]
             /\ pc' = [pc EXCEPT ![r] = "follow"]
    <3>1. inflight[n] \in Requests \ {r} /\ pc[inflight[n]] \in {"handler", "send"}
      BY <2>1, <2>2 DEF TypeOK, Leads
    <3> QED BY <2>1, <2>2, <3>1 DEF TypeOK, Built
  <2>3. CASE UNCHANGED joined /\ \E to \in {"handler", "get"} : pc' = [pc EXCEPT ![r] = to]
    BY <2>1, <2>3 DEF TypeOK, Built
  <2> QED BY <1>1, <2>2, <2>3 DEF Arrive, Lead
<1>2. ASSUME NEW r \in Requests, GetAnswered(r) PROVE Built'
  <2>1. /\ UNCHANGED <<db, owed, sweep, at, joined>> /\ pc[r] = "get"
        /\ redis # Empty => redis \in Bodies
    BY <1>2 DEF GetAnswered, TypeOK
  <2>2. CASE Lead(r, at[r]) /\ UNCHANGED body BY <2>1, <2>2 DEF TypeOK, Built, Lead
  <2>3. CASE redis # Empty /\ Serve(r, redis) BY <2>1, <2>3 DEF TypeOK, Built, Serve
  <2> QED BY <1>2, <2>2, <2>3 DEF GetAnswered
<1>3. ASSUME NEW r \in Requests, GetFails(r) PROVE Built'
  BY <1>3 DEF TypeOK, Built, GetFails, Lead
<1>4. ASSUME NEW r \in Requests, Build(r) PROVE Built'
  BY <1>4 DEF TypeOK, Built, Build
<1>5. ASSUME NEW r \in Requests, Send(r) PROVE Built'
  BY <1>5 DEF TypeOK, Built, Send
<1>6. ASSUME NEW r \in Requests, Fail(r) PROVE Built'
  BY <1>6 DEF TypeOK, Built, Fail
<1>7. ASSUME NEW r \in Requests, Follow(r) PROVE Built'
  <2>1. UNCHANGED <<db, owed, sweep, at, joined>> /\ pc[r] = "follow"
    BY <1>7 DEF Follow
  <2>2. CASE Solo(r) /\ UNCHANGED body BY <2>1, <2>2 DEF TypeOK, Built, Solo
  <2>3. CASE pc[joined[r]] = "done" /\ Serve(r, body[joined[r]])
    <3>1. body[joined[r]] \in Bodies BY <2>1, <2>3 DEF Built
    <3> QED BY <2>1, <2>3, <3>1 DEF TypeOK, Built, Serve
  <2> QED BY <1>7, <2>2, <2>3 DEF Follow
<1>8. ASSUME NEW r \in Requests, FollowTimeout(r) PROVE Built'
  BY <1>8 DEF TypeOK, Built, FollowTimeout, Solo
<1>9. ASSUME NEW n \in Replicas, Land(n) PROVE Built'
  <2>1. db' = db + 1 /\ sweep' = sweep /\ db \in Int /\ \A m \in Replicas : owed'[m] \subseteq owed[m] \cup {db + 1}
    BY <1>9 DEF Land, TypeOK, Bodies
  <2>2. \A m \in Replicas : \A v \in owed[m] \cup sweep[m] : v \in Int
    BY DEF TypeOK, Bodies
  <2>3. \A m \in Replicas : \A v \in owed'[m] \cup sweep'[m] : v <= db'
    BY <2>1, <2>2 DEF Built
  <2> QED BY <1>9, <2>3 DEF Built, Land
<1>10. ASSUME NEW n \in Replicas, NEW v \in Bodies, Invalidate(n, v) PROVE Built'
  BY <1>10 DEF TypeOK, Built, Invalidate
<1>11. ASSUME NEW n \in Replicas, NEW v \in Bodies, Reinvalidate(n, v) PROVE Built'
  BY <1>11 DEF TypeOK, Built, Reinvalidate
<1>12. CASE UNCHANGED <<db, owed, sweep, at, joined, body, pc>> BY <1>12 DEF Built
<1>13. ASSUME NEW r \in Requests, Abort(r) PROVE Built'
  BY <1>13 DEF TypeOK, Built, Abort
<1> QED
  BY <1>1, <1>2, <1>3, <1>4, <1>5, <1>6, <1>7, <1>8, <1>9, <1>10, <1>11, <1>12, <1>13
  DEF Next, Middleware, Execute, Expire, Disconnect, Reconnect, vars

-----------------------------------------------------------------------------
(* What `NothingOlder' says of the channels and of the requests, apart.    *)
Clean == \A v \in Bodies : SweptFrom(v) => v <= db /\ ~Lagging(v)
Answers ==
  \A r \in Requests :
    /\ asOf[r] <= swept
    /\ pc[r] \in {"send", "done"} => body[r] >= asOf[r]
    /\ pc[r] = "follow" /\ pc[joined[r]] \in {"send", "done"} => body[joined[r]] >= asOf[r]

\* What can be read off a clean cache.
LEMMA CleanNow ==
  ASSUME TypeOK, Clean
  PROVE  /\ swept \in Nat /\ swept <= db /\ db \in Nat /\ ~Lagging(swept)
         /\ redis \in Int /\ \A r \in Requests : asOf[r] \in Nat /\ body[r] \in Int
<1>1. swept \in Bodies /\ swept \in Nat /\ db \in Nat
  BY CacheAssumption DEF TypeOK, Bodies, CacheAssumption
<1>2. SweptFrom(swept) BY <1>1 DEF SweptFrom
<1>3. \A b \in Bodies \cup {Empty} : b \in Int BY CacheAssumption DEF Bodies, Empty, CacheAssumption
<1>4. \A b \in Bodies : b \in Nat BY CacheAssumption DEF Bodies, CacheAssumption
<1> QED BY <1>1, <1>2, <1>3, <1>4 DEF TypeOK, Clean

(* A step that adds nothing to a channel and no body in flight keeps it    *)
(* clean.                                                                  *)
LEMMA CleanKept ==
  ASSUME TypeOK, Clean, swept' = swept, db' \in Nat, db' >= db,
         \A n \in Replicas : chan'[n] = chan[n] \/ chan'[n] = <<>>,
         \A r \in Requests : pc'[r] \in {"send", "late"} => pc[r] \in {"send", "late"} /\ body'[r] = body[r]
  PROVE  Clean'
<1>1. ASSUME NEW v \in Bodies, SweptFrom(v)' PROVE v <= db' /\ ~Lagging(v)'
  <2>1. SweptFrom(v) BY <1>1 DEF SweptFrom
  <2>2. v <= db /\ ~Lagging(v) BY <2>1 DEF Clean
  <2>3. v \in Int /\ db \in Int BY CacheAssumption DEF TypeOK, Bodies, CacheAssumption
  <2>4. ~Lagging(v)' BY <2>2 DEF Lagging
  <2> QED BY <2>2, <2>3, <2>4
<1> QED BY <1>1 DEF Clean

\* Channels stay clean: the second eviction is sent when every older handler and
\* SET has ended (FastHandlers), and each replica's commands stay in order.
LEMMA CleanNext == TypeOK /\ Built /\ Clean /\ FastHandlers /\ [Next]_vars => Clean'
<1> SUFFICES ASSUME TypeOK, Built, Clean, FastHandlers, [Next]_vars PROVE Clean' OBVIOUS
<1>a. /\ db \in Nat /\ swept \in Nat /\ swept <= db
      /\ \A v \in Bodies : v \in Nat
  BY CleanNow, CacheAssumption DEF Bodies, CacheAssumption
<1>1. ASSUME NEW r \in Requests, NEW n \in Replicas, Arrive(r, n) PROVE Clean'
  BY <1>1, <1>a, CleanKept DEF TypeOK, Arrive, Lead
<1>2. ASSUME NEW r \in Requests, GetAnswered(r) PROVE Clean'
  BY <1>2, <1>a, CleanKept DEF TypeOK, GetAnswered, Lead, Serve
<1>3. ASSUME NEW r \in Requests, GetFails(r) PROVE Clean'
  BY <1>3, <1>a, CleanKept DEF TypeOK, GetFails, Lead
<1>4. ASSUME NEW r \in Requests, Build(r) PROVE Clean'
  <2>1. ASSUME NEW v \in Bodies, SweptFrom(v)' PROVE v <= db' /\ ~Lagging(v)'
    <3>1. v <= db /\ ~Lagging(v) BY <1>4, <2>1 DEF Build, SweptFrom, Clean
    <3>2. body'[r] = db /\ \A q \in Requests \ {r} : body'[q] = body[q] /\ pc'[q] = pc[q]
      BY <1>4 DEF Build, TypeOK
    <3> QED BY <1>4, <1>a, <3>1, <3>2 DEF Build, Lagging
  <2> QED BY <2>1 DEF Clean
<1>5. ASSUME NEW r \in Requests, Send(r) PROVE Clean'
  <2>1. CASE UNCHANGED chan BY <1>5, <1>a, <2>1, CleanKept DEF TypeOK, Send
  <2>2. CASE chan' = [chan EXCEPT ![at[r]] = Append(@, Set(body[r]))]
    <3> DEFINE m == at[r]
    <3>1. m \in Replicas /\ pc[r] \in {"send", "late"} BY <1>5 DEF Send, Built
    <3>2. /\ chan'[m] = Append(chan[m], Set(body[r])) /\ chan[m] \in Seq(Commands)
          /\ \A k \in Replicas \ {m} : chan'[k] = chan[k]
      BY <2>2, <3>1 DEF TypeOK
    <3>3. \A i \in 1..Len(chan'[m]) :
             \/ i \in 1..Len(chan[m]) /\ chan'[m][i] = chan[m][i]
             \/ chan'[m][i] = Set(body[r])
      <4> HIDE DEF m
      <4> QED BY <3>2
    <3>4. ASSUME NEW v \in Bodies, SweptFrom(v)' PROVE SweptFrom(v)
      <4>1. Set(body[r]) # Del(v) BY DEF Set, Del
      <4> QED BY <1>5, <3>1, <3>2, <3>3, <3>4, <4>1 DEF SweptFrom, Send
    <3>5. ASSUME NEW v \in Bodies, ~Lagging(v) PROVE ~Lagging(v)'
      <4>1. ~(body[r] < v) BY <3>1, <3>5 DEF Lagging
      <4>2. Set(body[r]).body = body[r] BY DEF Set
      <4>3. \A q \in Requests : pc'[q] \in {"send", "late"} => pc[q] \in {"send", "late"} BY <1>5 DEF Send, TypeOK
      <4>4. ~\E q \in Requests : pc'[q] \in {"send", "late"} /\ body'[q] < v
        BY <1>5, <3>5, <4>3 DEF Send, Lagging
      <4>5. ~\E k \in Replicas : \E i \in 1..Len(chan'[k]) : chan'[k][i].op = "set" /\ chan'[k][i].body < v
        <5> HIDE DEF m
        <5> QED BY <3>1, <3>2, <3>3, <3>5, <4>1, <4>2 DEF Lagging
      <4> QED BY <4>4, <4>5 DEF Lagging
    <3> QED BY <1>5, <3>4, <3>5 DEF Clean, Send
  <2> QED BY <1>5, <2>1, <2>2 DEF Send
<1>6. ASSUME NEW r \in Requests, Fail(r) PROVE Clean'
  BY <1>6, <1>a, CleanKept DEF TypeOK, Fail
<1>7. ASSUME NEW r \in Requests, Follow(r) PROVE Clean'
  BY <1>7, <1>a, CleanKept DEF TypeOK, Follow, Solo, Serve
<1>8. ASSUME NEW r \in Requests, FollowTimeout(r) PROVE Clean'
  BY <1>8, <1>a, CleanKept DEF TypeOK, FollowTimeout, Solo
<1>9. ASSUME NEW n \in Replicas, Land(n) PROVE Clean'
  BY <1>9, <1>a, CleanKept DEF TypeOK, Land
<1>10. ASSUME NEW n \in Replicas, NEW w \in Bodies, Invalidate(n, w) \/ Reinvalidate(n, w) PROVE Clean'
  <2>1. CASE UNCHANGED chan
    BY <1>10, <1>a, <2>1, CleanKept DEF TypeOK, Invalidate, Reinvalidate
  <2>2. ASSUME NEW d \in Bodies, chan' = [chan EXCEPT ![n] = Append(@, Del(d))],
               d <= swept \/ (d <= db /\ ~Lagging(d))
        PROVE  Clean'
    <3>1. UNCHANGED <<db, swept, pc, body>> BY <1>10 DEF Invalidate, Reinvalidate
    <3>2. /\ chan'[n] = Append(chan[n], Del(d)) /\ chan[n] \in Seq(Commands)
          /\ \A k \in Replicas \ {n} : chan'[k] = chan[k]
      BY <2>2 DEF TypeOK
    <3>3. \A i \in 1..Len(chan'[n]) :
             \/ i \in 1..Len(chan[n]) /\ chan'[n][i] = chan[n][i]
             \/ chan'[n][i] = Del(d)
      BY <3>2
    <3>4. ASSUME NEW v \in Bodies, SweptFrom(v)' PROVE SweptFrom(v) \/ v = d
      <4>1. Del(v) = Del(d) => v = d BY DEF Del
      <4> QED BY <3>1, <3>2, <3>3, <3>4, <4>1 DEF SweptFrom
    <3>5. ASSUME NEW v \in Bodies, ~Lagging(v) PROVE ~Lagging(v)'
      <4>1. Del(d).op # "set" BY DEF Del
      <4> QED BY <3>1, <3>2, <3>3, <3>5, <4>1 DEF Lagging
    <3>6. d <= swept => SweptFrom(d) BY DEF SweptFrom
    <3> QED BY <2>2, <3>1, <3>4, <3>5, <3>6 DEF Clean
  <2>3. 0 \in Bodies /\ 0 <= swept BY <1>a, CacheAssumption DEF Bodies, CacheAssumption
  <2>4. w \in owed[n] \cup sweep[n] => w <= db BY DEF Built
  <2>5. CASE Invalidate(n, w) BY <2>1, <2>2, <2>3, <2>5 DEF Invalidate
  <2>6. CASE Reinvalidate(n, w) BY <2>1, <2>2, <2>4, <2>6 DEF Reinvalidate
  <2> QED BY <1>10, <2>5, <2>6
<1>11. ASSUME NEW n \in Replicas, Execute(n) PROVE Clean'
  <2> DEFINE c == Head(chan[n])
  <2>1. /\ UNCHANGED <<db, pc, body>> /\ chan[n] \in Seq(Commands) /\ chan[n] # <<>>
        /\ chan'[n] = Tail(chan[n]) /\ \A k \in Replicas \ {n} : chan'[k] = chan[k]
        /\ swept' = IF c.op = "del" /\ c.body > swept THEN c.body ELSE swept
    BY <1>11 DEF Execute, TypeOK
  <2>2. 1 \in 1..Len(chan[n]) /\ chan[n][1] = c /\ c \in Commands BY <2>1
  <2>3. \A i \in 1..Len(chan'[n]) : i + 1 \in 1..Len(chan[n]) /\ chan'[n][i] = chan[n][i + 1]
    BY <2>1
  <2>4. c.op = "del" => SweptFrom(c.body) /\ c.body \in Bodies
    <3>1. c.op = "del" => c = Del(c.body) /\ c.body \in Bodies BY <2>2 DEF Commands, Del
    <3> QED BY <2>2, <3>1 DEF SweptFrom
  <2> HIDE DEF c
  <2>a. \A k \in Replicas : \A i \in 1..Len(chan'[k]) : \E j \in 1..Len(chan[k]) : chan'[k][i] = chan[k][j]
    <3>1. ASSUME NEW k \in Replicas, NEW i \in 1..Len(chan'[k])
          PROVE  \E j \in 1..Len(chan[k]) : chan'[k][i] = chan[k][j]
      <4>1. CASE k = n BY <2>3, <4>1
      <4>2. CASE k # n BY <2>1, <4>2
      <4> QED BY <4>1, <4>2
    <3> QED BY <3>1
  <2>5. ASSUME NEW v \in Bodies, SweptFrom(v)'
        PROVE  SweptFrom(v) \/ \E w \in Bodies : v <= w /\ SweptFrom(w)
    <3>1. CASE \E k \in Replicas : \E i \in 1..Len(chan'[k]) : chan'[k][i] = Del(v)
      BY <2>a, <3>1 DEF SweptFrom
    <3>2. CASE v <= swept' BY <2>1, <2>4, <3>2 DEF SweptFrom
    <3> QED BY <2>5, <3>1, <3>2 DEF SweptFrom
  <2>6. ASSUME NEW v \in Bodies, Lagging(v)' PROVE Lagging(v)
    <3>1. CASE \E k \in Replicas : \E i \in 1..Len(chan'[k]) : chan'[k][i].op = "set" /\ chan'[k][i].body < v
      <4>1. PICK k \in Replicas : \E i \in 1..Len(chan'[k]) : chan'[k][i].op = "set" /\ chan'[k][i].body < v
        BY <3>1
      <4>3. PICK i \in 1..Len(chan'[k]) : chan'[k][i].op = "set" /\ chan'[k][i].body < v
        BY <4>1
      <4>2. PICK j \in 1..Len(chan[k]) : chan'[k][i] = chan[k][j] BY <2>a
      <4> QED BY <4>2, <4>3 DEF Lagging
    <3>2. CASE \E r \in Requests : pc'[r] \in {"send", "late"} /\ body'[r] < v
      BY <2>1, <3>2 DEF Lagging
    <3> QED BY <2>6, <3>1, <3>2 DEF Lagging
  <2>7. ASSUME NEW v \in Bodies, NEW w \in Bodies, v <= w, Lagging(v) PROVE Lagging(w)
    <3>1. \A b \in Bodies \cup {Empty} : b \in Int
      BY CacheAssumption DEF Bodies, Empty, CacheAssumption
    <3>2. \A r \in Requests : body[r] \in Int BY <3>1 DEF TypeOK
    <3>3. \A k \in Replicas : \A i \in 1..Len(chan[k]) : chan[k][i] \in Commands
      BY DEF TypeOK
    <3>4. \A k \in Replicas : \A i \in 1..Len(chan[k]) : chan[k][i].body \in Int
      BY <3>1, <3>3 DEF Commands
    <3> QED BY <1>a, <2>7, <3>2, <3>4 DEF Lagging
  <2> QED BY <1>a, <2>1, <2>5, <2>6, <2>7 DEF Clean
<1>12. ASSUME NEW n \in Replicas, Disconnect(n) PROVE Clean'
  BY <1>12, <1>a, CleanKept DEF TypeOK, Disconnect
<1>13. ASSUME UNCHANGED <<db, swept, chan, pc, body>> PROVE Clean'
  BY <1>13 DEF Clean, SweptFrom, Lagging
<1>14. ASSUME NEW r \in Requests, Abort(r) PROVE Clean'
  BY <1>14, <1>a, CleanKept DEF TypeOK, Abort
<1> QED
  BY <1>1, <1>2, <1>3, <1>4, <1>5, <1>6, <1>7, <1>8, <1>9, <1>10, <1>11, <1>12, <1>13, <1>14
  DEF Next, Middleware, Expire, Reconnect, vars

\* A body that is served is no older than the evictions a request found done.
LEMMA AnswersNext ==
  TypeOK /\ Built /\ Leads /\ Clean /\ Answers /\ (redis # Empty => redis >= swept) /\ [Next]_vars => Answers'
<1> SUFFICES ASSUME TypeOK, Built, Leads, Clean, Answers, redis # Empty => redis >= swept, [Next]_vars
             PROVE  Answers'
  OBVIOUS
<1>a. /\ db \in Nat /\ swept \in Nat /\ swept <= db /\ redis \in Int
      /\ \A r \in Requests : asOf[r] \in Nat /\ body[r] \in Int
  BY CleanNow
<1>b. swept' \in Nat /\ swept' >= swept
  <2>1. CASE UNCHANGED swept BY <1>a, <2>1
  <2>2. ASSUME NEW n \in Replicas, Execute(n) PROVE swept' \in Nat /\ swept' >= swept
    <3>1. Head(chan[n]) \in Commands BY <2>2 DEF Execute, TypeOK
    <3>2. Head(chan[n]).body \in Nat BY <3>1, CacheAssumption DEF Commands, Bodies, CacheAssumption
    <3> QED BY <1>a, <2>2, <3>2 DEF Execute
  <2> QED
    BY <2>1, <2>2 DEF Next, Middleware, Arrive, GetAnswered, GetFails, Build, Send, Abort, Fail,
       Follow, FollowTimeout, Land, Invalidate, Reinvalidate, Expire, Disconnect, Reconnect, vars
<1>1. ASSUME NEW r \in Requests, NEW n \in Replicas, Arrive(r, n) PROVE Answers'
  <2>1. /\ asOf' = [asOf EXCEPT ![r] = swept] /\ UNCHANGED <<body, swept>> /\ pc[r] = "new"
        /\ \A q \in Requests \ {r} : pc'[q] = pc[q] /\ joined'[q] = joined[q]
        /\ pc'[r] \in {"follow", "handler", "get"}
    BY <1>1 DEF Arrive, Lead, TypeOK
  <2>2. pc'[r] = "follow" => joined'[r] \in Requests \ {r} /\ pc[joined'[r]] \in {"handler", "send"}
    BY <1>1 DEF Arrive, Lead, TypeOK, Leads
  <2>3. \A q \in Requests : pc[q] = "send" => body[q] >= swept
    BY <1>a, CleanNow DEF Lagging
  <2>4. \A q \in Requests \ {r} : pc[q] = "follow" => joined[q] # r /\ joined[q] \in Requests
    BY <2>1 DEF Built
  <2>5. \A q \in Requests : asOf'[q] = (IF q = r THEN swept ELSE asOf[q])
    BY <2>1 DEF TypeOK
  <2> QED BY <1>a, <2>1, <2>2, <2>3, <2>4, <2>5 DEF Answers
<1>2. ASSUME NEW r \in Requests, GetAnswered(r) PROVE Answers'
  <2>1. UNCHANGED <<asOf, swept, joined>> /\ pc[r] = "get" BY <1>2 DEF GetAnswered
  <2>2. CASE Lead(r, at[r]) /\ UNCHANGED body BY <1>a, <2>1, <2>2 DEF Answers, Lead, TypeOK, Built
  <2>3. CASE redis # Empty /\ Serve(r, redis)
    <3>1. redis >= asOf[r] BY <1>a, <2>1, <2>3 DEF Answers
    <3> QED BY <1>a, <2>1, <2>3, <3>1 DEF Answers, Serve, TypeOK, Built
  <2> QED BY <1>2, <2>2, <2>3 DEF GetAnswered
<1>3. ASSUME NEW r \in Requests, GetFails(r) PROVE Answers'
  BY <1>3, <1>a DEF Answers, GetFails, Lead, TypeOK, Built
<1>4. ASSUME NEW r \in Requests, Build(r) PROVE Answers'
  BY <1>4, <1>a DEF Answers, Build, TypeOK, Built
<1>5. ASSUME NEW r \in Requests, Send(r) PROVE Answers'
  BY <1>5, <1>a DEF Answers, Send, TypeOK, Built
<1>6. ASSUME NEW r \in Requests, Fail(r) PROVE Answers'
  BY <1>6, <1>a DEF Answers, Fail, TypeOK, Built
<1>7. ASSUME NEW r \in Requests, Follow(r) PROVE Answers'
  BY <1>7, <1>a DEF Answers, Follow, Serve, Solo, TypeOK, Built
<1>8. ASSUME NEW r \in Requests, FollowTimeout(r) PROVE Answers'
  BY <1>8, <1>a DEF Answers, FollowTimeout, Solo, TypeOK, Built
<1>9. ASSUME UNCHANGED <<asOf, pc, joined, body>> PROVE Answers'
  BY <1>9, <1>a, <1>b DEF Answers
<1>10. ASSUME NEW r \in Requests, Abort(r) PROVE Answers'
  BY <1>10, <1>a DEF Answers, Abort, TypeOK, Built
<1> QED
  BY <1>1, <1>2, <1>3, <1>4, <1>5, <1>6, <1>7, <1>8, <1>9, <1>10
  DEF Next, Middleware, Land, Invalidate, Reinvalidate, Execute, Expire, Disconnect, Reconnect, vars

\* The stored body is no older than the last complete eviction.
LEMMA StoredNext ==
  TypeOK /\ Clean /\ (redis # Empty => redis >= swept) /\ [Next]_vars => (redis # Empty => redis >= swept)'
<1> SUFFICES ASSUME TypeOK, Clean, redis # Empty => redis >= swept, [Next]_vars
             PROVE  (redis # Empty => redis >= swept)'
  OBVIOUS
<1>1. ASSUME NEW n \in Replicas, Execute(n) PROVE (redis # Empty => redis >= swept)'
  <2> DEFINE c == Head(chan[n])
  <2>1. 1 \in 1..Len(chan[n]) /\ chan[n][1] = c /\ c \in Commands BY <1>1 DEF Execute, TypeOK
  <2>2. /\ redis' = IF c.op = "set" THEN c.body ELSE Empty
        /\ swept' = IF c.op = "del" /\ c.body > swept THEN c.body ELSE swept
    BY <1>1 DEF Execute
  <2>3. swept \in Int /\ c.body \in Int /\ ~Lagging(swept)
    BY <2>1, CleanNow, CacheAssumption DEF Commands, Bodies, CacheAssumption
  <2>4. c.op = "set" => ~(c.body < swept) BY <2>1, <2>3 DEF Lagging
  <2> QED BY <2>2, <2>3, <2>4
<1>2. CASE Expire BY <1>2 DEF Expire
<1>3. CASE UNCHANGED <<redis, swept>> BY <1>3
<1> QED
  BY <1>1, <1>2, <1>3
  DEF Next, Middleware, Arrive, GetAnswered, GetFails, Build, Send, Abort, Fail, Follow,
      FollowTimeout, Land, Invalidate, Reinvalidate, Disconnect, Reconnect, vars

-----------------------------------------------------------------------------
\* The request registered for a path's single flight runs and will settle its
\* followers (cacheMiddleware registers before the first await and removes the
\* entry on finish and close), however connections drop.
THEOREM LeadersRun == Spec => []InflightRuns
<1>1. Init => TypeOK /\ Leads /\ Built
  BY InitTyped DEF Init, Leads, Built
<1>2. TypeOK /\ Leads /\ Built /\ [Next]_vars => TypeOK' /\ Leads' /\ Built'
  BY TypedNext, LeadsNext, BuiltNext
<1>3. TypeOK /\ Leads => InflightRuns BY DEF Leads, InflightRuns
<1> QED BY <1>1, <1>2, <1>3, PTL DEF Spec

\* With handlers that end before the second eviction (REINVALIDATE_MS), no request
\* is served a body older than an eviction that was complete when it arrived.
THEOREM CacheIsSound == FastHandlers => (Spec => []CacheSound)
<1> SUFFICES ASSUME FastHandlers PROVE Spec => []CacheSound OBVIOUS
<1> DEFINE Inv == TypeOK /\ Leads /\ Built /\ NothingOlder
<1>1. NothingOlder <=> Clean /\ Answers /\ (redis # Empty => redis >= swept)
  BY DEF NothingOlder, Clean, Answers
<1>2. Init => Inv
  <2> SUFFICES ASSUME Init PROVE Inv OBVIOUS
  <2>1. TypeOK BY InitTyped
  <2>2. Leads /\ Built BY DEF Init, Leads, Built
  <2>3. Clean /\ Answers /\ (redis # Empty => redis >= swept)
    BY CacheAssumption DEF Init, Clean, Answers, SweptFrom, Lagging, Empty, Bodies, CacheAssumption
  <2> QED BY <1>1, <2>1, <2>2, <2>3
<1>3. Inv /\ [Next]_vars => Inv'
  <2> SUFFICES ASSUME Inv, [Next]_vars PROVE Inv' OBVIOUS
  <2>1. TypeOK' /\ Leads' /\ Built' BY TypedNext, LeadsNext, BuiltNext
  <2>2. Clean' /\ Answers' /\ (redis # Empty => redis >= swept)'
    BY <1>1, CleanNext, AnswersNext, StoredNext
  <2>3. NothingOlder' BY <2>2 DEF NothingOlder, Clean, Answers
  <2> QED BY <2>1, <2>3
<1>4. Inv => CacheSound
  BY DEF CacheSound, InflightRuns, FreshOnceSwept, Leads, NothingOlder
<1> QED BY <1>2, <1>3, <1>4, PTL DEF Spec

-----------------------------------------------------------------------------
(* The single-page app.                                                    *)

PageType == [shown : (0..MaxNavs) \X {"blank", "loading", "page"}, liveHtml : BOOLEAN,
             live : SUBSET Navs, liveTimer : 0..MaxNavs, mapgen : SUBSET Navs, mapgenTimer : 0..MaxNavs,
             viewers : SUBSET ({"replay", "editor", "stream"} \X Navs),
             replay : 0..MaxNavs, editor : 0..MaxNavs, stream : 0..MaxNavs]

\* The viewers are one navigation's, and the module holds each.
Held(s, n) == \A v \in s.viewers : \/ v = <<"replay", n>> /\ s.replay = n
                                   \/ v = <<"editor", n>> /\ s.editor = n
                                   \/ v = <<"stream", n>> /\ s.stream = n

\* The effects of a view's first block, and of those that follow.
FirstEffects == {"loading", "paint", "forgetLive", "stopStream"}
LateEffects == {"paint", "armMapgen", "stopMapgen", "stillHere", "editor", "replay",
                "renderLive", "armLive", "stream"}
LateBlocks == {<<>>, <<"paint">>, <<"armMapgen">>, <<"stopMapgen">>, <<"paint", "armMapgen">>,
               <<"paint", "stopMapgen">>, <<"stillHere">>, <<"editor">>, <<"replay">>,
               <<"renderLive", "armLive">>, <<"stream", "armLive">>, <<"paint", "armLive">>}

Paints(b) == "paint" \in ToSet(b)
Renders(b) == "renderLive" \in ToSet(b)

\* What a view has yet to run; nothing paints after it asked whether it is still there.
Rest == {t \in Seq(LateBlocks) :
           \A i, j \in 1..Len(t) : t[i] = <<"stillHere">> /\ i <= j => ~Paints(t[j]) /\ ~Renders(t[j])}

\* The page asked for is shown, or will be by a block yet to run.
WillShow(s, n, t) ==
  s.shown = <<n, "page">> \/ \E i \in 1..Len(t) : Paints(t[i]) \/ (Renders(t[i]) /\ ~s.liveHtml)

PageParts ==
  /\ nav \in 0..MaxNavs /\ act \in [Navs -> Rest] /\ pg \in PageType /\ OneInterval
  /\ overlap \in BOOLEAN /\ everlap \in BOOLEAN /\ (overlap => everlap)
  /\ ~overlap => /\ \A n \in Navs : n # nav => act[n] = <<>>
                 /\ pg.live \subseteq {nav} /\ \A n \in Navs : <<"live", n>> \in polls => n = nav
                 /\ nav > 0 => WillShow(pg, nav, act[nav])
  /\ ~everlap => Held(pg, nav)

-----------------------------------------------------------------------------

\* stopLiveRefresh leaves no interval, and nothing else changed.
LEMMA StopLiveIs ==
  ASSUME NEW s \in PageType, s.live \subseteq {s.liveTimer}
  PROVE  LET t == stopLiveRefresh(s) IN
         /\ t \in PageType /\ t.live = {} /\ t.shown = s.shown /\ t.liveHtml = s.liveHtml
         /\ \A n : Held(s, n) => Held(t, n)
<1>1. stopLiveRefresh(s) = [s EXCEPT !.live = s.live \ {s.liveTimer}, !.liveTimer = 0] BY DEF stopLiveRefresh
<1>2. s.live \ {s.liveTimer} = {} /\ 0 \in 0..MaxNavs BY PagesAssumption DEF PagesAssumption
<1> DEFINE t == [s EXCEPT !.live = {}, !.liveTimer = 0]
<1>3. stopLiveRefresh(s) = t BY <1>1, <1>2
<1>4. t \in PageType BY <1>2 DEF PageType
<1>5. /\ t.live = {} /\ t.shown = s.shown /\ t.liveHtml = s.liveHtml /\ t.viewers = s.viewers
      /\ t.replay = s.replay /\ t.editor = s.editor /\ t.stream = s.stream
  BY DEF PageType
<1> HIDE DEF t
<1> QED BY <1>3, <1>4, <1>5 DEF Held

\* stopMapgenPoll changes only the map requests' timers.
LEMMA StopMapgenIs ==
  ASSUME NEW s \in PageType
  PROVE  LET t == stopMapgenPoll(s) IN
         /\ t \in PageType /\ t.live = s.live /\ t.liveTimer = s.liveTimer /\ t.shown = s.shown /\ t.liveHtml = s.liveHtml
         /\ \A n : Held(s, n) => Held(t, n)
<1> DEFINE m == s.mapgen \ {s.mapgenTimer}
           t == [s EXCEPT !.mapgen = m, !.mapgenTimer = 0]
<1>1. stopMapgenPoll(s) = t BY DEF stopMapgenPoll
<1>2. m \in SUBSET Navs /\ 0 \in 0..MaxNavs BY PagesAssumption DEF PagesAssumption, PageType
<1> HIDE DEF m
<1>3. t \in PageType BY <1>2 DEF PageType
<1>4. /\ t.live = s.live /\ t.liveTimer = s.liveTimer /\ t.shown = s.shown /\ t.liveHtml = s.liveHtml
      /\ t.viewers = s.viewers /\ t.replay = s.replay /\ t.editor = s.editor /\ t.stream = s.stream
  BY DEF PageType
<1> HIDE DEF t
<1> QED BY <1>1, <1>3, <1>4 DEF Held

\* stopServerStream closes the stream the module holds.
LEMMA StopStreamIs ==
  ASSUME NEW s \in PageType
  PROVE  LET t == stopServerStream(s) IN
         /\ t \in PageType /\ t.live = s.live /\ t.liveTimer = s.liveTimer /\ t.shown = s.shown /\ t.liveHtml = s.liveHtml
         /\ t.viewers = s.viewers \ {<<"stream", s.stream>>}
         /\ t.replay = s.replay /\ t.editor = s.editor
<1> DEFINE m == s.viewers \ {<<"stream", s.stream>>}
           t == [s EXCEPT !.viewers = m, !.stream = 0]
<1>1. stopServerStream(s) = t BY DEF stopServerStream
<1>2. m \in SUBSET ({"replay", "editor", "stream"} \X Navs) /\ 0 \in 0..MaxNavs
  BY PagesAssumption DEF PagesAssumption, PageType
<1> HIDE DEF m
<1>3. t \in PageType BY <1>2 DEF PageType
<1>4. /\ t.live = s.live /\ t.liveTimer = s.liveTimer /\ t.shown = s.shown /\ t.liveHtml = s.liveHtml
      /\ t.viewers = m /\ t.replay = s.replay /\ t.editor = s.editor
  BY DEF PageType
<1> HIDE DEF t
<1> QED BY <1>1, <1>3, <1>4 DEF m

\* stopReplay closes the replay the module holds.
LEMMA StopReplayIs ==
  ASSUME NEW s \in PageType
  PROVE  LET t == stopReplay(s) IN
         /\ t \in PageType /\ t.live = s.live /\ t.liveTimer = s.liveTimer /\ t.shown = s.shown /\ t.liveHtml = s.liveHtml
         /\ t.viewers = s.viewers \ {<<"replay", s.replay>>}
         /\ t.editor = s.editor /\ t.stream = s.stream
<1> DEFINE m == s.viewers \ {<<"replay", s.replay>>}
           t == [s EXCEPT !.viewers = m, !.replay = 0]
<1>1. stopReplay(s) = t BY DEF stopReplay
<1>2. m \in SUBSET ({"replay", "editor", "stream"} \X Navs) /\ 0 \in 0..MaxNavs
  BY PagesAssumption DEF PagesAssumption, PageType
<1> HIDE DEF m
<1>3. t \in PageType BY <1>2 DEF PageType
<1>4. /\ t.live = s.live /\ t.liveTimer = s.liveTimer /\ t.shown = s.shown /\ t.liveHtml = s.liveHtml
      /\ t.viewers = m /\ t.editor = s.editor /\ t.stream = s.stream
  BY DEF PageType
<1> HIDE DEF t
<1> QED BY <1>1, <1>3, <1>4 DEF m

\* stopEditor closes the editor the module holds.
LEMMA StopEditorIs ==
  ASSUME NEW s \in PageType
  PROVE  LET t == stopEditor(s) IN
         /\ t \in PageType /\ t.live = s.live /\ t.liveTimer = s.liveTimer /\ t.shown = s.shown /\ t.liveHtml = s.liveHtml
         /\ t.viewers = s.viewers \ {<<"editor", s.editor>>}
         /\ t.replay = s.replay /\ t.stream = s.stream
<1> DEFINE m == s.viewers \ {<<"editor", s.editor>>}
           t == [s EXCEPT !.viewers = m, !.editor = 0]
<1>1. stopEditor(s) = t BY DEF stopEditor
<1>2. m \in SUBSET ({"replay", "editor", "stream"} \X Navs) /\ 0 \in 0..MaxNavs
  BY PagesAssumption DEF PagesAssumption, PageType
<1> HIDE DEF m
<1>3. t \in PageType BY <1>2 DEF PageType
<1>4. /\ t.live = s.live /\ t.liveTimer = s.liveTimer /\ t.shown = s.shown /\ t.liveHtml = s.liveHtml
      /\ t.viewers = m /\ t.replay = s.replay /\ t.stream = s.stream
  BY DEF PageType
<1> HIDE DEF t
<1> QED BY <1>1, <1>3, <1>4 DEF m

\* A navigation leaves no interval, and no viewer it knew of.
LEMMA StopAllIs ==
  ASSUME NEW s \in PageType, s.live \subseteq {s.liveTimer}
  PROVE  LET t == StopAll(s) IN
         /\ t \in PageType /\ t.live = {} /\ \A n : Held(s, n) => t.viewers = {}
<1> DEFINE a == stopLiveRefresh(s)
           b == stopMapgenPoll(a)
           c == stopReplay(b)
           d == stopEditor(c)
           e == stopServerStream(d)
<1>0. StopAll(s) = e BY DEF StopAll
<1>1. a \in PageType /\ a.live = {} /\ \A n : Held(s, n) => Held(a, n) BY StopLiveIs
<1> HIDE DEF a
<1>2. b \in PageType /\ b.live = {} /\ \A n : Held(a, n) => Held(b, n) BY <1>1, StopMapgenIs
<1> HIDE DEF b
<1>3. /\ c \in PageType /\ c.live = {} /\ c.viewers = b.viewers \ {<<"replay", b.replay>>}
      /\ c.editor = b.editor /\ c.stream = b.stream
  BY <1>2, StopReplayIs
<1> HIDE DEF c
<1>4. /\ d \in PageType /\ d.live = {} /\ d.viewers = c.viewers \ {<<"editor", c.editor>>} /\ d.stream = c.stream
  BY <1>3, StopEditorIs
<1> HIDE DEF d
<1>5. /\ e \in PageType /\ e.live = {} /\ e.viewers = d.viewers \ {<<"stream", d.stream>>}
  BY <1>4, StopStreamIs
<1> HIDE DEF e
<1>6. ASSUME NEW n, Held(s, n) PROVE e.viewers = {}
  <2>1. Held(b, n) BY <1>1, <1>2, <1>6
  <2>2. \A v \in b.viewers : v \in {<<"replay", b.replay>>, <<"editor", b.editor>>, <<"stream", b.stream>>}
    BY <2>1 DEF Held
  <2> QED BY <1>3, <1>4, <1>5, <2>2
<1> QED BY <1>0, <1>5, <1>6

\* renderLive
LEMMA RenderIs ==
  ASSUME NEW s \in PageType, NEW n \in Navs
  PROVE  LET t == renderLive(s, n) IN
         /\ t \in PageType /\ t.live = s.live /\ t.liveTimer = s.liveTimer
         /\ t = s \/ t.shown = <<n, "page">>
         /\ s.liveHtml \/ t.shown = <<n, "page">>
         /\ \A m : Held(s, m) => Held(t, m)
<1>1. CASE s.liveHtml BY <1>1 DEF renderLive
<1>2. CASE ~s.liveHtml
  <2> DEFINE w == <<n, "page">>
             t == [s EXCEPT !.shown = w, !.liveHtml = TRUE]
  <2>1. renderLive(s, n) = t BY <1>2 DEF renderLive
  <2>2. w \in (0..MaxNavs) \X {"blank", "loading", "page"} BY DEF Navs
  <2> HIDE DEF w
  <2>3. t \in PageType BY <2>2 DEF PageType
  <2>4. /\ t.live = s.live /\ t.liveTimer = s.liveTimer /\ t.shown = w
        /\ t.viewers = s.viewers /\ t.replay = s.replay /\ t.editor = s.editor /\ t.stream = s.stream
    BY DEF PageType
  <2> HIDE DEF t
  <2> QED BY <2>1, <2>3, <2>4 DEF Held, w
<1> QED BY <1>1, <1>2

\* What any effect of a view keeps, and what it does to the page it shows.
DoesWell(s, n, e, t) ==
  /\ t \in PageType /\ t.live \subseteq {t.liveTimer}
  /\ s.live \subseteq {n} => t.live \subseteq {n}
  /\ e # "loading" /\ s.shown = <<n, "page">> => t.shown = <<n, "page">>
  /\ e = "paint" => t.shown = <<n, "page">>
  /\ e = "forgetLive" => ~t.liveHtml
  /\ ~s.liveHtml /\ e = "renderLive" => t.shown = <<n, "page">>
  /\ ~s.liveHtml => ~t.liveHtml \/ t.shown = <<n, "page">>
  /\ Held(s, n) => Held(t, n)

\* Markup put on the page changes nothing else.
LEMMA ShowsIs ==
  ASSUME NEW s \in PageType, NEW n \in Navs, NEW w \in {"loading", "page"}
  PROVE  LET t == [s EXCEPT !.shown = <<n, w>>] IN
         /\ t \in PageType /\ t.live = s.live /\ t.liveTimer = s.liveTimer /\ t.shown = <<n, w>> /\ t.liveHtml = s.liveHtml
         /\ \A m : Held(s, m) => Held(t, m)
<1> DEFINE p == <<n, w>>
           t == [s EXCEPT !.shown = p]
<1>1. p \in (0..MaxNavs) \X {"blank", "loading", "page"} BY DEF Navs
<1> HIDE DEF p
<1>2. t \in PageType BY <1>1 DEF PageType
<1>3. /\ t.live = s.live /\ t.liveTimer = s.liveTimer /\ t.shown = p /\ t.liveHtml = s.liveHtml
      /\ t.viewers = s.viewers /\ t.replay = s.replay /\ t.editor = s.editor /\ t.stream = s.stream
  BY DEF PageType
<1> HIDE DEF t
<1> QED BY <1>2, <1>3 DEF Held, t, p

\* Every effect does what DoesWell says.
LEMMA DoIs ==
  ASSUME NEW s \in PageType, s.live \subseteq {s.liveTimer}, NEW n \in Navs,
         NEW e \in FirstEffects \cup LateEffects
  PROVE  DoesWell(s, n, e, Do(s, n, e))
<1>0. n \in 0..MaxNavs BY DEF Navs
<1>1. CASE e = "loading"
  <2> DEFINE t == [s EXCEPT !.shown = <<n, "loading">>]
  <2>1. Do(s, n, e) = t BY <1>1 DEF Do
  <2>2. /\ t \in PageType /\ t.live = s.live /\ t.liveTimer = s.liveTimer
        /\ t.shown = <<n, "loading">> /\ t.liveHtml = s.liveHtml /\ (Held(s, n) => Held(t, n))
    BY ShowsIs
  <2> HIDE DEF t
  <2> QED BY <1>1, <2>1, <2>2 DEF DoesWell
<1>2. CASE e = "paint"
  <2> DEFINE t == [s EXCEPT !.shown = <<n, "page">>]
  <2>1. Do(s, n, e) = t BY <1>2 DEF Do
  <2>2. /\ t \in PageType /\ t.live = s.live /\ t.liveTimer = s.liveTimer
        /\ t.shown = <<n, "page">> /\ t.liveHtml = s.liveHtml /\ (Held(s, n) => Held(t, n))
    BY ShowsIs
  <2> HIDE DEF t
  <2> QED BY <1>2, <2>1, <2>2 DEF DoesWell
<1>3. CASE e = "forgetLive"
  <2> DEFINE t == [s EXCEPT !.liveHtml = FALSE]
  <2>1. Do(s, n, e) = t BY <1>3 DEF Do
  <2>2. t \in PageType BY DEF PageType
  <2>3. /\ t.live = s.live /\ t.liveTimer = s.liveTimer /\ t.shown = s.shown /\ t.liveHtml = FALSE
        /\ t.viewers = s.viewers /\ t.replay = s.replay /\ t.editor = s.editor /\ t.stream = s.stream
    BY DEF PageType
  <2> HIDE DEF t
  <2> QED BY <1>3, <2>1, <2>2, <2>3 DEF DoesWell, Held
<1>4. CASE e = "renderLive"
  <2>1. Do(s, n, e) = renderLive(s, n) BY <1>4 DEF Do
  <2> QED BY <1>4, <2>1, RenderIs DEF DoesWell
<1>5. CASE e = "armLive"
  <2> DEFINE u == stopLiveRefresh(s)
             l == {n}
             t == [u EXCEPT !.live = l, !.liveTimer = n]
  <2>1. /\ u \in PageType /\ u.live = {} /\ u.shown = s.shown /\ u.liveHtml = s.liveHtml
        /\ \A m : Held(s, m) => Held(u, m)
    BY StopLiveIs
  <2>2. Do(s, n, e) = [u EXCEPT !.live = u.live \cup {n}, !.liveTimer = n] BY <1>5 DEF Do
  <2> HIDE DEF u
  <2>3. u.live \cup {n} = l /\ l \in SUBSET Navs BY <2>1
  <2>4. Do(s, n, e) = t BY <2>2, <2>3
  <2>5. t.live = l /\ t.liveTimer = n BY <2>1 DEF PageType
  <2>6. t.live \subseteq {t.liveTimer} /\ t.live \subseteq {n} BY <2>5
  <2> HIDE DEF l
  <2>7. t \in PageType BY <1>0, <2>1, <2>3 DEF PageType
  <2>8. /\ t.shown = u.shown /\ t.liveHtml = u.liveHtml
        /\ t.viewers = u.viewers /\ t.replay = u.replay /\ t.editor = u.editor /\ t.stream = u.stream
    BY <2>1 DEF PageType
  <2> HIDE DEF t
  <2>9. Held(s, n) => Held(t, n) BY <2>1, <2>8 DEF Held
  <2> QED BY <1>5, <2>1, <2>4, <2>6, <2>7, <2>8, <2>9 DEF DoesWell
<1>6. CASE e = "stopMapgen"
  <2>1. Do(s, n, e) = stopMapgenPoll(s) BY <1>6 DEF Do
  <2> QED BY <1>6, <2>1, StopMapgenIs DEF DoesWell
<1>7. CASE e = "armMapgen"
  <2> DEFINE u == stopMapgenPoll(s)
             l == u.mapgen \cup {n}
             t == [u EXCEPT !.mapgen = l, !.mapgenTimer = n]
  <2>1. /\ u \in PageType /\ u.live = s.live /\ u.liveTimer = s.liveTimer /\ u.shown = s.shown /\ u.liveHtml = s.liveHtml
        /\ \A m : Held(s, m) => Held(u, m)
    BY StopMapgenIs
  <2>2. Do(s, n, e) = t BY <1>7 DEF Do
  <2> HIDE DEF u
  <2>3. l \in SUBSET Navs BY <2>1 DEF PageType
  <2> HIDE DEF l
  <2>4. t \in PageType BY <1>0, <2>1, <2>3 DEF PageType
  <2>5. /\ t.live = u.live /\ t.liveTimer = u.liveTimer /\ t.shown = u.shown /\ t.liveHtml = u.liveHtml
        /\ t.viewers = u.viewers /\ t.replay = u.replay /\ t.editor = u.editor /\ t.stream = u.stream
    BY <2>1 DEF PageType
  <2> HIDE DEF t
  <2>6. Held(s, n) => Held(t, n) BY <2>1, <2>5 DEF Held
  <2> QED BY <1>7, <2>1, <2>2, <2>4, <2>5, <2>6 DEF DoesWell
<1>8. CASE e = "stopStream"
  <2> DEFINE t == stopServerStream(s)
  <2>1. Do(s, n, e) = t BY <1>8 DEF Do
  <2>2. /\ t \in PageType /\ t.live = s.live /\ t.liveTimer = s.liveTimer /\ t.shown = s.shown /\ t.liveHtml = s.liveHtml
        /\ t.viewers = s.viewers \ {<<"stream", s.stream>>} /\ t.replay = s.replay /\ t.editor = s.editor
    BY StopStreamIs
  <2> HIDE DEF t
  <2>3. Held(s, n) => Held(t, n) BY <2>2 DEF Held
  <2> QED BY <1>8, <2>1, <2>2, <2>3 DEF DoesWell
<1>9. CASE e = "stillHere"
  <2>1. Do(s, n, e) = s BY <1>9 DEF Do
  <2> QED BY <1>9, <2>1 DEF DoesWell
<1>10. CASE e = "stream"
  <2>1. CASE path[n] # path[nav]
    <3>1. Do(s, n, e) = s BY <1>10, <2>1 DEF Do
    <3> QED BY <1>10, <3>1 DEF DoesWell
  <2>2. CASE path[n] = path[nav]
    <3> DEFINE l == s.viewers \cup {<<"stream", n>>}
               t == [s EXCEPT !.viewers = l, !.stream = n]
    <3>1. Do(s, n, e) = t BY <1>10, <2>2 DEF Do
    <3>2. l \in SUBSET ({"replay", "editor", "stream"} \X Navs) BY DEF PageType
    <3>3. Held(s, n) => \A v \in l : v = <<"stream", n>> \/ (v = <<"replay", n>> /\ s.replay = n)
                                     \/ (v = <<"editor", n>> /\ s.editor = n)
      BY DEF Held
    <3> HIDE DEF l
    <3>4. t \in PageType BY <1>0, <3>2 DEF PageType
    <3>5. /\ t.live = s.live /\ t.liveTimer = s.liveTimer /\ t.shown = s.shown /\ t.liveHtml = s.liveHtml
          /\ t.viewers = l /\ t.replay = s.replay /\ t.editor = s.editor /\ t.stream = n
      BY DEF PageType
    <3> HIDE DEF t
    <3>6. Held(s, n) => Held(t, n) BY <3>3, <3>5 DEF Held
    <3> QED BY <1>10, <3>1, <3>4, <3>5, <3>6 DEF DoesWell
  <2> QED BY <2>1, <2>2
<1>11. CASE e = "editor"
  <2> DEFINE l == s.viewers \cup {<<"editor", n>>}
             t == [s EXCEPT !.viewers = l, !.editor = n]
  <2>1. Do(s, n, e) = t BY <1>11 DEF Do
  <2>2. l \in SUBSET ({"replay", "editor", "stream"} \X Navs) BY DEF PageType
  <2>3. Held(s, n) => \A v \in l : v = <<"editor", n>> \/ (v = <<"replay", n>> /\ s.replay = n)
                                   \/ (v = <<"stream", n>> /\ s.stream = n)
    BY DEF Held
  <2> HIDE DEF l
  <2>4. t \in PageType BY <1>0, <2>2 DEF PageType
  <2>5. /\ t.live = s.live /\ t.liveTimer = s.liveTimer /\ t.shown = s.shown /\ t.liveHtml = s.liveHtml
        /\ t.viewers = l /\ t.replay = s.replay /\ t.editor = n /\ t.stream = s.stream
    BY DEF PageType
  <2> HIDE DEF t
  <2>6. Held(s, n) => Held(t, n) BY <2>3, <2>5 DEF Held
  <2> QED BY <1>11, <2>1, <2>4, <2>5, <2>6 DEF DoesWell
<1>12. CASE e = "replay"
  <2> DEFINE l == s.viewers \cup {<<"replay", n>>}
             t == [s EXCEPT !.viewers = l, !.replay = n]
  <2>1. Do(s, n, e) = t BY <1>12 DEF Do
  <2>2. l \in SUBSET ({"replay", "editor", "stream"} \X Navs) BY DEF PageType
  <2>3. Held(s, n) => \A v \in l : v = <<"replay", n>> \/ (v = <<"editor", n>> /\ s.editor = n)
                                   \/ (v = <<"stream", n>> /\ s.stream = n)
    BY DEF Held
  <2> HIDE DEF l
  <2>4. t \in PageType BY <1>0, <2>2 DEF PageType
  <2>5. /\ t.live = s.live /\ t.liveTimer = s.liveTimer /\ t.shown = s.shown /\ t.liveHtml = s.liveHtml
        /\ t.viewers = l /\ t.replay = n /\ t.editor = s.editor /\ t.stream = s.stream
    BY DEF PageType
  <2> HIDE DEF t
  <2>6. Held(s, n) => Held(t, n) BY <2>3, <2>5 DEF Held
  <2> QED BY <1>12, <2>1, <2>4, <2>5, <2>6 DEF DoesWell
<1> QED
  BY <1>1, <1>2, <1>3, <1>4, <1>5, <1>6, <1>7, <1>8, <1>9, <1>10, <1>11, <1>12 DEF FirstEffects, LateEffects

\* A block of at most two effects.
RunsWell(s, n, b, t) ==
  /\ t \in PageType /\ t.live \subseteq {t.liveTimer}
  /\ s.live \subseteq {n} => t.live \subseteq {n}
  /\ s.shown = <<n, "page">> \/ Paints(b) \/ (Renders(b) /\ ~s.liveHtml) => t.shown = <<n, "page">>
  /\ ~s.liveHtml => ~t.liveHtml \/ t.shown = <<n, "page">>
  /\ Held(s, n) => Held(t, n)

\* Every later block does what RunsWell says.
LEMMA RunIs ==
  ASSUME NEW s \in PageType, s.live \subseteq {s.liveTimer}, NEW n \in Navs, NEW b \in LateBlocks
  PROVE  RunsWell(s, n, b, Run(s, n, b))
<1>1. CASE b = <<>>
  <2>1. Run(s, n, b) = s BY <1>1 DEF Run
  <2>2. ~Paints(b) /\ ~Renders(b) BY <1>1 DEF Paints, Renders, ToSet
  <2> QED BY <2>1, <2>2 DEF RunsWell
<1>2. ASSUME NEW e \in LateEffects, b = <<e>> PROVE RunsWell(s, n, b, Run(s, n, b))
  <2> DEFINE t == Do(s, n, e)
  <2>1. Run(s, n, b) = t BY <1>2 DEF Run
  <2>2. DoesWell(s, n, e, t) BY DoIs
  <2>3. ToSet(b) = {e} BY <1>2 DEF ToSet
  <2>4. e # "loading" BY DEF LateEffects
  <2> HIDE DEF t
  <2> QED BY <2>1, <2>2, <2>3, <2>4 DEF RunsWell, DoesWell, Paints, Renders
<1>3. ASSUME NEW e \in LateEffects, NEW f \in LateEffects, b = <<e, f>>, f \notin {"paint", "renderLive"}
      PROVE  RunsWell(s, n, b, Run(s, n, b))
  <2> DEFINE u == Do(s, n, e)
             t == Do(u, n, f)
  <2>1. Run(s, n, b) = t BY <1>3 DEF Run
  <2>2. DoesWell(s, n, e, u) BY DoIs
  <2>3. ToSet(b) = {e, f} BY <1>3 DEF ToSet
  <2>4. e # "loading" /\ f # "loading" BY DEF LateEffects
  <2> HIDE DEF u
  <2>5. u \in PageType /\ u.live \subseteq {u.liveTimer} BY <2>2 DEF DoesWell
  <2>6. DoesWell(u, n, f, t) BY <2>5, DoIs
  <2> HIDE DEF t
  <2> QED BY <1>3, <2>1, <2>2, <2>3, <2>4, <2>6 DEF RunsWell, DoesWell, Paints, Renders
<1>4. CASE b \in {<<"paint">>, <<"armMapgen">>, <<"stopMapgen">>, <<"stillHere">>, <<"editor">>, <<"replay">>}
  <2>1. PICK e \in LateEffects : b = <<e>> BY <1>4 DEF LateEffects
  <2> QED BY <1>2, <2>1
<1>5. CASE b \in {<<"paint", "armMapgen">>, <<"paint", "stopMapgen">>, <<"renderLive", "armLive">>,
                  <<"stream", "armLive">>, <<"paint", "armLive">>}
  <2>1. PICK e \in LateEffects, f \in {"armMapgen", "stopMapgen", "armLive"} : b = <<e, f>> BY <1>5 DEF LateEffects
  <2>2. f \in LateEffects /\ f \notin {"paint", "renderLive"} BY DEF LateEffects
  <2> QED BY <1>3, <2>1, <2>2
<1> QED BY <1>1, <1>4, <1>5 DEF LateBlocks

-----------------------------------------------------------------------------

\* What is left of a view's blocks after the first is of the same kind.
LEMMA RestTail ==
  ASSUME NEW t \in Rest, t # <<>>
  PROVE  /\ Head(t) \in LateBlocks /\ Head(t) = t[1] /\ Tail(t) \in Rest
         /\ Len(t) \in Nat /\ Len(t) >= 1 /\ Len(Tail(t)) = Len(t) - 1
         /\ \A i \in 1..(Len(t) - 1) : Tail(t)[i] = t[i + 1]
<1>1. t \in Seq(LateBlocks) /\ Len(t) \in Nat /\ Len(t) >= 1 BY DEF Rest
<1>2. /\ Head(t) \in LateBlocks /\ Head(t) = t[1] /\ Tail(t) \in Seq(LateBlocks) /\ Len(Tail(t)) = Len(t) - 1
      /\ \A i \in 1..(Len(t) - 1) : Tail(t)[i] = t[i + 1]
  BY <1>1, HeadTailProperties
<1>3. ASSUME NEW i \in 1..Len(Tail(t)), NEW j \in 1..Len(Tail(t)), Tail(t)[i] = <<"stillHere">>, i <= j
      PROVE  ~Paints(Tail(t)[j]) /\ ~Renders(Tail(t)[j])
  <2>1. i + 1 \in 1..Len(t) /\ j + 1 \in 1..Len(t) /\ i + 1 <= j + 1 BY <1>1, <1>2, <1>3
  <2>2. Tail(t)[i] = t[i + 1] /\ Tail(t)[j] = t[j + 1] BY <1>2
  <2> QED BY <1>3, <2>1, <2>2 DEF Rest
<1>4. Tail(t) \in Rest BY <1>2, <1>3 DEF Rest
<1> QED BY <1>1, <1>2, <1>4

\* A block runs: the page it is to show is still shown or still to come.
LEMMA StillShows ==
  ASSUME NEW s, NEW n, NEW t \in Rest, t # <<>>, NEW r, RunsWell(s, n, Head(t), r), WillShow(s, n, t)
  PROVE  WillShow(r, n, Tail(t))
<1>1. /\ Head(t) = t[1] /\ Len(t) \in Nat /\ Len(t) >= 1 /\ Len(Tail(t)) = Len(t) - 1
      /\ \A i \in 1..(Len(t) - 1) : Tail(t)[i] = t[i + 1]
  BY RestTail
<1>2. CASE r.shown = <<n, "page">> BY <1>2 DEF WillShow
<1>3. CASE r.shown # <<n, "page">>
  <2>1. s.shown # <<n, "page">> /\ ~Paints(t[1]) /\ ~(Renders(t[1]) /\ ~s.liveHtml) /\ (~s.liveHtml => ~r.liveHtml)
    BY <1>1, <1>3 DEF RunsWell
  <2>2. PICK i \in 1..Len(t) : Paints(t[i]) \/ (Renders(t[i]) /\ ~s.liveHtml) BY <2>1 DEF WillShow
  <2>3. i # 1 BY <2>1, <2>2
  <2>4. i - 1 \in 1..(Len(t) - 1) /\ (i - 1) + 1 = i BY <1>1, <2>3
  <2>5. Tail(t)[i - 1] = t[i] BY <1>1, <2>4
  <2>6. Paints(Tail(t)[i - 1]) \/ (Renders(Tail(t)[i - 1]) /\ ~r.liveHtml) BY <2>1, <2>2, <2>5
  <2> QED BY <1>1, <2>4, <2>6 DEF WillShow
<1> QED BY <1>2, <1>3

-----------------------------------------------------------------------------
(* The views.                                                              *)

FirstBlocks == {<<"loading">>, <<"paint">>, <<>>, <<"loading", "paint">>, <<"loading", "forgetLive">>,
                <<"loading", "stopStream">>}

\* A view: its first block, the rest, and that they end by showing its page.
Starts(prog) ==
  /\ Head(prog) \in FirstBlocks /\ Tail(prog) \in Rest
  /\ \/ Head(prog) \in {<<"paint">>, <<"loading", "paint">>}
     \/ \E i \in 1..Len(Tail(prog)) : Paints(Tail(prog)[i])
     \/ Head(prog) = <<"loading", "forgetLive">> /\ \E i \in 1..Len(Tail(prog)) : Renders(Tail(prog)[i])

\* Blocks among which none asks whether the view is still there.
LEMMA NoAsk ==
  ASSUME NEW t \in Seq(LateBlocks), \A i \in 1..Len(t) : t[i] # <<"stillHere">>
  PROVE  t \in Rest
BY DEF Rest

\* A view that has run all its blocks.
LEMMA NothingLeft == <<>> \in Rest
<1>1. <<>> \in Seq(LateBlocks) OBVIOUS
<1>2. \A i \in 1..Len(<<>>) : FALSE OBVIOUS
<1> QED BY <1>1, <1>2 DEF Rest

\* The two editor views, from where they ask.
LEMMA AskThenEdit ==
  /\ << <<"stillHere">>, <<"editor">> >> \in Rest
  /\ << <<"paint">>, <<"stillHere">>, <<"editor">> >> \in Rest
<1>1. ~Paints(<<"editor">>) /\ ~Renders(<<"editor">>) /\ ~Paints(<<"stillHere">>) /\ ~Renders(<<"stillHere">>)
  BY DEF Paints, Renders, ToSet
<1> DEFINE t == << <<"stillHere">>, <<"editor">> >>
           u == << <<"paint">>, <<"stillHere">>, <<"editor">> >>
<1>2. t \in Seq(LateBlocks) /\ u \in Seq(LateBlocks) BY DEF LateBlocks
<1>3. \A i, j \in 1..Len(t) : t[i] = <<"stillHere">> /\ i <= j => ~Paints(t[j]) /\ ~Renders(t[j]) BY <1>1
<1>4. \A i, j \in 1..Len(u) : u[i] = <<"stillHere">> /\ i <= j => ~Paints(u[j]) /\ ~Renders(u[j]) BY <1>1
<1> QED BY <1>2, <1>3, <1>4 DEF Rest

\* A view of a first block and what is left.
LEMMA StartsWith ==
  ASSUME NEW prog, NEW t \in Rest, Tail(prog) = t, Head(prog) \in FirstBlocks,
         \/ Head(prog) \in {<<"paint">>, <<"loading", "paint">>}
         \/ \E i \in 1..Len(t) : Paints(t[i])
         \/ Head(prog) = <<"loading", "forgetLive">> /\ \E i \in 1..Len(t) : Renders(t[i])
  PROVE  Starts(prog)
BY DEF Starts

\* Every view of the router's table is one.
LEMMA ViewsStart == \A p \in Paths : \A prog \in Dispatch[p] : Starts(prog)
<1>0. /\ Paints(<<"paint">>) /\ Paints(<<"paint", "armMapgen">>) /\ Paints(<<"paint", "stopMapgen">>)
      /\ Paints(<<"paint", "armLive">>) /\ Renders(<<"renderLive", "armLive">>)
  BY DEF Paints, Renders, ToSet
<1>1. \A h \in FirstBlocks : Starts(<< h, <<"paint">> >>)
  <2> SUFFICES ASSUME NEW h \in FirstBlocks PROVE Starts(<< h, <<"paint">> >>) OBVIOUS
  <2> DEFINE t == << <<"paint">> >>
             prog == << h, <<"paint">> >>
  <2>1. t \in Seq(LateBlocks) /\ Len(t) = 1 /\ t[1] = <<"paint">> BY DEF LateBlocks
  <2>2. t \in Rest
    <3>1. \A i \in 1..Len(t) : t[i] # <<"stillHere">> BY <2>1
    <3> QED BY <2>1, <3>1, NoAsk
  <2>3. Head(prog) = h /\ Tail(prog) = t OBVIOUS
  <2> HIDE DEF t, prog
  <2>4. \E i \in 1..Len(t) : Paints(t[i]) BY <1>0, <2>1
  <2>5. Starts(prog) BY <2>2, <2>3, <2>4, StartsWith
  <2> QED BY <2>5 DEF prog
<1>2. \A b \in {<<"paint", "armMapgen">>, <<"paint", "stopMapgen">>, <<"paint", "armLive">>} :
        \A h \in FirstBlocks : Starts(<<h, b>>)
  <2> SUFFICES ASSUME NEW b \in {<<"paint", "armMapgen">>, <<"paint", "stopMapgen">>, <<"paint", "armLive">>},
                      NEW h \in FirstBlocks
               PROVE  Starts(<<h, b>>)
    OBVIOUS
  <2> DEFINE t == <<b>>
             prog == <<h, b>>
  <2>0. Paints(b) /\ b \in LateBlocks /\ b # <<"stillHere">> BY <1>0 DEF LateBlocks
  <2>1. t \in Seq(LateBlocks) /\ Len(t) = 1 /\ t[1] = b BY <2>0
  <2>2. t \in Rest
    <3>1. \A i \in 1..Len(t) : t[i] # <<"stillHere">> BY <2>0, <2>1
    <3> QED BY <2>1, <3>1, NoAsk
  <2>3. Head(prog) = h /\ Tail(prog) = t OBVIOUS
  <2> HIDE DEF t, prog
  <2>4. \E i \in 1..Len(t) : Paints(t[i]) BY <2>0, <2>1
  <2>5. Starts(prog) BY <2>2, <2>3, <2>4, StartsWith
  <2> QED BY <2>5 DEF prog
<1>3. Starts(<< <<"paint">> >>)
  <2> DEFINE prog == << <<"paint">> >>
  <2>1. <<>> \in Rest BY NothingLeft
  <2>2. Head(prog) = <<"paint">> /\ Tail(prog) = <<>> OBVIOUS
  <2>3. <<"paint">> \in FirstBlocks BY DEF FirstBlocks
  <2> HIDE DEF prog
  <2>4. Starts(prog) BY <2>1, <2>2, <2>3, StartsWith
  <2> QED BY <2>4 DEF prog
<1>4. Starts(<< <<"loading">>, <<>>, <<"paint">> >>)
  <2> DEFINE prog == << <<"loading">>, <<>>, <<"paint">> >>
             t == << <<>>, <<"paint">> >>
  <2>1. t \in Seq(LateBlocks) /\ Len(t) = 2 /\ t[1] = <<>> /\ t[2] = <<"paint">> BY DEF LateBlocks
  <2>2. t \in Rest
    <3>1. \A i \in 1..Len(t) : t[i] # <<"stillHere">> BY <2>1
    <3> QED BY <2>1, <3>1, NoAsk
  <2>3. Head(prog) = <<"loading">> /\ Tail(prog) = t OBVIOUS
  <2>4. <<"loading">> \in FirstBlocks BY DEF FirstBlocks
  <2> HIDE DEF prog, t
  <2>6. \E i \in 1..Len(t) : Paints(t[i])
    <3>1. 2 \in 1..Len(t) /\ Paints(t[2]) BY <1>0, <2>1
    <3> QED BY <3>1
  <2>5. Starts(prog) BY <2>2, <2>3, <2>4, <2>6, StartsWith
  <2> QED BY <2>5 DEF prog
<1>5. \A b \in {<<"armMapgen">>, <<"stopMapgen">>} : Starts(<< <<"loading", "paint">>, b >>)
  <2> SUFFICES ASSUME NEW b \in {<<"armMapgen">>, <<"stopMapgen">>} PROVE Starts(<< <<"loading", "paint">>, b >>)
    OBVIOUS
  <2> DEFINE prog == << <<"loading", "paint">>, b >>
             t == <<b>>
  <2>0. b \in LateBlocks /\ b # <<"stillHere">> BY DEF LateBlocks
  <2>1. t \in Seq(LateBlocks) /\ Len(t) = 1 /\ t[1] = b BY <2>0
  <2>2. t \in Rest
    <3>1. \A i \in 1..Len(t) : t[i] # <<"stillHere">> BY <2>0, <2>1
    <3> QED BY <2>1, <3>1, NoAsk
  <2>3. Head(prog) = <<"loading", "paint">> /\ Tail(prog) = t OBVIOUS
  <2>4. <<"loading", "paint">> \in FirstBlocks BY DEF FirstBlocks
  <2> HIDE DEF prog, t
  <2>5. Starts(prog) BY <2>2, <2>3, <2>4, StartsWith
  <2> QED BY <2>5 DEF prog
<1>6. Starts(<< <<"loading">>, <<"paint">>, <<"stillHere">>, <<"editor">> >>)
  <2> DEFINE prog == << <<"loading">>, <<"paint">>, <<"stillHere">>, <<"editor">> >>
             t == << <<"paint">>, <<"stillHere">>, <<"editor">> >>
  <2>1. t \in Rest /\ Len(t) = 3 /\ t[1] = <<"paint">> BY AskThenEdit
  <2>3. Head(prog) = <<"loading">> /\ Tail(prog) = t OBVIOUS
  <2>4. <<"loading">> \in FirstBlocks BY DEF FirstBlocks
  <2> HIDE DEF prog, t
  <2>6. \E i \in 1..Len(t) : Paints(t[i])
    <3>1. 1 \in 1..Len(t) /\ Paints(t[1]) BY <1>0, <2>1
    <3> QED BY <3>1
  <2>5. Starts(prog) BY <2>1, <2>3, <2>4, <2>6, StartsWith
  <2> QED BY <2>5 DEF prog
<1>7. Starts(<< <<"loading", "paint">>, <<"stillHere">>, <<"editor">> >>)
  <2> DEFINE prog == << <<"loading", "paint">>, <<"stillHere">>, <<"editor">> >>
             t == << <<"stillHere">>, <<"editor">> >>
  <2>1. t \in Rest BY AskThenEdit
  <2>3. Head(prog) = <<"loading", "paint">> /\ Tail(prog) = t OBVIOUS
  <2>4. <<"loading", "paint">> \in FirstBlocks BY DEF FirstBlocks
  <2> HIDE DEF prog, t
  <2>5. Starts(prog) BY <2>1, <2>3, <2>4, StartsWith
  <2> QED BY <2>5 DEF prog
<1>8. Starts(<< <<"loading">>, <<>>, <<"paint">>, <<>>, <<"replay">> >>)
  <2> DEFINE prog == << <<"loading">>, <<>>, <<"paint">>, <<>>, <<"replay">> >>
             t == << <<>>, <<"paint">>, <<>>, <<"replay">> >>
  <2>1. t \in Seq(LateBlocks) /\ Len(t) = 4 /\ t[1] = <<>> /\ t[2] = <<"paint">> /\ t[3] = <<>> /\ t[4] = <<"replay">>
    BY DEF LateBlocks
  <2>2. t \in Rest
    <3>1. \A i \in 1..Len(t) : t[i] # <<"stillHere">> BY <2>1
    <3> QED BY <2>1, <3>1, NoAsk
  <2>3. Head(prog) = <<"loading">> /\ Tail(prog) = t OBVIOUS
  <2>4. <<"loading">> \in FirstBlocks BY DEF FirstBlocks
  <2> HIDE DEF prog, t
  <2>6. \E i \in 1..Len(t) : Paints(t[i])
    <3>1. 2 \in 1..Len(t) /\ Paints(t[2]) BY <1>0, <2>1
    <3> QED BY <3>1
  <2>5. Starts(prog) BY <2>2, <2>3, <2>4, <2>6, StartsWith
  <2> QED BY <2>5 DEF prog
<1>9. Starts(<< <<"loading", "forgetLive">>, <<"renderLive", "armLive">> >>)
  <2> DEFINE prog == << <<"loading", "forgetLive">>, <<"renderLive", "armLive">> >>
             t == << <<"renderLive", "armLive">> >>
  <2>1. t \in Seq(LateBlocks) /\ Len(t) = 1 /\ t[1] = <<"renderLive", "armLive">> BY DEF LateBlocks
  <2>2. t \in Rest
    <3>1. \A i \in 1..Len(t) : t[i] # <<"stillHere">> BY <2>1
    <3> QED BY <2>1, <3>1, NoAsk
  <2>3. Head(prog) = <<"loading", "forgetLive">> /\ Tail(prog) = t OBVIOUS
  <2>4. <<"loading", "forgetLive">> \in FirstBlocks BY DEF FirstBlocks
  <2> HIDE DEF prog, t
  <2>6. \E i \in 1..Len(t) : Renders(t[i])
    <3>1. 1 \in 1..Len(t) /\ Renders(t[1]) BY <1>0, <2>1
    <3> QED BY <3>1
  <2>5. Starts(prog) BY <2>2, <2>3, <2>4, <2>6, StartsWith
  <2> QED BY <2>5 DEF prog
<1>10. Starts(<< <<"loading", "stopStream">>, <<"paint">>, <<"stream", "armLive">> >>)
  <2> DEFINE prog == << <<"loading", "stopStream">>, <<"paint">>, <<"stream", "armLive">> >>
             t == << <<"paint">>, <<"stream", "armLive">> >>
  <2>1. t \in Seq(LateBlocks) /\ Len(t) = 2 /\ t[1] = <<"paint">> /\ t[2] = <<"stream", "armLive">> BY DEF LateBlocks
  <2>2. t \in Rest
    <3>1. \A i \in 1..Len(t) : t[i] # <<"stillHere">> BY <2>1
    <3> QED BY <2>1, <3>1, NoAsk
  <2>3. Head(prog) = <<"loading", "stopStream">> /\ Tail(prog) = t OBVIOUS
  <2>4. <<"loading", "stopStream">> \in FirstBlocks BY DEF FirstBlocks
  <2> HIDE DEF prog, t
  <2>6. \E i \in 1..Len(t) : Paints(t[i])
    <3>1. 1 \in 1..Len(t) /\ Paints(t[1]) BY <1>0, <2>1
    <3> QED BY <3>1
  <2>5. Starts(prog) BY <2>2, <2>3, <2>4, <2>6, StartsWith
  <2> QED BY <2>5 DEF prog
<1>11. \A prog \in Plain : Starts(prog)
  <2>1. <<"loading">> \in FirstBlocks BY DEF FirstBlocks
  <2> QED BY <1>1, <2>1 DEF Plain
<1>12. <<"loading">> \in FirstBlocks /\ <<>> \in FirstBlocks /\ <<"loading", "stopStream">> \in FirstBlocks
  BY DEF FirstBlocks
<1>13. \A prog \in Lists : Starts(prog)
  BY <1>11 DEF Lists, viewMaps, viewDemos, viewPlayers, viewPlayer
<1>14. \A prog \in viewMapgenJob \cup viewLive \cup viewServer : Starts(prog)
  BY <1>2, <1>9, <1>10, <1>12 DEF viewMapgenJob, viewLive, viewServer
<1>15. \A prog \in viewCompare \cup viewStats \cup viewRuns \cup viewColors \cup viewAbout : Starts(prog)
  BY <1>1, <1>3, <1>4, <1>11, <1>12 DEF viewCompare, viewStats, viewRuns, viewColors, viewAbout
<1>16. \A prog \in viewMapgen \cup viewMapgenEditor \cup viewReplay : Starts(prog)
  BY <1>4, <1>5, <1>6, <1>7, <1>8 DEF viewMapgen, viewMapgenEditor, viewReplay
<1>17. \A prog \in Others : Starts(prog)
  BY <1>11, <1>15, <1>16 DEF Others, viewOverview, viewDemosMap, viewMap, viewAchievements, viewRandom,
     viewTournaments, viewTournament, viewBlog, viewBlogPost, viewMapgenGallery
<1> QED BY <1>13, <1>14, <1>17 DEF Paths, Dispatch

\* A view's first block, on a page nothing older refreshes.
LEMMA FirstIs ==
  ASSUME NEW s \in PageType, s.live = {}, NEW n \in Navs, NEW prog, Starts(prog)
  PROVE  LET r == Run(s, n, Head(prog)) IN
         /\ r \in PageType /\ r.live \subseteq {r.liveTimer} /\ r.live \subseteq {n}
         /\ (Held(s, n) => Held(r, n)) /\ WillShow(r, n, Tail(prog))
<1> DEFINE b == Head(prog)
           r == Run(s, n, b)
<1>1. b \in FirstBlocks BY DEF Starts
<1> HIDE DEF b
<1>2. /\ r \in PageType /\ r.live \subseteq {r.liveTimer} /\ r.live \subseteq {n} /\ (Held(s, n) => Held(r, n))
      /\ b \in {<<"paint">>, <<"loading", "paint">>} => r.shown = <<n, "page">>
      /\ b = <<"loading", "forgetLive">> => ~r.liveHtml
  <2>1. CASE b = <<>>
    <3>1. r = s BY <2>1 DEF Run
    <3> QED BY <2>1, <3>1
  <2>2. ASSUME NEW e \in FirstEffects, b = <<e>>, e \in {"loading", "paint"}
        PROVE  DoesWell(s, n, e, r)
    <3>1. r = Do(s, n, e) BY <2>2 DEF Run
    <3> QED BY <3>1, DoIs
  <2>3. ASSUME NEW f \in FirstEffects, b = <<"loading", f>>
        PROVE  \E u : DoesWell(s, n, "loading", u) /\ DoesWell(u, n, f, r)
    <3> DEFINE u == Do(s, n, "loading")
    <3>1. r = Do(u, n, f) BY <2>3 DEF Run
    <3>2. DoesWell(s, n, "loading", u) BY DoIs DEF FirstEffects
    <3> HIDE DEF u
    <3>3. u \in PageType /\ u.live \subseteq {u.liveTimer} BY <3>2 DEF DoesWell
    <3>4. DoesWell(u, n, f, Do(u, n, f)) BY <3>3, DoIs
    <3> QED BY <3>1, <3>2, <3>4
  <2> HIDE DEF r
  <2>4. CASE b = <<"loading">>
    <3>1. DoesWell(s, n, "loading", r) BY <2>2, <2>4 DEF FirstEffects
    <3> QED BY <2>4, <3>1 DEF DoesWell
  <2>5. CASE b = <<"paint">>
    <3>1. DoesWell(s, n, "paint", r) BY <2>2, <2>5 DEF FirstEffects
    <3> QED BY <2>5, <3>1 DEF DoesWell
  <2>6. CASE b \in {<<"loading", "paint">>, <<"loading", "forgetLive">>, <<"loading", "stopStream">>}
    <3>1. PICK f \in FirstEffects : b = <<"loading", f>> BY <2>6 DEF FirstEffects
    <3>2. PICK u : DoesWell(s, n, "loading", u) /\ DoesWell(u, n, f, r) BY <2>3, <3>1
    <3>3. (b = <<"loading", "paint">> => f = "paint") /\ (b = <<"loading", "forgetLive">> => f = "forgetLive")
          /\ b # <<"paint">>
      BY <3>1
    <3> QED BY <3>2, <3>3 DEF DoesWell
  <2> QED BY <1>1, <2>1, <2>4, <2>5, <2>6 DEF FirstBlocks
<1> HIDE DEF r
<1>3. WillShow(r, n, Tail(prog)) BY <1>2 DEF WillShow, Starts, b
<1> QED BY <1>2, <1>3 DEF r, b

\* A navigation keeps the invariant: it stops what the module holds, and the
\* first block of any view starts from there.
LEMMA RouterKeeps ==
  ASSUME PageParts, NEW p, NEW prog, Starts(prog), router(p, prog), UNCHANGED polls
  PROVE  PageParts'
<1> DEFINE m == nav + 1
           s == StopAll(pg)
           r == Run(s, m, Head(prog))
<1>1. nav \in 0..MaxNavs /\ act \in [Navs -> Rest] /\ pg \in PageType /\ pg.live \subseteq {pg.liveTimer}
      /\ overlap \in BOOLEAN /\ everlap \in BOOLEAN
  BY DEF PageParts, OneInterval
<1>2. /\ nav < MaxNavs /\ nav' = m /\ act' = [act EXCEPT ![m] = Tail(prog)] /\ pg' = r
      /\ overlap' = Pending /\ everlap' = (everlap \/ Pending)
  BY DEF router
<1>3. m \in Navs /\ m \in 0..MaxNavs /\ m > 0 BY <1>1, <1>2, PagesAssumption DEF Navs, PagesAssumption
<1> HIDE DEF m
<1>4. s \in PageType /\ s.live = {} /\ \A n : Held(pg, n) => s.viewers = {} BY <1>1, StopAllIs
<1> HIDE DEF s
<1>5. /\ r \in PageType /\ r.live \subseteq {r.liveTimer} /\ r.live \subseteq {m}
      /\ (Held(s, m) => Held(r, m)) /\ WillShow(r, m, Tail(prog))
  BY <1>3, <1>4, FirstIs
<1> HIDE DEF r
<1>6. Tail(prog) \in Rest BY DEF Starts
<1>7. act' \in [Navs -> Rest] /\ act'[m] = Tail(prog) /\ \A n \in Navs : n # m => act'[n] = act[n]
  BY <1>1, <1>2, <1>3, <1>6
<1>8. ASSUME ~Pending PROVE (\A n \in Navs : n # m => act'[n] = <<>>) /\ polls' = {}
  BY <1>7, <1>8 DEF Pending
<1>9. Pending \in BOOLEAN /\ overlap' \in BOOLEAN /\ everlap' \in BOOLEAN /\ (overlap' => everlap')
  BY <1>1, <1>2 DEF Pending
<1>10. ASSUME ~everlap' PROVE Held(pg', nav')
  <2>1. Held(pg, nav) BY <1>2, <1>10 DEF PageParts
  <2>2. Held(s, m) BY <1>4, <2>1 DEF Held
  <2> QED BY <1>2, <1>5, <2>2
<1>11. OneInterval' BY <1>2, <1>5 DEF OneInterval
<1>12. ASSUME ~overlap'
       PROVE  /\ \A n \in Navs : n # nav' => act'[n] = <<>>
              /\ pg'.live \subseteq {nav'} /\ \A n \in Navs : <<"live", n>> \in polls' => n = nav'
              /\ WillShow(pg', nav', act'[nav'])
  BY <1>2, <1>5, <1>7, <1>8, <1>12
<1> QED BY <1>2, <1>3, <1>5, <1>7, <1>9, <1>10, <1>11, <1>12 DEF PageParts

\* A page changed, with everything but its markup and refreshes as they were.
LEMMA PageSame ==
  ASSUME PageParts, UNCHANGED <<nav, act, overlap, everlap>>, pg' \in PageType,
         pg'.live = pg.live, pg'.liveTimer = pg.liveTimer, Held(pg, nav) => Held(pg', nav),
         ~overlap => \A n \in Navs : <<"live", n>> \in polls' => n = nav,
         ~overlap /\ nav > 0 /\ WillShow(pg, nav, act[nav]) => WillShow(pg', nav, act[nav])
  PROVE  PageParts'
BY DEF PageParts, OneInterval

\* A block that resumes keeps it.
LEMMA ResumeKeeps == \A n \in Navs : PageParts /\ Resume(n) => PageParts'
<1> SUFFICES ASSUME NEW n \in Navs, PageParts, Resume(n) PROVE PageParts' OBVIOUS
<1>1. /\ nav \in 0..MaxNavs /\ act \in [Navs -> Rest] /\ pg \in PageType /\ pg.live \subseteq {pg.liveTimer}
      /\ act[n] \in Rest /\ act[n] # <<>> /\ UNCHANGED <<nav, path, polls, typed, picked, overlap, everlap>>
  BY DEF PageParts, OneInterval, Resume
<1>2. ~overlap => n = nav BY <1>1 DEF PageParts
<1> DEFINE t == act[n]
<1>3. /\ Head(t) \in LateBlocks /\ Head(t) = t[1] /\ Tail(t) \in Rest /\ Len(t) \in Nat /\ Len(t) >= 1
  BY <1>1, RestTail
<1>4. CASE Head(act[n]) = <<"stillHere">> /\ pg.shown # <<n, "page">>
  <2>1. act' = [act EXCEPT ![n] = <<>>] /\ pg' = pg BY <1>4 DEF Resume
  <2>2. <<>> \in Rest BY NothingLeft
  <2>3. act' \in [Navs -> Rest] /\ \A j \in Navs : j # n => act'[j] = act[j] BY <1>1, <2>1, <2>2
  <2>4. ~WillShow(pg, n, t)
    <3>1. 1 \in 1..Len(t) /\ t[1] = <<"stillHere">> BY <1>3, <1>4
    <3>2. \A j \in 1..Len(t) : ~Paints(t[j]) /\ ~Renders(t[j]) BY <1>1, <3>1 DEF Rest
    <3> QED BY <1>4, <3>2 DEF WillShow
  <2>5. overlap
    <3>1. ~overlap => nav > 0 BY <1>2 DEF Navs
    <3> QED BY <1>2, <2>4, <3>1 DEF PageParts
  <2> QED BY <1>1, <2>1, <2>3, <2>5 DEF PageParts, OneInterval
<1>5. CASE ~(Head(act[n]) = <<"stillHere">> /\ pg.shown # <<n, "page">>)
  <2>1. act' = [act EXCEPT ![n] = Tail(t)] /\ pg' = Run(pg, n, Head(t)) BY <1>5 DEF Resume
  <2>2. act' \in [Navs -> Rest] /\ act'[n] = Tail(t) /\ \A j \in Navs : j # n => act'[j] = act[j] BY <1>1, <1>3, <2>1
  <2>3. RunsWell(pg, n, Head(t), pg') BY <1>1, <1>3, <2>1, RunIs
  <2>4. pg' \in PageType /\ OneInterval' BY <2>3 DEF RunsWell, OneInterval
  <2>5. ASSUME ~overlap
        PROVE  /\ \A j \in Navs : j # nav => act'[j] = <<>>
               /\ pg'.live \subseteq {nav} /\ \A j \in Navs : <<"live", j>> \in polls' => j = nav
               /\ nav > 0 => WillShow(pg', nav, act'[nav])
    <3>1. n = nav /\ nav > 0 /\ pg.live \subseteq {nav} BY <1>2, <2>5 DEF Navs, PageParts
    <3>2. WillShow(pg, n, t) BY <2>5, <3>1 DEF PageParts
    <3>3. WillShow(pg', n, Tail(t)) BY <1>1, <2>3, <3>2, StillShows
    <3>4. pg'.live \subseteq {nav} BY <2>3, <3>1 DEF RunsWell
    <3> QED BY <1>1, <2>2, <2>5, <3>1, <3>3, <3>4 DEF PageParts
  <2>6. ASSUME ~everlap PROVE Held(pg', nav)
    <3>1. ~overlap /\ Held(pg, nav) BY <2>6 DEF PageParts
    <3> QED BY <1>2, <2>3, <3>1 DEF RunsWell
  <2> QED BY <1>1, <2>2, <2>4, <2>5, <2>6 DEF PageParts
<1> QED BY <1>4, <1>5

\* A view that fails keeps it: the message is the page that was to come.
LEMMA FailsKeeps == \A n \in Navs : PageParts /\ ViewFails(n) => PageParts'
<1> SUFFICES ASSUME NEW n \in Navs, PageParts, ViewFails(n) PROVE PageParts' OBVIOUS
<1>1. /\ nav \in 0..MaxNavs /\ act \in [Navs -> Rest] /\ pg \in PageType /\ pg.live \subseteq {pg.liveTimer}
      /\ act[n] \in Rest /\ act[n] # <<>> /\ UNCHANGED <<nav, path, polls, typed, picked, overlap, everlap>>
  BY DEF PageParts, OneInterval, ViewFails
<1>2. ~overlap => n = nav BY <1>1 DEF PageParts
<1> DEFINE shows == \E i \in DOMAIN act[n] : \E e \in {"paint", "renderLive"} : e \in ToSet(act[n][i])
           u == [pg EXCEPT !.shown = <<n, "page">>]
<1>3. act' = [act EXCEPT ![n] = <<>>] /\ pg' = (IF shows THEN u ELSE pg) BY DEF ViewFails
<1>4. <<>> \in Rest BY NothingLeft
<1>5. act' \in [Navs -> Rest] /\ act'[n] = <<>> /\ \A j \in Navs : j # n => act'[j] = act[j] BY <1>1, <1>3, <1>4
<1>6. /\ u \in PageType /\ u.live = pg.live /\ u.liveTimer = pg.liveTimer /\ u.shown = <<n, "page">>
      /\ (Held(pg, nav) => Held(u, nav))
  BY <1>1, ShowsIs
<1>7. WillShow(pg, n, act[n]) /\ ~shows => pg.shown = <<n, "page">>
  <2>1. DOMAIN act[n] = 1..Len(act[n]) BY <1>1 DEF Rest
  <2> QED BY <2>1 DEF WillShow, Paints, Renders
<1> HIDE DEF u, shows
<1>8. pg' \in PageType /\ pg'.live = pg.live /\ pg'.liveTimer = pg.liveTimer /\ (Held(pg, nav) => Held(pg', nav))
  BY <1>1, <1>3, <1>6
<1>9. WillShow(pg, n, act[n]) => pg'.shown = <<n, "page">> BY <1>3, <1>6, <1>7
<1> QED BY <1>1, <1>2, <1>5, <1>8, <1>9 DEF PageParts, OneInterval, WillShow

\* A late answer keeps it: without an overlap it is the current page's.
LEMMA AnswerKeeps == \A n \in Navs : PageParts /\ LiveAnswer(n) => PageParts'
<1> SUFFICES ASSUME NEW n \in Navs, PageParts, LiveAnswer(n) PROVE PageParts' OBVIOUS
<1>1. /\ nav \in 0..MaxNavs /\ pg \in PageType /\ <<"live", n>> \in polls /\ polls' = polls \ {<<"live", n>>}
      /\ UNCHANGED <<nav, path, act, typed, picked, overlap, everlap>>
  BY DEF PageParts, LiveAnswer
<1>2. ~overlap => n = nav BY <1>1 DEF PageParts
<1>3. /\ pg' \in PageType /\ pg'.live = pg.live /\ pg'.liveTimer = pg.liveTimer /\ (Held(pg, nav) => Held(pg', nav))
      /\ pg' = pg \/ pg'.shown = <<n, "page">>
  <2>1. pg' \in {renderLive(pg, n), [pg EXCEPT !.shown = <<n, "page">>], pg} BY DEF LiveAnswer
  <2>2. CASE pg' = renderLive(pg, n) BY <1>1, <2>2, RenderIs
  <2>3. CASE pg' = [pg EXCEPT !.shown = <<n, "page">>] BY <1>1, <2>3, ShowsIs
  <2> QED BY <1>1, <2>1, <2>2, <2>3
<1>4. ~overlap => \A j \in Navs : <<"live", j>> \in polls' => j = nav BY <1>1 DEF PageParts
<1> QED BY <1>1, <1>2, <1>3, <1>4, PageSame DEF WillShow

\* The polls of the map request pages keep it: they draw into their own nodes.
LEMMA MapgenKeeps ==
  PageParts /\ (\E n \in Navs : MapgenTick(n) \/ \E settled \in BOOLEAN : MapgenAnswer(n, settled)) => PageParts'
<1> SUFFICES ASSUME NEW n \in Navs, PageParts, MapgenTick(n) \/ \E settled \in BOOLEAN : MapgenAnswer(n, settled)
             PROVE  PageParts'
  OBVIOUS
<1>0. pg \in PageType /\ n \in 0..MaxNavs BY DEF PageParts, Navs
<1>1. ASSUME NEW s \in PageType, s.live = pg.live, s.liveTimer = pg.liveTimer, s.shown = pg.shown,
             s.liveHtml = pg.liveHtml, Held(pg, nav) => Held(s, nav),
             NEW m \in SUBSET Navs, NEW k \in 0..MaxNavs, pg' = [s EXCEPT !.mapgen = m, !.mapgenTimer = k],
             UNCHANGED <<nav, act, overlap, everlap>>, \A j \in Navs : <<"live", j>> \in polls' => <<"live", j>> \in polls
      PROVE  PageParts'
  <2> DEFINE t == [s EXCEPT !.mapgen = m, !.mapgenTimer = k]
  <2>1. t \in PageType BY DEF PageType
  <2>2. /\ t.live = s.live /\ t.liveTimer = s.liveTimer /\ t.shown = s.shown /\ t.liveHtml = s.liveHtml
        /\ t.viewers = s.viewers /\ t.replay = s.replay /\ t.editor = s.editor /\ t.stream = s.stream
    BY DEF PageType
  <2>3. pg' = t BY <1>1
  <2> HIDE DEF t
  <2>4. Held(pg, nav) => Held(pg', nav) BY <1>1, <2>2, <2>3 DEF Held
  <2>5. ~overlap => \A j \in Navs : <<"live", j>> \in polls' => j = nav BY <1>1 DEF PageParts
  <2>6. WillShow(pg, nav, act[nav]) => WillShow(pg', nav, act[nav]) BY <1>1, <2>2, <2>3 DEF WillShow
  <2> QED BY <1>1, <2>1, <2>2, <2>3, <2>4, <2>5, <2>6, PageSame
<1>2. CASE MapgenTick(n)
  <2> DEFINE m == pg.mapgen \ {n}
             k == pg.mapgenTimer
  <2>1. pg' = [pg EXCEPT !.mapgen = m] /\ polls' = polls \cup {<<"mapgen", n>>} /\ UNCHANGED <<nav, act, overlap, everlap>>
    BY <1>2 DEF MapgenTick
  <2>2. m \in SUBSET Navs /\ k \in 0..MaxNavs BY <1>0 DEF PageType
  <2>3. pg' = [pg EXCEPT !.mapgen = m, !.mapgenTimer = k] BY <1>0, <2>1 DEF PageType
  <2> HIDE DEF m, k
  <2> QED BY <1>0, <1>1, <2>1, <2>2, <2>3
<1>3. ASSUME NEW settled \in BOOLEAN, MapgenAnswer(n, settled) PROVE PageParts'
  <2> DEFINE s == IF path[n] = "job" THEN pg ELSE stopMapgenPoll(pg)
             m == IF settled THEN s.mapgen ELSE s.mapgen \cup {n}
             k == IF settled THEN s.mapgenTimer ELSE n
  <2>1. /\ s \in PageType /\ s.live = pg.live /\ s.liveTimer = pg.liveTimer /\ s.shown = pg.shown
        /\ s.liveHtml = pg.liveHtml /\ (Held(pg, nav) => Held(s, nav))
    BY <1>0, StopMapgenIs
  <2>2. /\ pg' = (IF settled THEN s ELSE [s EXCEPT !.mapgen = s.mapgen \cup {n}, !.mapgenTimer = n])
        /\ polls' = polls \ {<<"mapgen", n>>} /\ UNCHANGED <<nav, act, overlap, everlap>>
    BY <1>3 DEF MapgenAnswer
  <2> HIDE DEF s
  <2>3. m \in SUBSET Navs /\ k \in 0..MaxNavs BY <1>0, <2>1 DEF PageType
  <2>4. pg' = [s EXCEPT !.mapgen = m, !.mapgenTimer = k]
    <3>1. CASE settled BY <2>1, <2>2, <3>1 DEF PageType
    <3>2. CASE ~settled BY <2>2, <3>2
    <3> QED BY <3>1, <3>2
  <2> HIDE DEF m, k
  <2> QED BY <1>1, <2>1, <2>2, <2>3, <2>4
<1> QED BY <1>2, <1>3

\* Every step keeps it.
LEMMA PageKeeps == PageParts /\ [PageNext]_pageVars => PageParts'
<1> SUFFICES ASSUME PageParts, [PageNext]_pageVars PROVE PageParts' OBVIOUS
<1>1. CASE UNCHANGED pageVars BY <1>1 DEF pageVars, PageParts, OneInterval
<1>2. ASSUME NEW p \in Paths, go(p) PROVE PageParts'
  <2>1. PICK prog \in Dispatch[p] : router(p, prog) BY <1>2 DEF go
  <2>2. Starts(prog) /\ UNCHANGED polls BY <1>2, ViewsStart DEF go
  <2> QED BY <2>1, <2>2, RouterKeeps
<1>3. ASSUME NEW n \in Navs, FilterFires(n) PROVE PageParts'
  <2>1. PICK prog \in Lists : router("list", prog) BY <1>3 DEF FilterFires
  <2>2. "list" \in Paths /\ Dispatch["list"] = Lists BY DEF Paths, Dispatch
  <2>3. Starts(prog) /\ UNCHANGED polls BY <1>3, <2>2, ViewsStart DEF FilterFires
  <2> QED BY <2>1, <2>3, RouterKeeps
<1>4. CASE TypeFilter BY <1>4 DEF TypeFilter, PageParts, OneInterval
<1>5. CASE LiveChanges
  <2> DEFINE t == [pg EXCEPT !.liveHtml = FALSE]
  <2>0. pg \in PageType BY DEF PageParts
  <2>1. pg' = t /\ UNCHANGED <<nav, act, polls, overlap, everlap>> BY <1>5 DEF LiveChanges
  <2>2. t \in PageType BY <2>0 DEF PageType
  <2>3. /\ t.live = pg.live /\ t.liveTimer = pg.liveTimer /\ t.shown = pg.shown /\ t.liveHtml = FALSE
        /\ t.viewers = pg.viewers /\ t.replay = pg.replay /\ t.editor = pg.editor /\ t.stream = pg.stream
    BY <2>0 DEF PageType
  <2> HIDE DEF t
  <2>4. Held(pg, nav) => Held(pg', nav) BY <2>1, <2>3 DEF Held
  <2>5. WillShow(pg, nav, act[nav]) => WillShow(pg', nav, act[nav]) BY <2>1, <2>3 DEF WillShow
  <2>6. ~overlap => \A n \in Navs : <<"live", n>> \in polls' => n = nav BY <2>1 DEF PageParts
  <2> QED BY <2>1, <2>2, <2>3, <2>4, <2>5, <2>6, PageSame
<1>6. ASSUME NEW n \in Navs, LiveTick(n) PROVE PageParts'
  <2>1. n \in pg.live /\ polls' = polls \cup {<<"live", n>>} /\ UNCHANGED <<nav, act, pg, overlap, everlap>>
    BY <1>6 DEF LiveTick
  <2>2. ~overlap => \A j \in Navs : <<"live", j>> \in polls' => j = nav BY <2>1 DEF PageParts
  <2>3. pg' \in PageType BY <2>1 DEF PageParts
  <2> QED BY <2>1, <2>2, <2>3, PageSame
<1> QED
  BY <1>1, <1>2, <1>3, <1>4, <1>5, <1>6, ResumeKeeps, FailsKeeps, AnswerKeeps, MapgenKeeps DEF PageNext, PageSteps

\* The page keeps its promises through every navigation.
LEMMA PagesAlways == PageSpec => []PageSound
<1>1. PageInit => PageParts
  <2> SUFFICES ASSUME PageInit PROVE PageParts OBVIOUS
  <2>1. <<>> \in Rest BY NothingLeft
  <2>2. 0 \in 0..MaxNavs BY PagesAssumption DEF PagesAssumption
  <2>3. pg \in PageType
    <3>1. <<0, "blank">> \in (0..MaxNavs) \X {"blank", "loading", "page"} BY <2>2
    <3> QED BY <2>2, <3>1 DEF PageInit, NoPage, PageType
  <2>4. pg.live = {} /\ pg.viewers = {} BY DEF PageInit, NoPage
  <2>5. act \in [Navs -> Rest] /\ \A n \in Navs : act[n] = <<>> BY <2>1 DEF PageInit
  <2>6. OneInterval /\ Held(pg, nav) BY <2>4 DEF OneInterval, Held
  <2>7. nav = 0 /\ polls = {} /\ overlap = FALSE /\ everlap = FALSE BY DEF PageInit
  <2>8. /\ \A n \in Navs : n # nav => act[n] = <<>>
        /\ pg.live \subseteq {nav} /\ \A n \in Navs : <<"live", n>> \in polls => n = nav
    BY <2>4, <2>5, <2>7
  <2>9. ~(nav > 0) /\ nav \in 0..MaxNavs BY <2>2, <2>7
  <2>10. overlap \in BOOLEAN /\ everlap \in BOOLEAN /\ (overlap => everlap) BY <2>7
  <2> QED BY <2>3, <2>5, <2>6, <2>8, <2>9, <2>10 DEF PageParts
<1>2. PageParts => PageSound
  <2> SUFFICES ASSUME PageParts PROVE PageSound OBVIOUS
  <2>1. OneInterval BY DEF PageParts
  <2>2. RightPage
    <3> SUFFICES ASSUME ~Pending, ~overlap, nav > 0 PROVE pg.shown = <<nav, "page">> BY DEF RightPage
    <3>1. nav \in Navs BY DEF PageParts, Navs
    <3>2. act[nav] = <<>> BY <3>1 DEF Pending
    <3>3. WillShow(pg, nav, <<>>) BY <3>2 DEF PageParts
    <3>4. Len(<<>>) = 0 OBVIOUS
    <3> QED BY <3>3, <3>4 DEF WillShow
  <2>3. ViewersHeld BY DEF ViewersHeld, PageParts, Held
  <2> QED BY <2>1, <2>2, <2>3 DEF PageSound
<1> QED BY <1>1, <1>2, PageKeeps, PTL DEF PageSpec

-----------------------------------------------------------------------------
(* The course editor.                                                      *)

\* Courses whose selection is inside them, up to an edit number.
Good(e) == {c \in [n : 1..SegCap, sel : Nat, no : 0..e] : c.sel <= c.n}

\* The stacks, in the order their edits were made, before and after a course.
InOrder(u, no, r) ==
  /\ \A i, j \in 1..Len(u) : i < j => u[i].no < u[j].no
  /\ \A i, j \in 1..Len(r) : i < j => r[j].no < r[i].no
  /\ \A i \in 1..Len(u) : u[i].no < no
  /\ \A i \in 1..Len(r) : no < r[i].no

\* The editor's state, by parts; EdInv says the same.
EdTyped ==
  /\ edits \in Nat /\ course \in Good(edits) /\ undo \in Seq(Good(edits)) /\ redo \in Seq(Good(edits))
  /\ live = NoBase \/ live \in Good(edits)
  /\ rend \in 0..course.n /\ (rend # 0 => course.sel # 0)
  /\ drag \in {"none", "insp", "bar", "title"} /\ (drag # "none" => live # NoBase)
  /\ draft \in [n : 1..SegCap, no : 0..edits]
  /\ drag = "none" => draft = [n |-> course.n, no |-> course.no]
  /\ clip \in Nat /\ shelf \in Seq(Nat \ {0}) /\ mixed \in BOOLEAN
EdOrder == ~mixed => InOrder(undo, Shown.no, redo)
EdButton ==
  /\ send \in [on : BOOLEAN, flying : Nat, sent : Nat, asked : Nat]
  /\ send.on \/ send.flying > 0 \/ send.asked > 0
EdParts == EdTyped /\ EdOrder /\ EdButton

\* The lesser and the greater of two numbers.
LEMMA MinMaxOfTwo ==
  ASSUME NEW a \in Int, NEW b \in Int
  PROVE  /\ Min({a, b}) \in {a, b} /\ Min({a, b}) <= a /\ Min({a, b}) <= b
         /\ Max({a, b}) \in {a, b} /\ Max({a, b}) >= a /\ Max({a, b}) >= b
<1>1. \E x \in {a, b} : \A y \in {a, b} : x <= y
  <2>1. CASE a <= b BY <2>1
  <2>2. CASE ~(a <= b) BY <2>2
  <2> QED BY <2>1, <2>2
<1>2. \E x \in {a, b} : \A y \in {a, b} : x >= y
  <2>1. CASE a >= b BY <2>1
  <2>2. CASE ~(a >= b) BY <2>2
  <2> QED BY <2>1, <2>2
<1>3. Min({a, b}) \in {a, b} /\ \A y \in {a, b} : Min({a, b}) <= y BY <1>1 DEF Min
<1>4. Max({a, b}) \in {a, b} /\ \A y \in {a, b} : Max({a, b}) >= y BY <1>2 DEF Max
<1> QED BY <1>3, <1>4

\* Edits only add courses.
LEMMA GoodGrows ==
  ASSUME NEW e \in Nat
  PROVE  /\ Good(e) \subseteq Good(e + 1) /\ Seq(Good(e)) \subseteq Seq(Good(e + 1))
         /\ [n : 1..SegCap, no : 0..e] \subseteq [n : 1..SegCap, no : 0..(e + 1)]
<1>1. 0..e \subseteq 0..(e + 1) OBVIOUS
<1>2. Good(e) \subseteq Good(e + 1) BY <1>1 DEF Good
<1> QED BY <1>1, <1>2

\* What such a course has.
LEMMA GoodHas ==
  ASSUME NEW e, NEW c \in Good(e)
  PROVE  c.n \in 1..SegCap /\ c.sel \in 0..c.n /\ c.no \in 0..e /\ c # NoBase /\ c.n \in Nat /\ c.sel \in Nat
BY EditorAssumption DEF Good, NoBase, EditorAssumption

\* A course of a size, a selection inside it, and an edit number.
LEMMA GoodIs ==
  ASSUME NEW e, NEW n \in 1..SegCap, NEW s \in 0..n, NEW no \in 0..e
  PROVE  [n |-> n, sel |-> s, no |-> no] \in Good(e)
BY DEF Good

\* A course with another edit number.
LEMMA Renumbered ==
  ASSUME NEW e, NEW c \in Good(e), NEW no \in Nat
  PROVE  LET d == [c EXCEPT !.no = no] IN
         d \in Good(no) /\ d.n = c.n /\ d.sel = c.sel /\ d.no = no
<1>1. c \in [n : 1..SegCap, sel : Nat, no : 0..e] /\ c.sel <= c.n BY DEF Good
<1>2. no \in 0..no OBVIOUS
<1> QED BY <1>1, <1>2 DEF Good

\* One more on the undo stack, with nothing to redo.
LEMMA Pushed ==
  ASSUME NEW S, NEW u \in Seq(S), NEW c \in S, \A x \in S : x.no \in Nat, NEW no \in Nat, c.no < no,
         \A i, j \in 1..Len(u) : i < j => u[i].no < u[j].no, \A i \in 1..Len(u) : u[i].no < c.no
  PROVE  InOrder(Append(u, c), no, <<>>)
<1> DEFINE v == Append(u, c)
<1>1. Len(v) = Len(u) + 1 /\ v[Len(u) + 1] = c /\ Len(u) \in Nat /\ \A i \in 1..Len(u) : v[i] = u[i] /\ u[i] \in S
  BY AppendProperties
<1> HIDE DEF v
<1>2. ASSUME NEW i \in 1..Len(v), NEW j \in 1..Len(v), i < j PROVE v[i].no < v[j].no
  <2>1. i \in 1..Len(u) BY <1>1, <1>2
  <2>2. CASE j \in 1..Len(u) BY <1>1, <1>2, <2>1, <2>2
  <2>3. CASE j = Len(u) + 1 BY <1>1, <2>1, <2>3
  <2> QED BY <1>1, <2>2, <2>3
<1>3. ASSUME NEW i \in 1..Len(v) PROVE v[i].no < no
  <2>1. CASE i \in 1..Len(u)
    <3>1. v[i].no < c.no /\ v[i].no \in Nat /\ c.no \in Nat BY <1>1, <2>1
    <3> QED BY <3>1
  <2>2. CASE i = Len(u) + 1 BY <1>1, <2>2
  <2> QED BY <1>1, <2>1, <2>2
<1>4. Len(<<>>) = 0 OBVIOUS
<1> QED BY <1>2, <1>3, <1>4 DEF InOrder, v

\* Reported redraws the button.
LEMMA ReportedButton == EdButton /\ Reported => EdButton'
<1> SUFFICES ASSUME EdButton, Reported PROVE EdButton' OBVIOUS
<1>1. send \in [on : BOOLEAN, flying : Nat, sent : Nat, asked : Nat] BY DEF EdButton
<1>2. send' = [send EXCEPT !.on = TRUE] BY DEF Reported
<1> QED BY <1>1, <1>2 DEF EdButton

\* An edit that commit records.
LEMMA CommitKeeps ==
  ASSUME EdParts, NEW n \in 1..SegCap, NEW s \in Int, NEW keep \in BOOLEAN, NEW end \in Nat,
         keep /\ end # 0 /\ end <= n => s \in 1..n, CommitEdit(n, s, keep, end),
         clip' \in Nat, shelf' \in Seq(Nat \ {0})
  PROVE  EdParts'
<1> DEFINE e == edits + 1
           t == IF s \in 1..n THEN s ELSE 0
           c == [n |-> n, sel |-> t, no |-> e]
<1>1. edits \in Nat /\ e \in Nat /\ edits' = e /\ course' = c /\ e = edits + 1 BY DEF CommitEdit, EdParts, EdTyped
<1>2. t \in 0..n OBVIOUS
<1>3. c.n = n /\ c.sel = t /\ c.no = e OBVIOUS
<1>4. c \in Good(e)
  <2>1. e \in 0..e BY <1>1
  <2> HIDE DEF t, e
  <2> QED BY <1>2, <2>1, GoodIs
<1>5. course \in Good(edits) /\ undo \in Seq(Good(edits)) /\ (live = NoBase \/ live \in Good(edits))
  BY DEF EdParts, EdTyped
<1>6. course \in Good(e) /\ undo \in Seq(Good(e)) /\ (live = NoBase \/ live \in Good(e)) /\ Good(edits) \subseteq Good(e)
  BY <1>1, <1>5, GoodGrows
<1>7. rend' \in 0..n /\ (rend' # 0 => t # 0)
  <2>1. rend' = IF ~keep \/ end > n THEN 0 ELSE end BY DEF CommitEdit
  <2> QED BY <2>1
<1>8. draft' = [n |-> n, no |-> e] /\ redo' = <<>> /\ live' = live /\ Redrawn /\ Reported
      /\ mixed' = (mixed \/ live # NoBase)
  BY DEF CommitEdit, Stored
<1> HIDE DEF e, t, c
<1>9. draft' \in [n : 1..SegCap, no : 0..e] BY <1>1, <1>8
<1>10. drag' \in {"none", "insp", "bar", "title"} /\ (drag' # "none" => live # NoBase)
  BY <1>8 DEF Redrawn, EdParts, EdTyped
<1> DEFINE u == IF Len(undo) >= UndoCap THEN Tail(undo) ELSE undo
<1>11. undo' = Append(u, course) BY DEF CommitEdit
<1>12. /\ u \in Seq(Good(edits)) /\ Len(u) \in Nat
       /\ \/ Len(u) = Len(undo) /\ \A i \in 1..Len(u) : u[i] = undo[i]
          \/ Len(u) = Len(undo) - 1 /\ \A i \in 1..Len(u) : u[i] = undo[i + 1]
  <2>1. CASE Len(undo) >= UndoCap
    <3>1. undo # <<>> BY <1>5, <2>1, EditorAssumption DEF EditorAssumption
    <3> QED BY <1>5, <2>1, <3>1, HeadTailProperties
  <2>2. CASE ~(Len(undo) >= UndoCap)
    <3>1. u = undo BY <2>2
    <3>2. Len(undo) \in Nat BY <1>5
    <3> HIDE DEF u
    <3> QED BY <1>5, <3>1, <3>2
  <2> QED BY <2>1, <2>2
<1> HIDE DEF u
<1>13. undo' \in Seq(Good(e))
  <2>1. u \in Seq(Good(e)) BY <1>1, <1>12, GoodGrows
  <2> QED BY <1>6, <1>11, <2>1, AppendProperties
<1>14. mixed' \in BOOLEAN BY <1>8 DEF EdParts, EdTyped
<1>15. EdTyped'
  <2>1. edits' \in Nat /\ course' \in Good(edits') /\ undo' \in Seq(Good(edits')) /\ redo' \in Seq(Good(edits'))
    BY <1>1, <1>4, <1>8, <1>13
  <2>2. live' = NoBase \/ live' \in Good(edits') BY <1>1, <1>6, <1>8
  <2>3. rend' \in 0..course'.n /\ (rend' # 0 => course'.sel # 0) BY <1>1, <1>3, <1>7
  <2>4. draft' \in [n : 1..SegCap, no : 0..edits'] /\ draft' = [n |-> course'.n, no |-> course'.no]
    BY <1>1, <1>3, <1>8, <1>9
  <2>5. drag' # "none" => live' # NoBase BY <1>8, <1>10
  <2> QED BY <1>10, <1>14, <2>1, <2>2, <2>3, <2>4, <2>5 DEF EdTyped
<1>16. ASSUME ~mixed' PROVE InOrder(undo', Shown'.no, redo')
  <2>1. ~mixed /\ live = NoBase BY <1>8, <1>16
  <2>2. Shown = course /\ Shown' = c BY <1>1, <1>8, <2>1 DEF Shown
  <2>3. \A i, j \in 1..Len(undo) : i < j => undo[i].no < undo[j].no BY <2>1 DEF EdParts, EdOrder, InOrder
  <2>4. \A i \in 1..Len(undo) : undo[i].no < course.no BY <2>1, <2>2 DEF EdParts, EdOrder, InOrder
  <2>5. Len(undo) \in Nat BY <1>5
  <2>6. \A i, j \in 1..Len(u) : i < j => u[i].no < u[j].no
    <3>1. CASE Len(u) = Len(undo) /\ (\A i \in 1..Len(u) : u[i] = undo[i]) BY <2>3, <3>1
    <3>2. CASE Len(u) = Len(undo) - 1 /\ (\A i \in 1..Len(u) : u[i] = undo[i + 1])
      <4>1. \A i \in 1..Len(u) : i + 1 \in 1..Len(undo) BY <1>12, <2>5, <3>2
      <4>2. \A i, j \in 1..Len(u) : i < j => i + 1 < j + 1 BY <1>12
      <4> QED BY <2>3, <3>2, <4>1, <4>2
    <3> QED BY <1>12, <3>1, <3>2
  <2>7. \A i \in 1..Len(u) : u[i].no < course.no
    <3>1. CASE Len(u) = Len(undo) /\ (\A i \in 1..Len(u) : u[i] = undo[i]) BY <2>4, <3>1
    <3>2. CASE Len(u) = Len(undo) - 1 /\ (\A i \in 1..Len(u) : u[i] = undo[i + 1])
      <4>1. \A i \in 1..Len(u) : i + 1 \in 1..Len(undo) BY <1>12, <2>5, <3>2
      <4> QED BY <2>4, <3>2, <4>1
    <3> QED BY <1>12, <3>1, <3>2
  <2>8. \A x \in Good(edits) : x.no \in Nat BY GoodHas
  <2>9. course.no < e
    <3>1. course.no \in 0..edits BY <1>5, GoodHas
    <3> QED BY <1>1, <3>1
  <2>10. InOrder(Append(u, course), e, <<>>) BY <1>1, <1>5, <1>12, <2>6, <2>7, <2>8, <2>9, Pushed
  <2> QED BY <1>3, <1>8, <1>11, <2>2, <2>10
<1>17. EdButton' BY <1>8, ReportedButton DEF EdParts
<1> QED BY <1>15, <1>16, <1>17 DEF EdParts, EdOrder

\* The end of a live edit, with its change event or without.
LEMMA EndLiveKeeps ==
  ASSUME EdParts, live # NoBase, EndLive, edits' = edits + 1,
         LET c == [course EXCEPT !.no = edits + 1] IN course' = c /\ Stored(c),
         drag' = "none", Reported, UNCHANGED <<rend, clip, shelf, mixed>>
  PROVE  EdParts'
<1> DEFINE e == edits + 1
<1>1. edits \in Nat /\ e \in Nat /\ edits' = e /\ e = edits + 1 /\ edits < e BY DEF EdParts, EdTyped
<1>2. /\ course \in Good(edits) /\ undo \in Seq(Good(edits)) /\ live \in Good(edits)
      /\ rend \in 0..course.n /\ (rend # 0 => course.sel # 0)
      /\ clip \in Nat /\ shelf \in Seq(Nat \ {0}) /\ mixed \in BOOLEAN
  BY DEF EdParts, EdTyped
<1>3. course' = [course EXCEPT !.no = e] /\ draft' = [n |-> course'.n, no |-> course'.no] BY DEF Stored
<1> HIDE DEF e
<1>4. course' \in Good(e) /\ course'.n = course.n /\ course'.sel = course.sel /\ course'.no = e
  BY <1>1, <1>2, <1>3, Renumbered
<1>5. draft' \in [n : 1..SegCap, no : 0..e]
  <2>1. course'.n \in 1..SegCap /\ course'.no \in 0..e BY <1>4, GoodHas
  <2> QED BY <1>3, <2>1
<1>6. undo' = Append(undo, live) /\ redo' = <<>> /\ live' = NoBase BY DEF EndLive
<1>7. undo' \in Seq(Good(e))
  <2>1. undo \in Seq(Good(e)) /\ live \in Good(e) BY <1>1, <1>2, GoodGrows
  <2> QED BY <1>6, <2>1, AppendProperties
<1>8. EdTyped' BY <1>1, <1>2, <1>3, <1>4, <1>5, <1>6, <1>7 DEF EdTyped
<1>9. ASSUME ~mixed' PROVE InOrder(undo', Shown'.no, redo')
  <2>1. ~mixed /\ Shown = live /\ Shown' = course' BY <1>6, <1>9 DEF Shown
  <2>2. \A i, j \in 1..Len(undo) : i < j => undo[i].no < undo[j].no BY <2>1 DEF EdParts, EdOrder, InOrder
  <2>3. \A i \in 1..Len(undo) : undo[i].no < live.no BY <2>1 DEF EdParts, EdOrder, InOrder
  <2>4. \A x \in Good(edits) : x.no \in Nat BY GoodHas
  <2>5. live.no < e
    <3>1. live.no \in 0..edits BY <1>2, GoodHas
    <3> QED BY <1>1, <3>1
  <2>6. InOrder(Append(undo, live), e, <<>>) BY <1>1, <1>2, <2>2, <2>3, <2>4, <2>5, Pushed
  <2> QED BY <1>4, <1>6, <2>1, <2>6
<1>10. EdButton' BY ReportedButton DEF EdParts
<1> QED BY <1>8, <1>9, <1>10 DEF EdParts, EdOrder

\* A state popped off one stack for the course, which goes on the other.
LEMMA TravelKeeps ==
  ASSUME EdParts, NEW from, NEW to, from \in Seq(Good(edits)), to \in Seq(Good(edits)), from # <<>>,
         drag # "title", Travel(from), Redrawn, UNCHANGED <<live, clip, shelf, edits>>,
         mixed' = (mixed \/ live # NoBase), Reported,
         undo' \in Seq(Good(edits)), redo' \in Seq(Good(edits)),
         live = NoBase /\ ~mixed => InOrder(undo', Last(from).no, redo')
  PROVE  EdParts'
<1>1. Last(from) \in Good(edits) BY DEF Last
<1> DEFINE c == Last(from)
<1>2. course' = c /\ draft' = [n |-> c.n, no |-> c.no] /\ rend' = 0 BY DEF Travel, Stored
<1> HIDE DEF c
<1>3. c \in Good(edits) BY <1>1 DEF c
<1>4. c.n \in 1..SegCap /\ c.no \in 0..edits /\ c.n \in Nat BY <1>3, GoodHas
<1>5. draft' \in [n : 1..SegCap, no : 0..edits] BY <1>2, <1>4
<1>6. drag' \in {"none", "insp", "bar", "title"} /\ (drag' # "none" => live # NoBase) BY DEF Redrawn, EdParts, EdTyped
<1>7. EdTyped'
  <2>1. edits \in Nat /\ (live = NoBase \/ live \in Good(edits)) /\ clip \in Nat /\ shelf \in Seq(Nat \ {0}) /\ mixed \in BOOLEAN
    BY DEF EdParts, EdTyped
  <2>2. rend' \in 0..course'.n BY <1>2, <1>4
  <2> QED BY <1>2, <1>3, <1>5, <1>6, <2>1, <2>2 DEF EdTyped
<1>8. ASSUME ~mixed' PROVE InOrder(undo', Shown'.no, redo')
  <2>1. ~mixed /\ live = NoBase /\ live' = NoBase BY <1>8
  <2>2. Shown' = c BY <1>2, <2>1 DEF Shown
  <2> QED BY <2>1, <2>2 DEF c
<1>9. EdButton' BY ReportedButton DEF EdParts
<1> QED BY <1>7, <1>8, <1>9 DEF EdParts, EdOrder

\* Undo keeps the invariant: the course goes first on the redo stack.
LEMMA UndoKeeps == EdParts /\ Undo => EdParts'
<1> SUFFICES ASSUME EdParts, Undo PROVE EdParts' OBVIOUS
<1>1. undo \in Seq(Good(edits)) /\ redo \in Seq(Good(edits)) /\ course \in Good(edits) BY DEF EdParts, EdTyped
<1>2. /\ undo # <<>> /\ drag # "title" /\ Travel(undo) /\ undo' = Front(undo) /\ redo' = Append(redo, course)
      /\ Redrawn /\ Reported /\ mixed' = (mixed \/ live # NoBase) /\ UNCHANGED <<live, clip, shelf, edits>>
  BY DEF Undo
<1>3. /\ Len(undo) \in Nat /\ Len(undo) >= 1 /\ undo' \in Seq(Good(edits)) /\ Len(undo') = Len(undo) - 1
      /\ \A i \in 1..(Len(undo) - 1) : undo'[i] = undo[i]
  <2>1. Len(undo) \in Nat /\ Len(undo) >= 1 BY <1>1, <1>2
  <2>2. \A i \in 1..(Len(undo) - 1) : undo[i] \in Good(edits) BY <1>1, <2>1
  <2>3. undo' = SubSeq(undo, 1, Len(undo) - 1) BY <1>2 DEF Front
  <2> DEFINE m == Len(undo) - 1
  <2>4. m \in Int /\ m >= 0 /\ m - 1 + 1 = m /\ m = Len(undo) - 1 BY <2>1
  <2>5. \A i \in 1..m : undo[i] \in Good(edits) BY <2>2
  <2> HIDE DEF m
  <2>6. undo' = SubSeq(undo, 1, m) BY <2>3, <2>4
  <2>7. /\ SubSeq(undo, 1, m) \in Seq(Good(edits)) /\ Len(SubSeq(undo, 1, m)) = m
        /\ \A i \in 1..m : SubSeq(undo, 1, m)[i] = undo[i]
    BY <2>4, <2>5, SubSeqProperties
  <2> QED BY <2>1, <2>4, <2>6, <2>7
<1>4. /\ redo' \in Seq(Good(edits)) /\ Len(redo') = Len(redo) + 1 /\ redo'[Len(redo) + 1] = course
      /\ Len(redo) \in Nat /\ \A i \in 1..Len(redo) : redo'[i] = redo[i]
  BY <1>1, <1>2, AppendProperties
<1>5. ASSUME live = NoBase, ~mixed PROVE InOrder(undo', Last(undo).no, redo')
  <2>1. InOrder(undo, course.no, redo) BY <1>5 DEF EdParts, EdOrder, Shown
  <2>2. Last(undo) = undo[Len(undo)] /\ Len(undo) \in 1..Len(undo) BY <1>3 DEF Last
  <2>3. \A i, j \in 1..Len(undo') : i < j => undo'[i].no < undo'[j].no
    <3>1. \A i \in 1..Len(undo') : undo'[i] = undo[i] /\ i \in 1..Len(undo) BY <1>3
    <3> QED BY <2>1, <3>1 DEF InOrder
  <2>4. \A i \in 1..Len(undo') : undo'[i].no < Last(undo).no BY <1>3, <2>1, <2>2 DEF InOrder
  <2>5. undo[Len(undo)].no < course.no BY <2>1, <2>2 DEF InOrder
  <2>6. ASSUME NEW i \in 1..Len(redo'), NEW j \in 1..Len(redo'), i < j PROVE redo'[j].no < redo'[i].no
    <3>1. i \in 1..Len(redo) BY <1>4, <2>6
    <3>2. CASE j \in 1..Len(redo) BY <1>4, <2>1, <2>6, <3>1, <3>2 DEF InOrder
    <3>3. CASE j = Len(redo) + 1 BY <1>4, <2>1, <3>1, <3>3 DEF InOrder
    <3> QED BY <1>4, <3>2, <3>3
  <2>7. ASSUME NEW i \in 1..Len(redo') PROVE Last(undo).no < redo'[i].no
    <3>1. CASE i \in 1..Len(redo)
      <4>1. course.no < redo[i].no /\ redo'[i] = redo[i] BY <1>4, <2>1, <3>1 DEF InOrder
      <4>2. redo[i] \in Good(edits) /\ undo[Len(undo)] \in Good(edits) BY <1>1, <2>2, <3>1
      <4>3. course.no \in Int /\ redo[i].no \in Int /\ undo[Len(undo)].no \in Int
        BY <1>1, <4>2, GoodHas
      <4> QED BY <2>2, <2>5, <4>1, <4>3
    <3>2. CASE i = Len(redo) + 1 BY <1>4, <2>2, <2>5, <3>2
    <3> QED BY <1>4, <3>1, <3>2
  <2> QED BY <2>3, <2>4, <2>6, <2>7 DEF InOrder
<1> QED BY <1>1, <1>2, <1>3, <1>4, <1>5, TravelKeeps

\* Redo keeps it: the course goes last on the undo stack.
LEMMA RedoKeeps == EdParts /\ Redo => EdParts'
<1> SUFFICES ASSUME EdParts, Redo PROVE EdParts' OBVIOUS
<1>1. undo \in Seq(Good(edits)) /\ redo \in Seq(Good(edits)) /\ course \in Good(edits) BY DEF EdParts, EdTyped
<1>2. /\ redo # <<>> /\ drag # "title" /\ Travel(redo) /\ redo' = Front(redo) /\ undo' = Append(undo, course)
      /\ Redrawn /\ Reported /\ mixed' = (mixed \/ live # NoBase) /\ UNCHANGED <<live, clip, shelf, edits>>
  BY DEF Redo
<1>3. /\ Len(redo) \in Nat /\ Len(redo) >= 1 /\ redo' \in Seq(Good(edits)) /\ Len(redo') = Len(redo) - 1
      /\ \A i \in 1..(Len(redo) - 1) : redo'[i] = redo[i]
  <2>1. Len(redo) \in Nat /\ Len(redo) >= 1 BY <1>1, <1>2
  <2>2. \A i \in 1..(Len(redo) - 1) : redo[i] \in Good(edits) BY <1>1, <2>1
  <2>3. redo' = SubSeq(redo, 1, Len(redo) - 1) BY <1>2 DEF Front
  <2> DEFINE m == Len(redo) - 1
  <2>4. m \in Int /\ m >= 0 /\ m - 1 + 1 = m /\ m = Len(redo) - 1 BY <2>1
  <2>5. \A i \in 1..m : redo[i] \in Good(edits) BY <2>2
  <2> HIDE DEF m
  <2>6. redo' = SubSeq(redo, 1, m) BY <2>3, <2>4
  <2>7. /\ SubSeq(redo, 1, m) \in Seq(Good(edits)) /\ Len(SubSeq(redo, 1, m)) = m
        /\ \A i \in 1..m : SubSeq(redo, 1, m)[i] = redo[i]
    BY <2>4, <2>5, SubSeqProperties
  <2> QED BY <2>1, <2>4, <2>6, <2>7
<1>4. /\ undo' \in Seq(Good(edits)) /\ Len(undo') = Len(undo) + 1 /\ undo'[Len(undo) + 1] = course
      /\ Len(undo) \in Nat /\ \A i \in 1..Len(undo) : undo'[i] = undo[i]
  BY <1>1, <1>2, AppendProperties
<1>5. ASSUME live = NoBase, ~mixed PROVE InOrder(undo', Last(redo).no, redo')
  <2>1. InOrder(undo, course.no, redo) BY <1>5 DEF EdParts, EdOrder, Shown
  <2>2. Last(redo) = redo[Len(redo)] /\ Len(redo) \in 1..Len(redo) BY <1>3 DEF Last
  <2>3. \A i, j \in 1..Len(redo') : i < j => redo'[j].no < redo'[i].no
    <3>1. \A i \in 1..Len(redo') : redo'[i] = redo[i] /\ i \in 1..Len(redo) BY <1>3
    <3> QED BY <2>1, <3>1 DEF InOrder
  <2>4. \A i \in 1..Len(redo') : Last(redo).no < redo'[i].no BY <1>3, <2>1, <2>2 DEF InOrder
  <2>5. course.no < redo[Len(redo)].no BY <2>1, <2>2 DEF InOrder
  <2>6. ASSUME NEW i \in 1..Len(undo'), NEW j \in 1..Len(undo'), i < j PROVE undo'[i].no < undo'[j].no
    <3>1. i \in 1..Len(undo) BY <1>4, <2>6
    <3>2. CASE j \in 1..Len(undo) BY <1>4, <2>1, <2>6, <3>1, <3>2 DEF InOrder
    <3>3. CASE j = Len(undo) + 1 BY <1>4, <2>1, <3>1, <3>3 DEF InOrder
    <3> QED BY <1>4, <3>2, <3>3
  <2>7. ASSUME NEW i \in 1..Len(undo') PROVE undo'[i].no < Last(redo).no
    <3>1. CASE i \in 1..Len(undo)
      <4>1. undo[i].no < course.no /\ undo'[i] = undo[i] BY <1>4, <2>1, <3>1 DEF InOrder
      <4>2. undo[i] \in Good(edits) /\ redo[Len(redo)] \in Good(edits) BY <1>1, <2>2, <3>1
      <4>3. course.no \in Int /\ undo[i].no \in Int /\ redo[Len(redo)].no \in Int
        BY <1>1, <4>2, GoodHas
      <4> QED BY <2>2, <2>5, <4>1, <4>3
    <3>2. CASE i = Len(undo) + 1 BY <1>4, <2>2, <2>5, <3>2
    <3> QED BY <1>4, <3>1, <3>2
  <2> QED BY <2>3, <2>4, <2>6, <2>7 DEF InOrder
<1> QED BY <1>1, <1>2, <1>3, <1>4, <1>5, TravelKeeps

\* A slider moves, or a letter is typed.
LEMMA LiveKeeps ==
  ASSUME EdParts, NEW control \in {"insp", "bar", "title"}, LiveEdit(control)
  PROVE  EdParts'
<1> DEFINE e == edits + 1
<1>1. edits \in Nat /\ e \in Nat /\ edits' = e BY DEF EdParts, EdTyped, LiveEdit
<1>2. /\ course \in Good(edits) /\ undo \in Seq(Good(edits)) /\ redo \in Seq(Good(edits))
      /\ (live = NoBase \/ live \in Good(edits)) /\ draft \in [n : 1..SegCap, no : 0..edits]
      /\ rend \in 0..course.n /\ (rend # 0 => course.sel # 0)
      /\ clip \in Nat /\ shelf \in Seq(Nat \ {0}) /\ mixed \in BOOLEAN
  BY DEF EdParts, EdTyped
<1>3. /\ course' = [course EXCEPT !.no = e] /\ live' = (IF live = NoBase THEN course ELSE live)
      /\ drag' = control /\ Reported /\ UNCHANGED <<rend, undo, redo, draft, clip, shelf, mixed>>
  BY DEF LiveEdit
<1>4. /\ course \in Good(e) /\ undo \in Seq(Good(e)) /\ redo \in Seq(Good(e)) /\ (live # NoBase => live \in Good(e))
      /\ draft \in [n : 1..SegCap, no : 0..e]
  BY <1>1, <1>2, GoodGrows
<1> HIDE DEF e
<1>5. course' \in Good(e) /\ course'.n = course.n /\ course'.sel = course.sel
  BY <1>1, <1>2, <1>3, Renumbered
<1>6. live' \in Good(e) /\ live' # NoBase /\ Shown' = Shown
  <2>1. course # NoBase BY <1>2, GoodHas
  <2> QED BY <1>3, <1>4, <2>1 DEF Shown
<1>7. EdTyped' BY <1>1, <1>2, <1>3, <1>4, <1>5, <1>6 DEF EdTyped
<1>8. EdOrder' BY <1>3, <1>6 DEF EdParts, EdOrder
<1> QED BY <1>3, <1>7, <1>8, ReportedButton DEF EdParts

\* The pieces a selection stands for.
LEMMA SelectionIs ==
  ASSUME EdTyped, Selected
  PROVE  /\ First \in 1..course.n /\ Final \in First..course.n /\ Count = Final - First + 1 /\ Count \in 1..course.n
         /\ course.n \in Nat /\ Final \in Nat
<1>1. course.n \in 1..SegCap /\ course.sel \in 0..course.n /\ course.n \in Nat /\ rend \in 0..course.n
  BY GoodHas DEF EdTyped
<1>2. course.sel \in Int /\ rend \in Int /\ course.sel # 0 BY <1>1 DEF Selected
<1>3. CASE rend = 0 BY <1>1, <1>2, <1>3 DEF First, Final, Count
<1>4. CASE rend # 0
  <2> DEFINE a == Min({course.sel, rend})
             b == Max({course.sel, rend})
  <2>1. First = a /\ Final = b BY <1>4 DEF First, Final
  <2>2. a \in {course.sel, rend} /\ b \in {course.sel, rend} /\ a <= rend /\ b >= rend BY <1>2, MinMaxOfTwo
  <2> HIDE DEF a, b
  <2> QED BY <1>1, <1>2, <1>4, <2>1, <2>2 DEF Count
<1> QED BY <1>3, <1>4

\* What leaves the course and its stacks alone.
LEMMA AsideKeeps ==
  ASSUME EdParts, UNCHANGED <<course, rend, undo, redo, live, drag, draft, edits, mixed>>,
         clip' \in Nat, shelf' \in Seq(Nat \ {0}), EdButton'
  PROVE  EdParts'
<1>1. Shown' = Shown BY DEF Shown
<1> QED BY <1>1 DEF EdParts, EdTyped, EdOrder

\* The operations.
LEMMA OperationKeeps ==
  ASSUME EdParts, \/ SetFields \/ AddPiece \/ RemovePiece \/ MovePiece \/ Duplicate \/ RemoveRange
                  \/ ChangeSel \/ OpenCourse \/ InsertPieces \/ CutSel
  PROVE  EdParts'
<1>1. /\ course.n \in 1..SegCap /\ course.sel \in 0..course.n /\ course.n \in Nat /\ course.sel \in Nat
      /\ rend \in 0..course.n /\ rend \in Nat /\ (rend # 0 => course.sel # 0)
      /\ clip \in Nat /\ shelf \in Seq(Nat \ {0}) /\ SegCap \in Nat
  BY GoodHas, EditorAssumption DEF EdParts, EdTyped, EditorAssumption
<1>2. CASE SetFields
  <2>1. CASE live = NoBase
    <3>1. CommitEdit(course.n, course.sel, FALSE, rend) /\ UNCHANGED <<clip, shelf>> BY <1>2, <2>1 DEF SetFields
    <3> DEFINE n == course.n
               s == course.sel
    <3>2. n \in 1..SegCap /\ s \in Int /\ clip' \in Nat /\ shelf' \in Seq(Nat \ {0}) BY <1>1, <3>1
    <3>3. CommitEdit(n, s, FALSE, rend) BY <3>1
    <3> HIDE DEF n, s
    <3> QED BY <1>1, <3>2, <3>3, CommitKeeps
  <2>2. CASE live # NoBase BY <1>2, <2>2, EndLiveKeeps DEF SetFields
  <2> QED BY <2>1, <2>2
<1>3. CASE AddPiece
  <2>1. PICK i \in {IF Selected THEN course.sel + 1 ELSE course.n + 1} \cup 1..(course.n + 1) :
          CommitEdit(course.n + 1, i, FALSE, rend)
    BY <1>3 DEF AddPiece
  <2>2. course.n + 1 \in 1..SegCap /\ i \in Int BY <1>1, <1>3 DEF AddPiece
  <2>3. clip' \in Nat /\ shelf' \in Seq(Nat \ {0}) BY <1>1, <1>3 DEF AddPiece
  <2> QED BY <1>1, <2>1, <2>2, <2>3, CommitKeeps
<1>4. CASE RemovePiece
  <2> DEFINE m == Min({course.sel, course.n - 1})
  <2>1. course.n - 1 \in 1..SegCap BY <1>1, <1>4 DEF RemovePiece
  <2>2. m \in Int
    <3>1. course.sel \in Int /\ course.n - 1 \in Int BY <1>1
    <3> QED BY <3>1, MinMaxOfTwo
  <2>3. CommitEdit(course.n - 1, m, FALSE, rend) /\ UNCHANGED <<clip, shelf>> BY <1>4 DEF RemovePiece
  <2> HIDE DEF m
  <2> QED BY <1>1, <2>1, <2>2, <2>3, CommitKeeps
<1>5. CASE MovePiece
  <2>1. PICK to \in 1..course.n : CommitEdit(course.n, to, FALSE, rend) BY <1>5 DEF MovePiece
  <2> DEFINE n == course.n
  <2>2. clip' \in Nat /\ shelf' \in Seq(Nat \ {0}) BY <1>1, <1>5 DEF MovePiece
  <2>3. CommitEdit(n, to, FALSE, rend) BY <2>1
  <2>4. n \in 1..SegCap /\ to \in Int BY <1>1
  <2> HIDE DEF n
  <2> QED BY <1>1, <2>2, <2>3, <2>4, CommitKeeps
<1>6. CASE Duplicate
  <2>1. course.n + 1 \in 1..SegCap /\ course.sel + 1 \in Int BY <1>1, <1>6 DEF Duplicate
  <2>2. CommitEdit(course.n + 1, course.sel + 1, FALSE, rend) /\ UNCHANGED <<clip, shelf>> BY <1>6 DEF Duplicate
  <2> QED BY <1>1, <2>1, <2>2, CommitKeeps
<1>7. CASE RemoveRange
  <2>1. Selected /\ Count < course.n BY <1>7 DEF RemoveRange, Inspector
  <2>2. First \in 1..course.n /\ Count \in 1..course.n BY <2>1, SelectionIs DEF EdParts
  <2> DEFINE m == Min({First, course.n - Count})
  <2>3. course.n - Count \in 1..SegCap BY <1>1, <2>1, <2>2
  <2>4. m \in Int
    <3>1. First \in Int /\ course.n - Count \in Int BY <1>1, <2>2
    <3> QED BY <3>1, MinMaxOfTwo
  <2>5. CommitEdit(course.n - Count, m, FALSE, rend) /\ UNCHANGED <<clip, shelf>> BY <1>7 DEF RemoveRange
  <2> HIDE DEF m
  <2> QED BY <1>1, <2>3, <2>4, <2>5, CommitKeeps
<1>8. CASE ChangeSel
  <2>1. CommitEdit(course.n, course.sel, TRUE, rend) /\ UNCHANGED <<clip, shelf>> BY <1>8 DEF ChangeSel
  <2> DEFINE n == course.n
             s == course.sel
  <2>2. n \in 1..SegCap /\ s \in Int /\ (rend # 0 => s \in 1..n) BY <1>1
  <2>3. clip' \in Nat /\ shelf' \in Seq(Nat \ {0}) /\ CommitEdit(n, s, TRUE, rend) BY <1>1, <2>1
  <2> HIDE DEF n, s
  <2> QED BY <1>1, <2>2, <2>3, CommitKeeps
<1>9. CASE OpenCourse
  <2>1. PICK n \in 1..SegCap, s \in 0..1 : CommitEdit(n, s, FALSE, rend) BY <1>9 DEF OpenCourse
  <2>2. s \in Int /\ clip' \in Nat /\ shelf' \in Seq(Nat \ {0}) BY <1>1, <1>9 DEF OpenCourse
  <2> QED BY <1>1, <2>1, <2>2, CommitKeeps
<1>10. CASE InsertPieces
  <2> DEFINE i == IF Selected THEN Final + 1 ELSE course.n + 1
  <2>1. PICK k \in (IF Shortcut /\ clip > 0 THEN {clip} ELSE {}) \cup (IF Free THEN Range(shelf) ELSE {}) :
          course.n + k <= SegCap /\ CommitEdit(course.n + k, i, TRUE, i + k - 1)
    BY <1>10 DEF InsertPieces
  <2>2. k \in Nat \ {0} BY <1>1 DEF Range
  <2>3. i \in 1..(course.n + 1)
    <3>1. CASE Selected
      <4>1. Final \in First..course.n /\ First \in 1..course.n BY <3>1, SelectionIs DEF EdParts
      <4> QED BY <1>1, <3>1, <4>1
    <3>2. CASE ~Selected BY <1>1, <3>2
    <3> QED BY <3>1, <3>2
  <2> HIDE DEF i
  <2>4. course.n + k \in 1..SegCap /\ i \in Int /\ i + k - 1 \in Nat /\ i \in 1..(course.n + k)
    BY <1>1, <2>1, <2>2, <2>3
  <2>5. clip' \in Nat /\ shelf' \in Seq(Nat \ {0}) BY <1>1, <1>10 DEF InsertPieces
  <2> DEFINE n == course.n + k
             end == i + k - 1
  <2>6. n \in 1..SegCap /\ end \in Nat /\ CommitEdit(n, i, TRUE, end) BY <2>1, <2>4
  <2>7. i \in 1..n BY <2>4
  <2> HIDE DEF n, end
  <2> QED BY <2>4, <2>5, <2>6, <2>7, CommitKeeps
<1>11. CASE CutSel
  <2>1. Selected /\ clip' = Count /\ UNCHANGED shelf BY <1>11 DEF CutSel
  <2>2. First \in 1..course.n /\ Count \in 1..course.n BY <2>1, SelectionIs DEF EdParts
  <2>3. clip' \in Nat /\ shelf' \in Seq(Nat \ {0}) BY <1>1, <2>1, <2>2
  <2>4. CASE Count < course.n
    <3> DEFINE m == Min({First, course.n - Count})
    <3>1. course.n - Count \in 1..SegCap BY <1>1, <2>2, <2>4
    <3>2. m \in Int
      <4>1. First \in Int /\ course.n - Count \in Int BY <1>1, <2>2
      <4> QED BY <4>1, MinMaxOfTwo
    <3>3. ~(Count >= course.n) BY <1>1, <2>2, <2>4
    <3>4. CommitEdit(course.n - Count, m, FALSE, rend) BY <1>11, <3>3 DEF CutSel
    <3> HIDE DEF m
    <3> QED BY <1>1, <2>3, <3>1, <3>2, <3>4, CommitKeeps
  <2>5. CASE ~(Count < course.n)
    <3>1. UNCHANGED <<course, rend, undo, redo, live, drag, draft, edits, mixed, send>> BY <1>11, <2>5 DEF CutSel
    <3>2. EdButton' BY <3>1 DEF EdParts, EdButton
    <3> QED BY <2>3, <3>1, <3>2, AsideKeeps
  <2> QED BY <2>4, <2>5
<1> QED BY <1>2, <1>3, <1>4, <1>5, <1>6, <1>7, <1>8, <1>9, <1>10, <1>11

\* Selecting keeps it: the course's pieces are the same.
LEMMA SelectKeeps == EdParts /\ Select => EdParts'
<1> SUFFICES ASSUME EdParts, Select PROVE EdParts' OBVIOUS
<1>1. course \in Good(edits) /\ rend \in 0..course.n BY DEF EdParts, EdTyped
<1>2. course.n \in Nat /\ course.n \in 1..SegCap /\ course.no \in 0..edits BY <1>1, GoodHas
<1>3. PICK i \in 0..course.n, extend \in BOOLEAN :
       IF extend /\ Selected /\ i # 0
       THEN rend' = (IF i = course.sel THEN 0 ELSE i) /\ UNCHANGED course
       ELSE rend' = 0 /\ course' = [course EXCEPT !.sel = i]
  BY DEF Select
<1>4. drag = "none" /\ drag' = "none" /\ UNCHANGED <<undo, redo, live, draft, clip, shelf, edits, mixed, send>>
  BY DEF Select, Free, Redrawn
<1>5. /\ course' \in Good(edits) /\ course'.n = course.n /\ course'.no = course.no
      /\ rend' \in 0..course.n /\ (rend' # 0 => course'.sel # 0)
  <2>1. CASE extend /\ Selected /\ i # 0 BY <1>1, <1>2, <1>3, <2>1 DEF Selected
  <2>2. CASE ~(extend /\ Selected /\ i # 0)
    <3>1. rend' = 0 /\ course' = [course EXCEPT !.sel = i] BY <1>3, <2>2
    <3>2. course \in [n : 1..SegCap, sel : Nat, no : 0..edits] BY <1>1 DEF Good
    <3>3. i \in Nat /\ i <= course.n BY <1>2
    <3>4. course' \in [n : 1..SegCap, sel : Nat, no : 0..edits] BY <3>1, <3>2, <3>3
    <3>5. course'.n = course.n /\ course'.no = course.no /\ course'.sel = i BY <3>1, <3>2
    <3> QED BY <1>2, <3>1, <3>3, <3>4, <3>5 DEF Good
  <2> QED BY <2>1, <2>2
<1>6. EdTyped' BY <1>4, <1>5 DEF EdParts, EdTyped
<1>7. Shown'.no = Shown.no BY <1>4, <1>5 DEF Shown
<1>8. EdOrder' BY <1>4, <1>7 DEF EdParts, EdOrder, InOrder
<1>9. EdButton' BY <1>4 DEF EdParts, EdButton
<1> QED BY <1>6, <1>8, <1>9 DEF EdParts

\* An editor opened again starts from the draft.
LEMMA ReopenKeeps == EdParts /\ Reopen => EdParts'
<1> SUFFICES ASSUME EdParts, Reopen PROVE EdParts' OBVIOUS
<1>1. /\ edits \in Nat /\ draft \in [n : 1..SegCap, no : 0..edits] /\ clip \in Nat /\ shelf \in Seq(Nat \ {0})
      /\ send \in [on : BOOLEAN, flying : Nat, sent : Nat, asked : Nat]
  BY DEF EdParts, EdTyped, EdButton
<1> DEFINE c == [n |-> draft.n, sel |-> 0, no |-> draft.no]
<1>2. c \in Good(edits) /\ c.n = draft.n /\ c.sel = 0 /\ c.no = draft.no
  <2>1. draft.n \in 1..SegCap /\ draft.no \in 0..edits /\ 0 \in 0..draft.n BY <1>1
  <2> QED BY <2>1, GoodIs
<1> HIDE DEF c
<1>3. course' = c /\ rend' = 0 /\ undo' = <<>> /\ redo' = <<>> /\ live' = NoBase /\ drag' = "none"
      /\ mixed' = FALSE /\ UNCHANGED <<draft, clip, shelf, edits>>
  BY DEF Reopen, c
<1>4. draft = [n |-> draft.n, no |-> draft.no] /\ draft.n \in Nat BY <1>1
<1>5. EdTyped'
  <2>1. undo' \in Seq(Good(edits')) /\ redo' \in Seq(Good(edits')) BY <1>3
  <2>2. course' \in Good(edits') /\ edits' \in Nat BY <1>1, <1>2, <1>3
  <2>3. rend' \in 0..course'.n /\ rend' = 0 BY <1>2, <1>3, <1>4
  <2>4. draft' \in [n : 1..SegCap, no : 0..edits'] /\ draft' = [n |-> course'.n, no |-> course'.no]
    BY <1>1, <1>2, <1>3, <1>4
  <2>5. clip' \in Nat /\ shelf' \in Seq(Nat \ {0}) /\ mixed' \in BOOLEAN BY <1>1, <1>3
  <2> QED BY <1>3, <2>1, <2>2, <2>3, <2>4, <2>5 DEF EdTyped
<1>6. InOrder(undo', Shown'.no, redo')
  <2>1. Len(<<>>) = 0 OBVIOUS
  <2> QED BY <1>3, <2>1 DEF InOrder
<1>7. EdButton'
  <2>1. send' = [send EXCEPT !.on = TRUE, !.flying = 0, !.asked = 1] BY DEF Reopen
  <2>2. send' \in [on : BOOLEAN, flying : Nat, sent : Nat, asked : Nat] /\ send'.on BY <1>1, <2>1
  <2> QED BY <2>2 DEF EdButton
<1> QED BY <1>5, <1>6, <1>7 DEF EdParts, EdOrder

\* The clipboard and the shelf hold selections, which are never empty.
LEMMA ShelfKeeps == EdParts /\ (CopySel \/ EdShelf) => EdParts'
<1> SUFFICES ASSUME EdParts, CopySel \/ EdShelf PROVE EdParts' OBVIOUS
<1>1. clip \in Nat /\ shelf \in Seq(Nat \ {0}) /\ course.n \in Nat \ {0} /\ Len(shelf) \in Nat
  BY GoodHas DEF EdParts, EdTyped
<1>2. CASE CopySel
  <2>1. Count \in Nat BY <1>2, SelectionIs DEF CopySel, EdParts
  <2>2. EdButton' BY <1>2 DEF CopySel, EdParts, EdButton
  <2> QED BY <1>1, <1>2, <2>1, <2>2, AsideKeeps DEF CopySel
<1>3. CASE SaveToShelf
  <2> DEFINE m == Min({ShelfCap, Len(shelf) + 1})
  <2>1. PICK k \in {course.n} \cup (IF Selected THEN {Count} ELSE {}) : shelf' = SubSeq(<<k>> \o shelf, 1, m)
    BY <1>3 DEF SaveToShelf
  <2>2. k \in Nat \ {0}
    <3>1. CASE Selected
      <4>1. Count \in 1..course.n BY <3>1, SelectionIs DEF EdParts
      <4> QED BY <1>1, <2>1, <4>1
    <3>2. CASE ~Selected BY <1>1, <2>1, <3>2
    <3> QED BY <3>1, <3>2
  <2>3. m \in Int /\ m <= Len(shelf) + 1
    <3>1. ShelfCap \in Int /\ Len(shelf) + 1 \in Int BY <1>1, EditorAssumption DEF EditorAssumption
    <3> QED BY <3>1, MinMaxOfTwo
  <2>4. <<k>> \o shelf \in Seq(Nat \ {0}) /\ Len(<<k>> \o shelf) = Len(shelf) + 1
    <3>1. <<k>> \in Seq(Nat \ {0}) /\ Len(<<k>>) = 1 BY <2>2
    <3> QED BY <1>1, <3>1, ConcatProperties
  <2> DEFINE q == <<k>> \o shelf
  <2> HIDE DEF m, q
  <2>5. q \in Seq(Nat \ {0}) /\ Len(q) = Len(shelf) + 1 /\ shelf' = SubSeq(q, 1, m) BY <2>1, <2>4 DEF q
  <2>6. \A j \in 1..m : q[j] \in Nat \ {0} BY <1>1, <2>3, <2>5
  <2>7. shelf' \in Seq(Nat \ {0}) BY <2>3, <2>5, <2>6, SubSeqProperties
  <2>8. EdButton' BY <1>3 DEF SaveToShelf, EdParts, EdButton
  <2>9. clip' \in Nat /\ UNCHANGED <<course, rend, undo, redo, live, drag, draft, edits, mixed>>
    BY <1>1, <1>3 DEF SaveToShelf
  <2> QED BY <2>7, <2>8, <2>9, AsideKeeps
<1>4. CASE RemoveFromShelf
  <2>1. PICK k \in 1..Len(shelf) : shelf' = SubSeq(shelf, 1, k - 1) \o SubSeq(shelf, k + 1, Len(shelf))
    BY <1>4 DEF RemoveFromShelf, RemoveAt
  <2>2. SubSeq(shelf, 1, k - 1) \in Seq(Nat \ {0})
    <3>1. \A j \in 1..(k - 1) : shelf[j] \in Nat \ {0} BY <1>1
    <3> QED BY <1>1, <3>1, SubSeqProperties
  <2>3. SubSeq(shelf, k + 1, Len(shelf)) \in Seq(Nat \ {0})
    <3>1. \A j \in (k + 1)..Len(shelf) : shelf[j] \in Nat \ {0} BY <1>1
    <3> QED BY <1>1, <3>1, SubSeqProperties
  <2>4. shelf' \in Seq(Nat \ {0}) BY <2>1, <2>2, <2>3, ConcatProperties
  <2>5. EdButton' BY <1>4 DEF RemoveFromShelf, EdParts, EdButton
  <2>6. clip' \in Nat /\ UNCHANGED <<course, rend, undo, redo, live, drag, draft, edits, mixed>>
    BY <1>1, <1>4 DEF RemoveFromShelf
  <2> QED BY <2>4, <2>5, <2>6, AsideKeeps
<1> QED BY <1>2, <1>3, <1>4 DEF EdShelf

\* Sending keeps it: whatever turns the button off, or ends without turning it on,
\* leaves an answer to come.
LEMMA SendKeeps == EdParts /\ EdSend => EdParts'
<1> SUFFICES ASSUME EdParts, EdSend PROVE EdParts' OBVIOUS
<1>1. /\ send \in [on : BOOLEAN, flying : Nat, sent : Nat, asked : Nat]
      /\ send.on \in BOOLEAN /\ send.flying \in Nat /\ send.sent \in Nat /\ send.asked \in Nat
  BY DEF EdParts, EdButton
<1>2. clip \in Nat /\ shelf \in Seq(Nat \ {0}) BY DEF EdParts, EdTyped
<1>3. CASE BuildCourse
  <2>1. send' = [send EXCEPT !.on = FALSE, !.flying = send.flying + 1, !.sent = send.sent + 1]
    BY <1>3 DEF BuildCourse, Sending
  <2> DEFINE f == send.flying + 1
             n == send.sent + 1
  <2>3. f \in Nat /\ f > 0 /\ n \in Nat BY <1>1
  <2>4. send' = [send EXCEPT !.on = FALSE, !.flying = f, !.sent = n] BY <2>1
  <2> HIDE DEF f, n
  <2>5. send' \in [on : BOOLEAN, flying : Nat, sent : Nat, asked : Nat] /\ send'.flying = f BY <1>1, <2>3, <2>4
  <2>2. EdButton' BY <2>3, <2>5 DEF EdButton
  <2> QED BY <1>2, <1>3, <2>2, AsideKeeps DEF BuildCourse
<1>4. CASE BuildAnswered
  <2>1. PICK lit \in {TRUE, send.on} :
          send' = [send EXCEPT !.on = lit, !.flying = send.flying - 1, !.asked = send.asked + 1]
    BY <1>4 DEF BuildAnswered
  <2> DEFINE f == send.flying - 1
             a == send.asked + 1
  <2>2. lit \in BOOLEAN
    <3>1. send.on \in BOOLEAN BY <1>1
    <3> QED BY <3>1, Zenon
  <2>4. f \in Nat /\ a \in Nat /\ a > 0 BY <1>1, <1>4 DEF BuildAnswered
  <2>5. send' = [send EXCEPT !.on = lit, !.flying = f, !.asked = a] BY <2>1
  <2> HIDE DEF f, a
  <2>6. send' \in [on : BOOLEAN, flying : Nat, sent : Nat, asked : Nat] /\ send'.asked = a BY <1>1, <2>2, <2>4, <2>5
  <2>3. EdButton' BY <2>4, <2>6 DEF EdButton
  <2> QED BY <1>2, <1>4, <2>3, AsideKeeps DEF BuildAnswered
<1>5. CASE QuotaComes
  <2>1. send' = [send EXCEPT !.on = TRUE, !.asked = send.asked - 1] /\ send.asked - 1 \in Nat
    BY <1>1, <1>5 DEF QuotaComes
  <2>2. EdButton' BY <1>1, <2>1 DEF EdButton
  <2> QED BY <1>2, <1>5, <2>2, AsideKeeps DEF QuotaComes
<1>6. CASE Restyle
  <2>1. EdButton' BY <1>6, ReportedButton DEF Restyle, EdParts
  <2> QED BY <1>2, <1>6, <2>1, AsideKeeps DEF Restyle
<1> QED BY <1>3, <1>4, <1>5, <1>6 DEF EdSend

\* Back through the undo stack and forward through the other is one line.
LEMMA OneLine ==
  ASSUME NEW S, NEW u \in Seq(S), NEW r \in Seq(S), NEW now \in S, \A x \in S : x.no \in Nat, InOrder(u, now.no, r)
  PROVE  LET line == Append(u, now) \o Reverse(r)
         IN \A i, j \in 1..Len(line) : i < j => line[i].no < line[j].no
<1> DEFINE p == Append(u, now)
           q == Reverse(r)
           m == Len(u)
           k == Len(r)
           line == p \o q
<1>1. m \in Nat /\ k \in Nat BY LenProperties
<1>2. p \in Seq(S) /\ Len(p) = m + 1 /\ p[m + 1] = now /\ \A i \in 1..m : p[i] = u[i] /\ u[i] \in S
  BY AppendProperties
<1>3. q = [i \in 1..k |-> r[(k - i) + 1]] BY DEF Reverse
<1>4. \A i \in 1..k : (k - i) + 1 \in 1..k /\ r[(k - i) + 1] \in S BY <1>1
<1>5. q \in Seq(S) /\ Len(q) = k /\ \A i \in 1..k : q[i] = r[(k - i) + 1] BY <1>1, <1>3, <1>4
<1> HIDE DEF p, q, m, k
<1>6. Len(line) = m + 1 + k /\ \A i \in 1..(m + 1 + k) : line[i] = IF i <= m + 1 THEN p[i] ELSE q[i - (m + 1)]
  <2>1. /\ Len(p \o q) = Len(p) + Len(q)
        /\ \A i \in 1..(Len(p) + Len(q)) : (p \o q)[i] = IF i <= Len(p) THEN p[i] ELSE q[i - Len(p)]
    BY <1>2, <1>5, ConcatProperties
  <2>2. Len(p) = m + 1 /\ Len(q) = k BY <1>2, <1>5
  <2> QED BY <2>1, <2>2
<1> HIDE DEF line
<1>7. \A i \in 1..m : line[i] = u[i] /\ u[i] \in S BY <1>1, <1>2, <1>6
<1>8. line[m + 1] = now BY <1>1, <1>2, <1>6
<1>9. \A i \in (m + 2)..(m + 1 + k) :
        k - (i - (m + 1)) + 1 \in 1..k /\ line[i] = r[k - (i - (m + 1)) + 1] /\ r[k - (i - (m + 1)) + 1] \in S
  <2> SUFFICES ASSUME NEW i \in (m + 2)..(m + 1 + k)
               PROVE  k - (i - (m + 1)) + 1 \in 1..k /\ line[i] = r[k - (i - (m + 1)) + 1] /\ r[k - (i - (m + 1)) + 1] \in S
    OBVIOUS
  <2>1. i - (m + 1) \in 1..k /\ i \in 1..(m + 1 + k) /\ ~(i <= m + 1) BY <1>1
  <2> QED BY <1>4, <1>5, <1>6, <2>1
<1>10. /\ \A i, j \in 1..m : i < j => u[i].no < u[j].no
       /\ \A i, j \in 1..k : i < j => r[j].no < r[i].no
       /\ \A i \in 1..m : u[i].no < now.no
       /\ \A i \in 1..k : now.no < r[i].no
  BY DEF InOrder, m, k
<1>11. ASSUME NEW i \in 1..Len(line), NEW j \in 1..Len(line), i < j PROVE line[i].no < line[j].no
  <2>0. i \in 1..(m + 1 + k) /\ j \in 1..(m + 1 + k) BY <1>6
  <2>1. CASE i <= m /\ j <= m BY <1>1, <1>7, <1>10, <1>11, <2>0, <2>1
  <2>2. CASE i <= m /\ j = m + 1 BY <1>1, <1>7, <1>8, <1>10, <2>0, <2>2
  <2>3. CASE i <= m /\ j > m + 1
    <3> DEFINE b == k - (j - (m + 1)) + 1
    <3>1. j \in (m + 2)..(m + 1 + k) /\ i \in 1..m BY <1>1, <2>0, <2>3
    <3>2. b \in 1..k /\ line[j] = r[b] /\ r[b] \in S BY <1>9, <3>1
    <3> HIDE DEF b
    <3>3. u[i].no < now.no /\ now.no < r[b].no /\ line[i] = u[i] /\ u[i] \in S BY <1>7, <1>10, <3>1, <3>2
    <3>4. u[i].no \in Nat /\ now.no \in Nat /\ r[b].no \in Nat BY <3>2, <3>3
    <3> QED BY <3>2, <3>3, <3>4
  <2>4. CASE i = m + 1 /\ j > m + 1
    <3> DEFINE b == k - (j - (m + 1)) + 1
    <3>1. j \in (m + 2)..(m + 1 + k) BY <1>1, <2>0, <2>4
    <3>2. b \in 1..k /\ line[j] = r[b] BY <1>9, <3>1
    <3> HIDE DEF b
    <3> QED BY <1>8, <1>10, <2>4, <3>2
  <2>5. CASE i > m + 1 /\ j > m + 1
    <3> DEFINE a == k - (i - (m + 1)) + 1
               b == k - (j - (m + 1)) + 1
    <3>1. j \in (m + 2)..(m + 1 + k) /\ i \in (m + 2)..(m + 1 + k) BY <1>1, <2>0, <2>5
    <3>2. b \in 1..k /\ line[j] = r[b] /\ a \in 1..k /\ line[i] = r[a] BY <1>9, <3>1
    <3>3. b < a BY <1>1, <1>11, <2>0
    <3> HIDE DEF a, b
    <3> QED BY <1>10, <3>2, <3>3
  <2>6. \/ i <= m /\ j <= m
        \/ i <= m /\ j = m + 1
        \/ i <= m /\ j > m + 1
        \/ i = m + 1 /\ j > m + 1
        \/ i > m + 1 /\ j > m + 1
    <3>1. i \in Int /\ j \in Int /\ m \in Int /\ i < j BY <1>1, <1>11, <2>0
    <3> QED BY <3>1
  <2> QED BY <2>1, <2>2, <2>3, <2>4, <2>5, <2>6
<1> QED BY <1>11 DEF line, p, q

\* The invariant says what the editor promises.
LEMMA EdSays == EdParts => EditorSound
<1> SUFFICES ASSUME EdParts PROVE EditorSound OBVIOUS
<1>1. SelectionInside
  <2>1. course \in Good(edits) /\ undo \in Seq(Good(edits)) /\ redo \in Seq(Good(edits)) BY DEF EdParts, EdTyped
  <2>2. Range(undo) \subseteq Good(edits) /\ Range(redo) \subseteq Good(edits) BY <2>1 DEF Range
  <2>3. \A c \in {course} \cup Range(undo) \cup Range(redo) : c.n \in 1..SegCap /\ c.sel \in 0..c.n
    BY <2>1, <2>2, GoodHas
  <2> QED BY <2>3 DEF SelectionInside, EdParts, EdTyped, Selected
<1>2. DraftKept BY DEF DraftKept, EdParts, EdTyped
<1>3. ASSUME ~mixed
      PROVE  LET line == Append(undo, Shown) \o Reverse(redo)
             IN \A i, j \in 1..Len(line) : i < j => line[i].no < line[j].no
  <2>1. Shown \in Good(edits) /\ undo \in Seq(Good(edits)) /\ redo \in Seq(Good(edits))
    BY DEF EdParts, EdTyped, Shown
  <2>2. \A x \in Good(edits) : x.no \in Nat BY GoodHas
  <2>3. InOrder(undo, Shown.no, redo) BY <1>3 DEF EdParts, EdOrder
  <2> QED BY <2>1, <2>2, <2>3, OneLine
<1>4. UndoOrder BY <1>3 DEF UndoOrder, Shown
<1>5. ButtonReturns BY DEF ButtonReturns, EdParts, EdButton
<1> QED BY <1>1, <1>2, <1>4, <1>5 DEF EditorSound

\* The editor keeps its promises through every edit.
LEMMA EditorAlways == EdSpec => []EditorSound
<1>1. EdInit => EdParts
  <2> SUFFICES ASSUME EdInit PROVE EdParts OBVIOUS
  <2>1. 2 \in 1..SegCap /\ 0 \in 0..2 /\ 0 \in 0..0 BY EditorAssumption DEF EditorAssumption
  <2>2. course \in Good(0) BY <2>1, GoodIs DEF EdInit
  <2>3. draft \in [n : 1..SegCap, no : 0..0] BY <2>1 DEF EdInit
  <2>4. Len(<<>>) = 0 OBVIOUS
  <2>5. EdTyped
    <3>1. undo \in Seq(Good(edits)) /\ redo \in Seq(Good(edits)) /\ shelf \in Seq(Nat \ {0}) BY DEF EdInit
    <3>2. course \in Good(edits) /\ edits \in Nat /\ draft \in [n : 1..SegCap, no : 0..edits] BY <2>2, <2>3 DEF EdInit
    <3>3. course.n = 2 /\ course.no = 0 /\ rend = 0 /\ rend \in 0..2 BY DEF EdInit
    <3>4. draft = [n |-> course.n, no |-> course.no] BY <3>3 DEF EdInit
    <3> QED BY <3>1, <3>2, <3>3, <3>4 DEF EdInit, EdTyped
  <2>6. EdOrder BY <2>4 DEF EdInit, EdOrder, InOrder
  <2>7. EdButton BY DEF EdInit, EdButton
  <2> QED BY <2>5, <2>6, <2>7 DEF EdParts
<1>2. EdParts /\ [EdNext]_edVars => EdParts'
  <2> SUFFICES ASSUME EdParts, [EdNext]_edVars PROVE EdParts' OBVIOUS
  <2>1. CASE UNCHANGED edVars
    <3>1. Shown' = Shown BY <2>1 DEF edVars, Shown
    <3> QED BY <2>1, <3>1 DEF edVars, EdParts, EdTyped, EdOrder, EdButton
  <2>2. CASE EdCore
    <3>1. CASE \E control \in {"insp", "bar", "title"} : LiveEdit(control) BY <3>1, LiveKeeps
    <3>2. CASE Change
      <4>1. live # NoBase BY <3>2 DEF Change, EdParts, EdTyped
      <4> QED BY <3>2, <4>1, EndLiveKeeps DEF Change
    <3> QED BY <2>2, <3>1, <3>2, UndoKeeps, RedoKeeps, OperationKeeps, SelectKeeps, ReopenKeeps DEF EdCore
  <2>3. CASE EdClipboard BY <2>3, ShelfKeeps, OperationKeeps DEF EdClipboard
  <2>4. CASE EdShelf BY <2>4, ShelfKeeps
  <2>5. CASE EdSend BY <2>5, SendKeeps
  <2> QED BY <2>1, <2>2, <2>3, <2>4, <2>5 DEF EdNext
<1> QED BY <1>1, <1>2, EdSays, PTL DEF EdSpec

-----------------------------------------------------------------------------
(* The dealer of random_map.                                               *)

Cells == Int \X Int
Cursors == [at : Cells, step : 0..3]
Pieces == [cells : SUBSET Cells, from : Cursors]
DealtRoutes == [placed : Seq(Pieces), cursor : Cursors, progress : Int, budget : 0..Budget, drawn : Nat,
           finished : BOOLEAN, bare : BOOLEAN]

\* Two steps ahead do not lead back.
LEMMA AheadAway ==
  ASSUME NEW c \in Cells, NEW s \in 0..3
  PROVE  /\ Ahead1(c, s) \in Cells /\ Ahead1(c, s) # c
         /\ Ahead1(Ahead1(c, s), s) # c
<1>1. PICK x \in Int, y \in Int : c = <<x, y>> BY DEF Cells
<1>2. CASE s = 0 BY <1>1, <1>2 DEF Ahead1, Cells
<1>3. CASE s = 1 BY <1>1, <1>3 DEF Ahead1, Cells
<1>4. CASE s = 2 BY <1>1, <1>4 DEF Ahead1, Cells
<1>5. CASE s = 3 BY <1>1, <1>5 DEF Ahead1, Cells
<1> QED BY <1>2, <1>3, <1>4, <1>5

\* A piece hands over to a cell from which the way on does not lead back.
LEMMA ExitAway ==
  ASSUME NEW c \in Cursors, NEW i \in DOMAIN Tiles
  PROVE  ExitOf(c, Tiles[i]) \in Cursors /\ NotBack(c, ExitOf(c, Tiles[i]))
<1>1. c.at \in Cells /\ c.step \in 0..3 BY DEF Cursors
<1>2. Tiles[i].turn \in {0, 1, 3}
  <2>1. i \in {1, 2, 3} BY DEF Tiles
  <2> QED BY <2>1 DEF Tiles
<1> DEFINE s == (c.step + Tiles[i].turn) % 4
<1>3. s \in 0..3 BY <1>1, <1>2
<1>4. ExitOf(c, Tiles[i]) = [at |-> Ahead1(c.at, s), step |-> s] BY DEF ExitOf
<1> HIDE DEF s
<1>5. Ahead1(c.at, s) \in Cells /\ Ahead1(c.at, s) # c.at /\ Ahead1(Ahead1(c.at, s), s) # c.at
  BY <1>1, <1>3, AheadAway
<1>6. ExitOf(c, Tiles[i]).at = Ahead1(c.at, s) /\ ExitOf(c, Tiles[i]).step = s BY <1>4
<1>7. NotBack(c, ExitOf(c, Tiles[i])) BY <1>5, <1>6 DEF NotBack
<1>8. ExitOf(c, Tiles[i]) \in Cursors BY <1>3, <1>4, <1>5 DEF Cursors
<1> QED BY <1>7, <1>8

\* What a route keeps to: no cell twice, none on the platform, and its chain.
Sound(d) ==
  /\ d \in DealtRoutes /\ Len(d.placed) <= MaxTiles /\ d.progress \in -1..(Len(d.placed) - 1) /\ Chained(d)
  /\ \A i \in DOMAIN d.placed :
       /\ Pad \notin d.placed[i].cells
       /\ \A j \in DOMAIN d.placed : i # j => d.placed[i].cells \cap d.placed[j].cells = {}

\* What fits beside the last piece, and not on the way back, touches no piece.
LEMMA FitsAside ==
  ASSUME NEW d, Sound(d), ~d.finished, NEW cells \in SUBSET Cells, Fits(d, cells),
         cells \subseteq {d.cursor.at, Ahead1(d.cursor.at, d.cursor.step)}
  PROVE  Pad \notin cells /\ \A i \in DOMAIN d.placed : d.placed[i].cells \cap cells = {}
<1>1. d.placed \in Seq(Pieces) /\ Len(d.placed) \in Nat /\ DOMAIN d.placed = 1..Len(d.placed)
  BY DEF Sound, DealtRoutes
<1>2. \A c \in cells : c # Pad /\ \A i \in 1..(Len(d.placed) - 1) : c \notin d.placed[i].cells
  BY DEF Fits, BoxClear
<1>3. ASSUME NEW i \in DOMAIN d.placed, NEW c \in cells PROVE c \notin d.placed[i].cells
  <2>1. CASE i # Len(d.placed) BY <1>1, <1>2, <2>1
  <2>2. CASE i = Len(d.placed)
    <3>1. d.placed # <<>> BY <1>1, <2>2
    <3>2. d.placed[i].cells = {d.placed[i].from.at} /\ NotBack(d.placed[i].from, d.cursor)
      BY <2>2, <3>1 DEF Sound, Chained
    <3> QED BY <3>2 DEF NotBack
  <2> QED BY <2>1, <2>2
<1> QED BY <1>2, <1>3

\* Placing such cells, and then going on or not, leaves a sound route.
LEMMA PlacedSound ==
  ASSUME NEW d, Sound(d), ~d.finished, NEW cells \in SUBSET Cells, Fits(d, cells), d.cursor.at \in cells,
         cells \subseteq {d.cursor.at, Ahead1(d.cursor.at, d.cursor.step)},
         NEW t \in DealtRoutes, t.placed = Append(d.placed, [cells |-> cells, from |-> d.cursor]),
         t.progress = d.progress, MaxTiles \in Int,
         \/ t.finished
         \/ cells = {d.cursor.at} /\ Len(d.placed) + 1 < MaxTiles /\ NotBack(d.cursor, t.cursor)
  PROVE  Sound(t)
<1> DEFINE p == d.placed
           q == t.placed
           n == [cells |-> cells, from |-> d.cursor]
<1>1. p \in Seq(Pieces) /\ Len(p) \in Nat /\ DOMAIN p = 1..Len(p) /\ d.cursor \in Cursors
      /\ d.progress \in -1..(Len(p) - 1) /\ d.progress \in Int
  BY DEF Sound, DealtRoutes
<1>2. n \in Pieces /\ n.cells = cells /\ n.from = d.cursor BY <1>1 DEF Pieces
<1>3. q = Append(p, n) OBVIOUS
<1>4. /\ Len(p) < MaxTiles /\ \A i \in DOMAIN p : p[i].from.at \in p[i].cells /\ p[i].cells = {p[i].from.at}
      /\ \A i \in 1..(Len(p) - 1) : NotBack(p[i].from, p[i + 1].from)
      /\ p # <<>> => NotBack(p[Len(p)].from, d.cursor)
      /\ \A i \in DOMAIN p : Pad \notin p[i].cells
      /\ \A i, j \in DOMAIN p : i # j => p[i].cells \cap p[j].cells = {}
  BY DEF Sound, Chained
<1>5. Pad \notin cells /\ \A i \in DOMAIN p : p[i].cells \cap cells = {} BY FitsAside
<1> HIDE DEF n, p, q
<1>6. /\ Len(q) = Len(p) + 1 /\ q[Len(p) + 1] = n /\ DOMAIN q = 1..(Len(p) + 1)
      /\ \A i \in 1..Len(p) : q[i] = p[i]
  BY <1>1, <1>2, <1>3
<1>7. \A i \in DOMAIN q : q[i].from.at \in q[i].cells
  BY <1>1, <1>2, <1>4, <1>6
<1>8. ASSUME NEW i \in 1..(Len(q) - 1) PROVE NotBack(q[i].from, q[i + 1].from)
  <2>1. CASE i < Len(p)
    <3>1. i \in 1..(Len(p) - 1) /\ i + 1 \in 1..Len(p) /\ i \in 1..Len(p) BY <1>1, <1>6, <2>1
    <3> QED BY <1>4, <1>6, <3>1
  <2>2. CASE ~(i < Len(p))
    <3>0. Len(q) = Len(p) + 1 /\ Len(p) \in Nat BY <1>1, <1>6
    <3>1. i = Len(p) /\ i \in 1..Len(p) BY <3>0, <2>2
    <3>2. p # <<>> BY <1>1, <3>1
    <3> QED BY <1>2, <1>4, <1>6, <3>1, <3>2
  <2> QED BY <2>1, <2>2
<1>9. ASSUME NEW i \in DOMAIN q PROVE Pad \notin q[i].cells
  BY <1>1, <1>2, <1>4, <1>5, <1>6
<1>10. ASSUME NEW i \in DOMAIN q, NEW j \in DOMAIN q, i # j PROVE q[i].cells \cap q[j].cells = {}
  <2>1. CASE i = Len(p) + 1
    <3>1. j \in 1..Len(p) BY <1>1, <1>6, <1>10, <2>1
    <3> QED BY <1>1, <1>2, <1>5, <1>6, <2>1, <3>1
  <2>2. CASE j = Len(p) + 1
    <3>1. i \in 1..Len(p) BY <1>1, <1>6, <1>10, <2>2
    <3> QED BY <1>1, <1>2, <1>5, <1>6, <2>2, <3>1
  <2>3. CASE i # Len(p) + 1 /\ j # Len(p) + 1
    <3>1. i \in 1..Len(p) /\ j \in 1..Len(p) BY <1>1, <1>6, <2>3
    <3> QED BY <1>1, <1>4, <1>6, <1>10, <3>1
  <2> QED BY <2>1, <2>2, <2>3
<1>11. ~t.finished => /\ Len(q) < MaxTiles /\ \A i \in DOMAIN q : q[i].cells = {q[i].from.at}
                      /\ NotBack(q[Len(q)].from, t.cursor)
  <2> SUFFICES ASSUME ~t.finished
               PROVE  /\ Len(q) < MaxTiles /\ \A i \in DOMAIN q : q[i].cells = {q[i].from.at}
                      /\ NotBack(q[Len(q)].from, t.cursor)
    OBVIOUS
  <2>1. cells = {d.cursor.at} /\ Len(p) + 1 < MaxTiles /\ NotBack(d.cursor, t.cursor) BY DEF p
  <2>2. Len(q) = Len(p) + 1 /\ q[Len(q)] = n BY <1>6
  <2>3. ASSUME NEW i \in DOMAIN q PROVE q[i].cells = {q[i].from.at}
    <3>1. CASE i = Len(p) + 1 BY <1>2, <1>6, <2>1, <3>1
    <3>2. CASE i # Len(p) + 1
      <4>1. i \in 1..Len(p) BY <1>1, <1>6, <3>2
      <4> QED BY <1>1, <1>4, <1>6, <4>1
    <3> QED BY <3>1, <3>2
  <2>4. NotBack(q[Len(q)].from, t.cursor) BY <1>2, <2>1, <2>2
  <2> QED BY <2>1, <2>2, <2>3, <2>4
<1>12. Chained(t) BY <1>7, <1>8, <1>11 DEF Chained, q
<1>13. Len(q) <= MaxTiles /\ t.progress \in -1..(Len(q) - 1) BY <1>1, <1>4, <1>6
<1> QED BY <1>9, <1>10, <1>12, <1>13 DEF Sound, q

\* What Undo leaves: the route before its last piece, from where that began.
LEMMA UndoneSound ==
  ASSUME NEW d, Sound(d), ~d.finished, d.budget > 0, MayRewind(d), MaxTiles \in Int, Budget \in Nat
  PROVE  /\ Sound(Undone(d)) /\ Undone(d).drawn = d.drawn
         /\ Undone(d).placed = SubSeq(d.placed, 1, Len(d.placed) - 1) /\ Len(Undone(d).placed) = Len(d.placed) - 1
<1> DEFINE p == d.placed
           t == Undone(d)
           q == t.placed
<1>1. p \in Seq(Pieces) /\ Len(p) \in Nat /\ DOMAIN p = 1..Len(p) /\ d \in DealtRoutes
      /\ d.progress \in -1..(Len(p) - 1) /\ d.progress \in Int /\ d.budget \in 0..Budget
  BY DEF Sound, DealtRoutes
<1>2. Len(p) - 1 > d.progress + 1 BY DEF MayRewind
<1>3. Len(p) - 1 \in Nat /\ Len(p) - 1 >= 1 BY <1>1, <1>2
<1>4. SubSeq(p, 1, Len(p) - 1) \in Seq(Pieces) /\ Last(p) = p[Len(p)] /\ p[Len(p)] \in Pieces
      /\ Len(SubSeq(p, 1, Len(p) - 1)) = Len(p) - 1
      /\ \A i \in 1..(Len(p) - 1) : SubSeq(p, 1, Len(p) - 1)[i] = p[i]
  BY <1>1, <1>3, SubSeqProperties DEF Last
<1>5. Last(p).from \in Cursors BY <1>4 DEF Pieces
<1>6. /\ t \in DealtRoutes /\ q = SubSeq(p, 1, Len(p) - 1) /\ t.cursor = Last(p).from
      /\ t.progress = d.progress /\ t.finished = d.finished /\ t.drawn = d.drawn
  <2>1. Front(p) = SubSeq(p, 1, Len(p) - 1) BY DEF Front
  <2>2. d.budget - 1 \in 0..Budget BY <1>1
  <2> HIDE DEF p
  <2>3. t = [d EXCEPT !.placed = Front(p), !.cursor = Last(p).from, !.budget = d.budget - 1]
    BY DEF Undone, p
  <2>5. Front(p) \in Seq(Pieces) BY <1>4, <2>1
  <2>6. LET e == [d EXCEPT !.placed = Front(p), !.cursor = Last(p).from, !.budget = d.budget - 1]
        IN e \in DealtRoutes /\ e.placed = Front(p) /\ e.cursor = Last(p).from /\ e.progress = d.progress
           /\ e.finished = d.finished /\ e.drawn = d.drawn
    <3> DEFINE a == Front(p)
               c == Last(p).from
               b == d.budget - 1
    <3>1. a \in Seq(Pieces) /\ c \in Cursors /\ b \in 0..Budget BY <2>2, <2>5, <1>5
    <3> HIDE DEF a, b, c
    <3>2. LET e == [d EXCEPT !.placed = a, !.cursor = c, !.budget = b]
          IN e \in DealtRoutes /\ e.placed = a /\ e.cursor = c /\ e.progress = d.progress
             /\ e.finished = d.finished /\ e.drawn = d.drawn
      BY <1>1, <3>1 DEF DealtRoutes
    <3> QED BY <3>2 DEF a, b, c
  <2> HIDE DEF t
  <2> QED BY <2>1, <2>3, <2>6
<1>7. /\ Len(p) < MaxTiles /\ Len(p) <= MaxTiles /\ \A i \in DOMAIN p : p[i].from.at \in p[i].cells /\ p[i].cells = {p[i].from.at}
      /\ \A i \in 1..(Len(p) - 1) : NotBack(p[i].from, p[i + 1].from)
      /\ \A i \in DOMAIN p : Pad \notin p[i].cells
      /\ \A i, j \in DOMAIN p : i # j => p[i].cells \cap p[j].cells = {}
  BY DEF Sound, Chained
<1> HIDE DEF p, t, q
<1>8. Len(q) = Len(p) - 1 /\ DOMAIN q = 1..(Len(p) - 1) /\ \A i \in 1..(Len(p) - 1) : q[i] = p[i] /\ i \in DOMAIN p
  BY <1>1, <1>3, <1>4, <1>6
<1>9. \A i \in 1..(Len(q) - 1) : NotBack(q[i].from, q[i + 1].from)
  <2>1. \A i \in 1..(Len(q) - 1) : i \in 1..(Len(p) - 1) /\ i + 1 \in 1..(Len(p) - 1) BY <1>3, <1>8
  <2> QED BY <1>7, <1>8, <2>1
<1>10. NotBack(q[Len(q)].from, t.cursor)
  <2>1. Len(p) - 1 \in 1..(Len(p) - 1) /\ Len(p) - 1 + 1 = Len(p) BY <1>1, <1>3
  <2>2. NotBack(p[Len(p) - 1].from, p[Len(p)].from) BY <1>7, <2>1
  <2>3. q[Len(q)] = p[Len(p) - 1] BY <1>8, <2>1
  <2>4. t.cursor = p[Len(p)].from BY <1>4, <1>6
  <2> QED BY <2>2, <2>3, <2>4
<1>11. /\ Len(q) < MaxTiles /\ Len(q) <= MaxTiles /\ t.progress \in -1..(Len(q) - 1)
  BY <1>1, <1>2, <1>6, <1>7, <1>8
<1>12. Chained(t)
  <2>1. \A i \in DOMAIN q : q[i].from.at \in q[i].cells /\ q[i].cells = {q[i].from.at} BY <1>7, <1>8
  <2> QED BY <1>9, <1>10, <1>11, <2>1 DEF Chained, q
<1>13. /\ \A i \in DOMAIN q : Pad \notin q[i].cells
       /\ \A i, j \in DOMAIN q : i # j => q[i].cells \cap q[j].cells = {}
  BY <1>7, <1>8
<1>14. Sound(t) BY <1>6, <1>11, <1>12, <1>13 DEF Sound, q
<1> QED BY <1>6, <1>8, <1>14 DEF t, q, p

\* The invariant, by dealers.
LEMMA DealByDealer ==
  ASSUME deal \in [Dealers -> DealtRoutes], \A k \in Dealers : Sound(deal[k]) /\ deal[k].drawn <= Len(seed),
         seed \in Seq(Rolls), MaxTiles \in Int
  PROVE  RouteSound
<1>1. ASSUME NEW k \in Dealers
      PROVE  /\ deal[k].progress \in -1..MaxTiles /\ deal[k].budget \in 0..Budget
             /\ deal[k].drawn \in 0..Len(seed) /\ deal[k].finished \in BOOLEAN /\ deal[k].bare \in BOOLEAN
             /\ Len(deal[k].placed) <= MaxTiles
  <2>1. deal[k] \in DealtRoutes /\ Len(deal[k].placed) <= MaxTiles /\ deal[k].progress \in -1..(Len(deal[k].placed) - 1)
    BY DEF Sound
  <2>2. Len(deal[k].placed) \in Nat /\ deal[k].progress \in Int BY <2>1 DEF DealtRoutes
  <2>3. deal[k].progress \in -1..MaxTiles BY <2>1, <2>2
  <2>4. deal[k].drawn \in 0..Len(seed) BY <2>1 DEF DealtRoutes
  <2> QED BY <2>1, <2>3, <2>4 DEF DealtRoutes
<1>2. DealTypeOK BY <1>1 DEF DealTypeOK
<1> QED BY <1>2 DEF RouteSound, Sound

DealParts ==
  /\ seed \in Seq(Rolls) /\ deal \in [Dealers -> DealtRoutes]
  /\ \A k \in Dealers : Sound(deal[k]) /\ deal[k].drawn <= Len(seed)

\* One dealer's turn.
LEMMA OneDeals ==
  ASSUME DealParts, NEW k \in Dealers, NEW t, t \in DealtRoutes, Sound(t), deal' = [deal EXCEPT ![k] = t],
         \/ UNCHANGED seed /\ t.drawn <= Len(seed)
         \/ seed' \in Seq(Rolls) /\ Len(seed') = Len(seed) + 1 /\ t.drawn <= Len(seed) + 1
  PROVE  DealParts'
<1>1. deal' \in [Dealers -> DealtRoutes] /\ deal'[k] = t /\ \A j \in Dealers : j # k => deal'[j] = deal[j]
  BY DEF DealParts
<1>2. seed' \in Seq(Rolls) /\ t.drawn <= Len(seed') /\ Len(seed') >= Len(seed) /\ Len(seed) \in Nat /\ Len(seed') \in Nat
  <2>1. Len(seed) \in Nat /\ seed \in Seq(Rolls) BY DEF DealParts
  <2>2. CASE UNCHANGED seed /\ t.drawn <= Len(seed) BY <2>1, <2>2
  <2>3. CASE seed' \in Seq(Rolls) /\ Len(seed') = Len(seed) + 1 /\ t.drawn <= Len(seed) + 1 BY <2>1, <2>3
  <2> QED BY <2>2, <2>3
<1>3. ASSUME NEW j \in Dealers PROVE Sound(deal'[j]) /\ deal'[j].drawn <= Len(seed')
  <2>1. CASE j = k BY <1>1, <1>2, <2>1
  <2>2. CASE j # k
    <3>1. deal'[j] = deal[j] /\ Sound(deal[j]) /\ deal[j].drawn <= Len(seed) /\ deal[j].drawn \in Nat
      BY <1>1, <2>2 DEF DealParts, DealtRoutes
    <3> QED BY <1>2, <3>1
  <2> QED BY <2>1, <2>2
<1>4. \A j \in Dealers : Sound(deal'[j]) /\ deal'[j].drawn <= Len(seed') BY <1>3
<1> QED BY <1>1, <1>2, <1>4 DEF DealParts, Sound

\* Every turn keeps the invariant, and the floor.
LEMMA DealKeeps ==
  ASSUME DealParts, DealNext
  PROVE  /\ DealParts'
         /\ \A k \in Dealers : LET p == deal[k].placed  q == deal'[k].placed IN
              Len(q) >= Len(p) \/ (Len(q) >= deal[k].progress + 2 /\ q = SubSeq(p, 1, Len(q)))
<1> DEFINE Floor(a, b) == Len(b.placed) >= Len(a.placed)
                          \/ (Len(b.placed) >= a.progress + 2 /\ b.placed = SubSeq(a.placed, 1, Len(b.placed)))
<1>0. MaxTiles \in Int /\ MaxTiles > 1 /\ Budget \in Nat BY DealerAssumption DEF DealerAssumption
<1>1. PICK k \in Dealers : DealStep(k) BY DEF DealNext
<1> DEFINE d == deal[k]
<1>2. /\ d \in DealtRoutes /\ Sound(d) /\ d.drawn <= Len(seed) /\ d.drawn \in Nat /\ Len(seed) \in Nat
      /\ d.placed \in Seq(Pieces) /\ Len(d.placed) \in Nat /\ d.cursor \in Cursors /\ d.cursor.at \in Cells
      /\ d.cursor.step \in 0..3 /\ d.progress \in Int /\ seed \in Seq(Rolls) /\ d.finished \in BOOLEAN
  BY DEF DealParts, DealtRoutes, Cursors
<1>3. SUFFICES ASSUME TRUE
      PROVE  \E t \in DealtRoutes :
               /\ Sound(t) /\ Floor(d, t) /\ deal' = [deal EXCEPT ![k] = t]
               /\ \/ UNCHANGED seed /\ t.drawn <= Len(seed)
                  \/ seed' \in Seq(Rolls) /\ Len(seed') = Len(seed) + 1 /\ t.drawn <= Len(seed) + 1
  <2>1. PICK t \in DealtRoutes :
               /\ Sound(t) /\ Floor(d, t) /\ deal' = [deal EXCEPT ![k] = t]
               /\ \/ UNCHANGED seed /\ t.drawn <= Len(seed)
                  \/ seed' \in Seq(Rolls) /\ Len(seed') = Len(seed) + 1 /\ t.drawn <= Len(seed) + 1
    BY <1>3
  <2>2. DealParts' BY <2>1, OneDeals
  <2>3. ASSUME NEW j \in Dealers PROVE Floor(deal[j], deal'[j])
    <3>1. CASE j = k BY <2>1, <3>1 DEF DealParts
    <3>2. CASE j # k
      <4>1. deal'[j] = deal[j] /\ deal[j] \in DealtRoutes BY <2>1, <3>2 DEF DealParts
      <4>2. Len(deal[j].placed) \in Nat BY <4>1 DEF DealtRoutes
      <4> QED BY <4>1, <4>2
    <3> QED BY <3>1, <3>2
  <2> QED BY <2>2, <2>3
<1> HIDE DEF d
<1>4. ASSUME NEW roll \in Rolls, Extend(k, roll)
      PROVE  \E t \in DealtRoutes :
               /\ Sound(t) /\ Floor(d, t) /\ deal' = [deal EXCEPT ![k] = t]
               /\ \/ UNCHANGED seed /\ t.drawn <= Len(seed)
                  \/ seed' \in Seq(Rolls) /\ Len(seed') = Len(seed) + 1 /\ t.drawn <= Len(seed) + 1
  <2>1. PICK i \in Candidates(d) : deal' = [deal EXCEPT ![k] = Dealt(d, Tiles[i])] BY <1>4 DEF Extend, d
  <2> DEFINE c == ExitOf(d.cursor, Tiles[i])
             u == Place(d, {d.cursor.at}, c)
             t == Dealt(d, Tiles[i])
  <2>2. i \in DOMAIN Tiles /\ Fits(d, {d.cursor.at}) BY <2>1 DEF Candidates
  <2>3. c \in Cursors /\ NotBack(d.cursor, c) BY <1>2, <2>2, ExitAway
  <2> HIDE DEF c
  <2>4. ~d.finished /\ Len(d.placed) + 1 < MaxTiles
    BY <1>0, <1>2, <1>4 DEF Extend, Idle, Stuck, Ending, d
  <2>5. {d.cursor.at} \in SUBSET Cells /\ [cells |-> {d.cursor.at}, from |-> d.cursor] \in Pieces
    BY <1>2 DEF Pieces
  <2>6. Append(d.placed, [cells |-> {d.cursor.at}, from |-> d.cursor]) \in Seq(Pieces) BY <1>2, <2>5
  <2>7. /\ u \in DealtRoutes /\ u.placed = Append(d.placed, [cells |-> {d.cursor.at}, from |-> d.cursor])
        /\ u.cursor = c /\ u.progress = d.progress /\ u.drawn = d.drawn
    BY <1>2, <2>3, <2>6 DEF Place, DealtRoutes
  <2>8. t = [u EXCEPT !.drawn = d.drawn + 1] BY DEF Dealt, c
  <2> HIDE DEF u, t
  <2>9. /\ t \in DealtRoutes /\ t.placed = Append(d.placed, [cells |-> {d.cursor.at}, from |-> d.cursor])
        /\ t.cursor = c /\ t.progress = d.progress /\ t.drawn = d.drawn + 1
    <3> DEFINE w == d.drawn + 1
    <3>1. w \in Nat BY <1>2
    <3> HIDE DEF w
    <3>2. t = [u EXCEPT !.drawn = w] BY <2>8 DEF w
    <3>3. t \in DealtRoutes BY <2>7, <3>1, <3>2 DEF DealtRoutes
    <3>4. t.placed = u.placed /\ t.cursor = u.cursor /\ t.progress = u.progress /\ t.drawn = w
      BY <2>7, <3>2 DEF DealtRoutes
    <3> QED BY <2>7, <3>3, <3>4 DEF w
  <2>10. Sound(t)
    <3> DEFINE cells == {d.cursor.at}
    <3>1. cells \in SUBSET Cells /\ Fits(d, cells) /\ d.cursor.at \in cells
          /\ cells \subseteq {d.cursor.at, Ahead1(d.cursor.at, d.cursor.step)}
          /\ t.placed = Append(d.placed, [cells |-> cells, from |-> d.cursor])
          /\ cells = {d.cursor.at} /\ Len(d.placed) + 1 < MaxTiles /\ NotBack(d.cursor, t.cursor)
      BY <2>2, <2>3, <2>4, <2>5, <2>9
    <3> HIDE DEF cells
    <3> QED BY <1>0, <1>2, <2>4, <2>9, <3>1, PlacedSound
  <2>11. Floor(d, t) BY <1>2, <2>5, <2>9, AppendProperties
  <2>12. \/ UNCHANGED seed /\ t.drawn <= Len(seed)
         \/ seed' \in Seq(Rolls) /\ Len(seed') = Len(seed) + 1 /\ t.drawn <= Len(seed) + 1
    <3>1. CASE d.drawn < Len(seed)
      <4>1. UNCHANGED seed BY <1>4, <3>1 DEF Extend, d
      <4> QED BY <1>2, <2>9, <3>1, <4>1
    <3>2. CASE ~(d.drawn < Len(seed))
      <4>1. seed' = Append(seed, roll) BY <1>4, <3>2 DEF Extend, d
      <4>2. seed' \in Seq(Rolls) /\ Len(seed') = Len(seed) + 1 BY <1>2, <4>1
      <4> QED BY <1>2, <2>9, <4>2
    <3> QED BY <3>1, <3>2
  <2> QED BY <2>1, <2>9, <2>10, <2>11, <2>12 DEF t
<1>5. ASSUME TryFinish(k)
      PROVE  \E t \in DealtRoutes :
               /\ Sound(t) /\ Floor(d, t) /\ deal' = [deal EXCEPT ![k] = t]
               /\ UNCHANGED seed /\ t.drawn <= Len(seed)
  <2> DEFINE cells == Runout(d)
             n == [cells |-> cells, from |-> d.cursor]
             u == Place(d, cells, d.cursor)
             t == [u EXCEPT !.finished = TRUE]
  <2>1. ~d.finished /\ Runouts(d) # {} /\ deal' = [deal EXCEPT ![k] = t] /\ UNCHANGED seed
    BY <1>5 DEF TryFinish, Idle, d
  <2>2. Fits(d, cells) /\ cells \in {{d.cursor.at}, Long(d)}
    BY <2>1 DEF Runout, Runouts
  <2>3. Ahead1(d.cursor.at, d.cursor.step) \in Cells BY <1>2, AheadAway
  <2>4. cells \in SUBSET Cells /\ d.cursor.at \in cells
        /\ cells \subseteq {d.cursor.at, Ahead1(d.cursor.at, d.cursor.step)}
    BY <1>2, <2>2, <2>3 DEF Long
  <2> HIDE DEF cells
  <2>5. n \in Pieces BY <1>2, <2>4 DEF Pieces
  <2> HIDE DEF n
  <2>6. Append(d.placed, n) \in Seq(Pieces) /\ Len(Append(d.placed, n)) = Len(d.placed) + 1 BY <1>2, <2>5
  <2>7. u = [d EXCEPT !.placed = Append(d.placed, n), !.cursor = d.cursor] BY DEF Place, n
  <2> HIDE DEF u
  <2>8. u \in DealtRoutes /\ u.placed = Append(d.placed, n) /\ u.progress = d.progress /\ u.drawn = d.drawn
    BY <1>2, <2>6, <2>7 DEF DealtRoutes
  <2> HIDE DEF t
  <2>9. /\ t \in DealtRoutes /\ t.placed = Append(d.placed, n) /\ t.progress = d.progress /\ t.drawn = d.drawn
        /\ t.finished
    BY <2>8 DEF DealtRoutes, t
  <2>10. Sound(t)
    <3>1. t.placed = Append(d.placed, [cells |-> cells, from |-> d.cursor]) BY <2>9 DEF n
    <3> QED BY <1>0, <1>2, <2>1, <2>2, <2>4, <2>9, <3>1, PlacedSound
  <2>11. Floor(d, t) BY <1>2, <2>6, <2>9
  <2> QED BY <1>2, <2>1, <2>9, <2>10, <2>11
<1>6. ASSUME Rewind(k)
      PROVE  \E t \in DealtRoutes :
               /\ Sound(t) /\ Floor(d, t) /\ deal' = [deal EXCEPT ![k] = t]
               /\ UNCHANGED seed /\ t.drawn <= Len(seed)
  <2>1. ~d.finished /\ d.budget > 0 /\ MayRewind(d) /\ deal' = [deal EXCEPT ![k] = Undone(d)] /\ UNCHANGED seed
    BY <1>6 DEF Rewind, Idle, d
  <2>2. /\ Sound(Undone(d)) /\ Undone(d).drawn = d.drawn
        /\ Undone(d).placed = SubSeq(d.placed, 1, Len(d.placed) - 1) /\ Len(Undone(d).placed) = Len(d.placed) - 1
    BY <1>0, <1>2, <2>1, UndoneSound
  <2>3. Len(d.placed) - 1 >= d.progress + 2 BY <1>2, <2>1 DEF MayRewind
  <2>4. Floor(d, Undone(d)) BY <2>2, <2>3
  <2>5. Undone(d) \in DealtRoutes BY <2>2 DEF Sound
  <2> QED BY <1>2, <2>1, <2>2, <2>4, <2>5
<1>7. ASSUME NEW t \in DealtRoutes, t.placed = d.placed, t.cursor = d.cursor, t.finished \in {d.finished, TRUE},
             t.progress \in -1..(Len(d.placed) - 1), t.drawn = d.drawn
      PROVE  Sound(t) /\ Floor(d, t) /\ t.drawn <= Len(seed)
  <2>1. Chained(t)
    <3>1. Chained(d) BY <1>2 DEF Sound
    <3> QED BY <1>7, <3>1 DEF Chained
  <2> QED BY <1>2, <1>7, <2>1 DEF Sound
<1>8. ASSUME BareFinish(k)
      PROVE  \E t \in DealtRoutes :
               /\ Sound(t) /\ Floor(d, t) /\ deal' = [deal EXCEPT ![k] = t]
               /\ UNCHANGED seed /\ t.drawn <= Len(seed)
  <2> DEFINE t == [d EXCEPT !.finished = TRUE, !.bare = TRUE]
  <2>1. deal' = [deal EXCEPT ![k] = t] /\ UNCHANGED seed
    BY <1>8, <1>2 DEF BareFinish, d, DealParts, DealtRoutes
  <2>2. d.progress \in -1..(Len(d.placed) - 1) BY <1>2 DEF Sound
  <2>3. /\ t \in DealtRoutes /\ t.placed = d.placed /\ t.cursor = d.cursor /\ t.finished = TRUE
        /\ t.progress \in -1..(Len(d.placed) - 1) /\ t.drawn = d.drawn
    BY <1>2, <2>2 DEF DealtRoutes
  <2> HIDE DEF t
  <2> QED BY <1>7, <2>1, <2>3
<1>9. ASSUME NEW to \in 0..MaxTiles, Walk(k, to)
      PROVE  \E t \in DealtRoutes :
               /\ Sound(t) /\ Floor(d, t) /\ deal' = [deal EXCEPT ![k] = t]
               /\ UNCHANGED seed /\ t.drawn <= Len(seed)
  <2> DEFINE t == [d EXCEPT !.progress = to, !.budget = Budget]
  <2>1. deal' = [deal EXCEPT ![k] = t] /\ UNCHANGED seed
    BY <1>9, <1>2 DEF Walk, d, DealParts, DealtRoutes
  <2>2. to \in -1..(Len(d.placed) - 1) /\ to \in Int
    <3>1. to \in (d.progress + 1)..(Len(d.placed) - 1) BY <1>9 DEF Walk, d
    <3>2. d.progress >= -1 BY <1>2 DEF Sound
    <3> QED BY <1>0, <1>2, <3>1, <3>2
  <2>3. Budget \in 0..Budget BY <1>0
  <2>4. /\ t \in DealtRoutes /\ t.placed = d.placed /\ t.cursor = d.cursor /\ t.finished = d.finished
        /\ t.progress = to /\ t.drawn = d.drawn
    BY <1>2, <2>2, <2>3 DEF DealtRoutes
  <2> HIDE DEF t
  <2>5. t.progress \in -1..(Len(d.placed) - 1) BY <2>2, <2>4
  <2> QED BY <1>7, <2>1, <2>4, <2>5
<1> QED BY <1>1, <1>4, <1>5, <1>6, <1>8, <1>9 DEF DealStep

\* DealtRoutes always are sound, and the floor is always kept.
LEMMA DealAlways == DealSpec => []RouteSound /\ FloorKept
<1>1. DealInit => DealParts
  <2> SUFFICES ASSUME DealInit PROVE DealParts OBVIOUS
  <2> DEFINE r == [placed |-> <<>>, cursor |-> Begin, progress |-> -1, budget |-> Budget,
                   drawn |-> 0, finished |-> FALSE, bare |-> FALSE]
  <2>1. Budget \in 0..Budget /\ MaxTiles > 1 /\ MaxTiles \in Int BY DealerAssumption DEF DealerAssumption
  <2>2. Begin \in Cursors BY DEF Begin, Cursors, Cells
  <2>3. <<>> \in Seq(Pieces) /\ Len(<<>>) = 0 OBVIOUS
  <2>4. r \in DealtRoutes BY <2>1, <2>2, <2>3 DEF DealtRoutes
  <2>5. r.placed = <<>> /\ r.progress = -1 /\ r.drawn = 0 OBVIOUS
  <2> HIDE DEF r
  <2>6. DOMAIN r.placed = {} /\ Len(r.placed) = 0 BY <2>5
  <2>7. Chained(r) BY <2>1, <2>5, <2>6 DEF Chained
  <2>8. Sound(r) BY <2>1, <2>4, <2>5, <2>6, <2>7 DEF Sound
  <2>9. seed = <<>> /\ deal = [k \in Dealers |-> r] BY DEF DealInit, r
  <2> QED BY <2>3, <2>4, <2>5, <2>8, <2>9 DEF DealParts
<1>2. DealParts /\ [DealNext]_dealVars => DealParts'
  <2>1. DealParts /\ UNCHANGED dealVars => DealParts' BY DEF DealParts, dealVars
  <2> QED BY <2>1, DealKeeps
<1>3. DealParts => RouteSound
  BY DealByDealer, DealerAssumption DEF DealParts, DealerAssumption
<1>4. DealParts /\ [DealNext]_dealVars =>
        [\A k \in Dealers : LET p == deal[k].placed  q == deal'[k].placed IN
           Len(q) >= Len(p) \/ (Len(q) >= deal[k].progress + 2 /\ q = SubSeq(p, 1, Len(q)))]_dealVars
  BY DealKeeps
<1> QED BY <1>1, <1>2, <1>3, <1>4, PTL DEF DealSpec, FloorKept

-----------------------------------------------------------------------------
(* The replay viewer.                                                      *)

\* A tick reads two frames of the recording, wherever the playback stands.
LEMMA TickOnRecord ==
  ASSUME ViewerInv, NEW d \in 1..2, tick(d)
  PROVE  pos' \in 0..End /\ frame' \in (0..Frames) \X (0..Frames) /\ OnRecord'
<1> USE FramesAssumption
<1>1. Frames \in Nat /\ Frames >= 2 /\ pos \in 0..End /\ End = 2 * (Frames - 1)
  BY DEF FramesAssumption, ViewerInv, End
<1>2. pos' \in 0..End BY <1>1 DEF tick
<1> DEFINE x == pos' \div 2
           i == IF x > Frames - 2 THEN Frames - 2 ELSE x
<1>3. frame' = <<i, IF pos' - 2 * i < 1 THEN i ELSE i + 1>> BY DEF tick
<1>4. x \in Nat
  <2>1. \A q \in Nat : q \div 2 \in Nat OBVIOUS
  <2>2. pos' \in Nat BY <1>1, <1>2
  <2> QED BY <2>1, <2>2
<1>5. i \in 0..(Frames - 2) BY <1>1, <1>4
<1> HIDE DEF i
<1>6. frame'[1] = i /\ frame'[2] \in {i, i + 1} BY <1>3
<1>7. frame' \in (0..Frames) \X (0..Frames) BY <1>1, <1>3, <1>5
<1> QED BY <1>1, <1>2, <1>5, <1>6, <1>7 DEF OnRecord

\* Every step of the viewer keeps its invariant.
LEMMA ViewerKeeps == ASSUME ViewerInv, [ViewerNext]_viewerVars PROVE ViewerInv'
<1> USE FramesAssumption
<1>1. CASE fetchGhost BY <1>1 DEF fetchGhost, ViewerInv, OnRecord, NothingDrawn
<1>2. CASE mountReplay
  <2>1. ~ctrlHeld /\ pig \in BOOLEAN BY <1>2 DEF mountReplay, ViewerInv
  <2> QED BY <1>2, <2>1 DEF mountReplay, setMode, ViewerInv, OnRecord, NothingDrawn
<1>3. CASE clickPlay BY <1>3 DEF clickPlay, ViewerInv, OnRecord, NothingDrawn
<1>4. CASE clickCam BY <1>4 DEF clickCam, setMode, ViewerInv, OnRecord, NothingDrawn
<1>5. CASE cleanup BY <1>5 DEF cleanup, ViewerInv, OnRecord, NothingDrawn
<1>6. ASSUME NEW d \in 1..2, tick(d) PROVE ViewerInv'
  <2>1. pos' \in 0..End /\ frame' \in (0..Frames) \X (0..Frames) /\ OnRecord' BY <1>6, TickOnRecord
  <2> QED BY <1>6, <2>1 DEF tick, ViewerInv, NothingDrawn
<1>7. ASSUME NEW x \in 0..End, dragSeek(x) PROVE ViewerInv'
  BY <1>7 DEF dragSeek, ViewerInv, OnRecord, NothingDrawn
<1>8. ASSUME NEW down \in BOOLEAN, onKey(down) PROVE ViewerInv'
  BY <1>8 DEF onKey, ViewerInv, OnRecord, NothingDrawn
<1>9. CASE onBlur BY <1>9 DEF onBlur, ViewerInv, OnRecord, NothingDrawn
<1>10. CASE onFocus BY <1>10 DEF onFocus, ViewerInv, OnRecord, NothingDrawn
<1>11. CASE loadNext
  <2>1. phase \notin {"ghost", "mesh", "failed"} BY <1>11 DEF loadNext, ViewerInv
  <2> QED BY <1>11, <2>1 DEF loadNext, ViewerInv, OnRecord, NothingDrawn
<1>12. CASE loadGltfFails
  <2>1. phase \notin {"ghost", "mesh", "failed"} BY <1>12 DEF loadGltfFails, Files, ViewerInv
  <2> QED BY <1>12, <2>1 DEF loadGltfFails, ViewerInv, OnRecord, NothingDrawn
<1>13. CASE loadModels
  <2>1. phase \notin {"ghost", "mesh", "failed"} BY <1>13 DEF loadModels, ViewerInv
  <2> QED BY <1>13, <2>1 DEF loadModels, setMode, ViewerInv, OnRecord, NothingDrawn
<1>14. CASE UNCHANGED viewerVars BY <1>14 DEF viewerVars, ViewerInv, OnRecord, NothingDrawn
<1> QED
  BY <1>1, <1>2, <1>3, <1>4, <1>5, <1>6, <1>7, <1>8, <1>9, <1>10, <1>11, <1>12, <1>13, <1>14 DEF ViewerNext

\* The viewer always is sound.
LEMMA ViewerAlways == ViewerSpec => []ViewerSound
<1>1. ViewerInit => ViewerInv
  <2> SUFFICES ASSUME ViewerInit PROVE ViewerInv OBVIOUS
  <2>1. Frames \in Nat /\ Frames >= 2 BY FramesAssumption DEF FramesAssumption
  <2>2. 0 \in 0..End /\ NoFrame \in (0..Frames) \X (0..Frames) BY <2>1 DEF End, NoFrame
  <2>3. NoFrame[1] + 1 <= Frames - 1 /\ NoFrame[2] <= Frames - 1 BY <2>1 DEF NoFrame
  <2> QED BY <2>2, <2>3 DEF ViewerInit, ViewerInv, OnRecord, NothingDrawn
<1>2. ViewerInv /\ [ViewerNext]_viewerVars => ViewerInv' BY ViewerKeeps
<1>3. ViewerInv => ViewerSound
  BY DEF ViewerInv, ViewerSound, OneBody, OrbitIsHeld, Rendered
<1> QED BY <1>1, <1>2, <1>3, PTL DEF ViewerSpec

-----------------------------------------------------------------------------
(* The cached reads (ReadApi): what the queries read.                      *)

IsQuery(q) == \E S : q \in Seq(S)
\* No statement reads the perfect-run memo; and none a table the rebuild swaps in.
NoMemo(q) == \A i \in DOMAIN q : "memo" \notin q[i]
BaseTables(q) == NoMemo(q) /\ \A i \in DOMAIN q : q[i] \cap Derived = {}
\* Only the perfect run reads the memo.
MemoIsPerfect(q) == \A i \in DOMAIN q : "memo" \in q[i] => q[i] = perfectRun[1]
Fine(q) == IsQuery(q) /\ NoMemo(q)

\* The statements a query is written with make a query.
LEMMA TuplesAreQueries ==
  /\ \A a : IsQuery(<<a>>)
  /\ \A a, b : IsQuery(<<a, b>>)
  /\ \A a, b, c : IsQuery(<<a, b, c>>)
  /\ \A a, b, c, d : IsQuery(<<a, b, c, d>>)
  /\ \A a, b, c, d, e : IsQuery(<<a, b, c, d, e>>)
  /\ \A a, b, c, d, e, f, g, h, i, j : IsQuery(<<a, b, c, d, e, f, g, h, i, j>>)
  /\ \A a, b, c, d, e, f, g, h, i, j, k : IsQuery(<<a, b, c, d, e, f, g, h, i, j, k>>)
<1>1. \A a : <<a>> \in Seq({a}) OBVIOUS
<1>2. \A a, b : <<a, b>> \in Seq({a, b}) OBVIOUS
<1>3. \A a, b, c : <<a, b, c>> \in Seq({a, b, c}) OBVIOUS
<1>4. \A a, b, c, d : <<a, b, c, d>> \in Seq({a, b, c, d}) OBVIOUS
<1>5. \A a, b, c, d, e : <<a, b, c, d, e>> \in Seq({a, b, c, d, e}) OBVIOUS
<1>6. \A a, b, c, d, e, f, g, h, i, j :
        <<a, b, c, d, e, f, g, h, i, j>> \in Seq({a, b, c, d, e, f, g, h, i, j})
  OBVIOUS
<1>7. \A a, b, c, d, e, f, g, h, i, j, k :
        <<a, b, c, d, e, f, g, h, i, j, k>> \in Seq({a, b, c, d, e, f, g, h, i, j, k})
  OBVIOUS
<1>8. \A a : IsQuery(<<a>>) BY <1>1 DEF IsQuery
<1>9. \A a, b : IsQuery(<<a, b>>) BY <1>2 DEF IsQuery
<1>10. \A a, b, c : IsQuery(<<a, b, c>>) BY <1>3 DEF IsQuery
<1>11. \A a, b, c, d : IsQuery(<<a, b, c, d>>) BY <1>4 DEF IsQuery
<1>12. \A a, b, c, d, e : IsQuery(<<a, b, c, d, e>>) BY <1>5 DEF IsQuery
<1>13. \A a, b, c, d, e, f, g, h, i, j : IsQuery(<<a, b, c, d, e, f, g, h, i, j>>)
  BY <1>6 DEF IsQuery
<1>14. \A a, b, c, d, e, f, g, h, i, j, k : IsQuery(<<a, b, c, d, e, f, g, h, i, j, k>>)
  BY <1>7 DEF IsQuery
<1> QED BY <1>8, <1>9, <1>10, <1>11, <1>12, <1>13, <1>14

\* A query made of two reads what they read.
LEMMA QueryOfTwo ==
  ASSUME NEW a, NEW b, IsQuery(a), IsQuery(b)
  PROVE  /\ IsQuery(a \o b)
         /\ NoMemo(a) /\ NoMemo(b) => NoMemo(a \o b)
         /\ BaseTables(a) /\ BaseTables(b) => BaseTables(a \o b)
         /\ MemoIsPerfect(a) /\ MemoIsPerfect(b) => MemoIsPerfect(a \o b)
         /\ ~NoMemo(b) => ~NoMemo(a \o b)
<1>1. PICK S : a \in Seq(S) BY DEF IsQuery
<1>2. PICK T : b \in Seq(T) BY DEF IsQuery
<1>3. a \in Seq(S \cup T) /\ b \in Seq(S \cup T) BY <1>1, <1>2
<1>4. a \o b \in Seq(S \cup T) BY <1>3
<1>5. /\ Len(a) \in Nat /\ Len(b) \in Nat /\ DOMAIN a = 1..Len(a) /\ DOMAIN b = 1..Len(b)
      /\ DOMAIN (a \o b) = 1..(Len(a) + Len(b))
  BY <1>3
<1>6. \A i \in DOMAIN (a \o b) :
        (\E j \in DOMAIN a : (a \o b)[i] = a[j]) \/ (\E j \in DOMAIN b : (a \o b)[i] = b[j])
  <2> SUFFICES ASSUME NEW i \in DOMAIN (a \o b)
               PROVE  (\E j \in DOMAIN a : (a \o b)[i] = a[j]) \/ (\E j \in DOMAIN b : (a \o b)[i] = b[j])
    OBVIOUS
  <2>1. CASE i <= Len(a)
    <3>1. i \in DOMAIN a /\ (a \o b)[i] = a[i] BY <1>3, <1>5, <2>1
    <3> QED BY <3>1
  <2>2. CASE ~(i <= Len(a))
    <3>1. i - Len(a) \in DOMAIN b /\ (a \o b)[i] = b[i - Len(a)] BY <1>3, <1>5, <2>2
    <3> QED BY <3>1
  <2> QED BY <2>1, <2>2
<1>7. \A j \in DOMAIN b : Len(a) + j \in DOMAIN (a \o b) /\ (a \o b)[Len(a) + j] = b[j]
  BY <1>3, <1>5
<1>8. IsQuery(a \o b) BY <1>4 DEF IsQuery
<1>9. NoMemo(a) /\ NoMemo(b) => NoMemo(a \o b) BY <1>6 DEF NoMemo
<1>10. BaseTables(a) /\ BaseTables(b) => BaseTables(a \o b) BY <1>6, <1>9 DEF BaseTables
<1>11. MemoIsPerfect(a) /\ MemoIsPerfect(b) => MemoIsPerfect(a \o b) BY <1>6 DEF MemoIsPerfect
<1>12. ~NoMemo(b) => ~NoMemo(a \o b) BY <1>7 DEF NoMemo
<1> QED BY <1>8, <1>9, <1>10, <1>11, <1>12

\* So a query made of two that leave the memo alone leaves it alone.
LEMMA FineOfTwo ==
  /\ \A a, b : Fine(a) /\ Fine(b) => Fine(a \o b)
  /\ \A a, b : IsQuery(a) /\ IsQuery(b) /\ BaseTables(a) /\ BaseTables(b) => BaseTables(a \o b)
BY QueryOfTwo DEF Fine

\* The queries written as one list leave the memo alone.
LEMMA ShortQueries ==
  /\ Fine(servers)
  /\ Fine(recentRecords)
  /\ Fine(recentFinishes)
  /\ Fine(gameTopscoresText)
  /\ Fine(gameRanksText)
  /\ Fine(playerSkillRating)
  /\ Fine(gameAwardsText)
  /\ Fine(ghostGzip)
  /\ Fine(maps)
  /\ Fine(demoMaps)
  /\ Fine(demosForMap)
  /\ Fine(players)
  /\ Fine(earnedAchievements)
  /\ Fine(playerTrophies)
  /\ Fine(playerDuels)
  /\ Fine(srDistribution)
  /\ Fine(playTimes)
  /\ Fine(runActivity)
  /\ Fine(blogList)
  /\ Fine(blogBySlug)
  /\ Fine(blogNeighbours)
  /\ Fine(blogSitemap)
  /\ Fine(sitemapUrls)
  /\ Fine(srBreakdown)
  /\ Fine(playerCard)
  /\ Fine(search)
  /\ Fine(recordsAfter)
  /\ Fine(blockedMaps)
  /\ Fine(blockedMapNames)
  /\ Fine(gameMapWeaponsText)
  /\ Fine(gameLastMapsText)
  /\ Fine(achievementsDirectory)
  /\ Fine(tournaments)
  /\ Fine(tournamentDetail)
  /\ Fine(gameTourneyText)
  /\ Fine(getSetting)
<1>1. Fine(servers) BY TuplesAreQueries DEF Fine, NoMemo, servers
<1>2. Fine(recentRecords) BY TuplesAreQueries DEF Fine, NoMemo, recentRecords
<1>3. Fine(recentFinishes) BY TuplesAreQueries DEF Fine, NoMemo, recentFinishes
<1>4. Fine(gameTopscoresText) BY TuplesAreQueries DEF Fine, NoMemo, gameTopscoresText
<1>5. Fine(gameRanksText) BY TuplesAreQueries DEF Fine, NoMemo, gameRanksText
<1>6. Fine(playerSkillRating) BY TuplesAreQueries DEF Fine, NoMemo, playerSkillRating
<1>7. Fine(gameAwardsText) BY TuplesAreQueries DEF Fine, NoMemo, gameAwardsText
<1>8. Fine(ghostGzip) BY TuplesAreQueries DEF Fine, NoMemo, ghostGzip
<1>9. Fine(maps) BY TuplesAreQueries DEF Fine, NoMemo, maps
<1>10. Fine(demoMaps) BY TuplesAreQueries DEF Fine, NoMemo, demoMaps
<1>11. Fine(demosForMap) BY TuplesAreQueries DEF Fine, NoMemo, demosForMap
<1>12. Fine(players) BY TuplesAreQueries DEF Fine, NoMemo, players
<1>13. Fine(earnedAchievements) BY TuplesAreQueries DEF Fine, NoMemo, earnedAchievements
<1>14. Fine(playerTrophies) BY TuplesAreQueries DEF Fine, NoMemo, playerTrophies
<1>15. Fine(playerDuels) BY TuplesAreQueries DEF Fine, NoMemo, playerDuels
<1>16. Fine(srDistribution) BY TuplesAreQueries DEF Fine, NoMemo, srDistribution
<1>17. Fine(playTimes) BY TuplesAreQueries DEF Fine, NoMemo, playTimes
<1>18. Fine(runActivity) BY TuplesAreQueries DEF Fine, NoMemo, runActivity
<1>19. Fine(blogList) BY TuplesAreQueries DEF Fine, NoMemo, blogList
<1>20. Fine(blogBySlug) BY TuplesAreQueries DEF Fine, NoMemo, blogBySlug
<1>21. Fine(blogNeighbours) BY TuplesAreQueries DEF Fine, NoMemo, blogNeighbours
<1>22. Fine(blogSitemap) BY TuplesAreQueries DEF Fine, NoMemo, blogSitemap
<1>23. Fine(sitemapUrls) BY TuplesAreQueries DEF Fine, NoMemo, sitemapUrls
<1>24. Fine(srBreakdown) BY TuplesAreQueries DEF Fine, NoMemo, srBreakdown
<1>25. Fine(playerCard) BY TuplesAreQueries DEF Fine, NoMemo, playerCard
<1>26. Fine(search) BY TuplesAreQueries DEF Fine, NoMemo, search
<1>27. Fine(recordsAfter) BY TuplesAreQueries DEF Fine, NoMemo, recordsAfter
<1>28. Fine(blockedMaps) BY TuplesAreQueries DEF Fine, NoMemo, blockedMaps
<1>29. Fine(blockedMapNames) BY TuplesAreQueries DEF Fine, NoMemo, blockedMapNames
<1>30. Fine(gameMapWeaponsText) BY TuplesAreQueries DEF Fine, NoMemo, gameMapWeaponsText
<1>31. Fine(gameLastMapsText) BY TuplesAreQueries DEF Fine, NoMemo, gameLastMapsText
<1>32. Fine(achievementsDirectory) BY TuplesAreQueries DEF Fine, NoMemo, achievementsDirectory
<1>33. Fine(tournaments) BY TuplesAreQueries DEF Fine, NoMemo, tournaments
<1>34. Fine(tournamentDetail) BY TuplesAreQueries DEF Fine, NoMemo, tournamentDetail
<1>35. Fine(gameTourneyText) BY TuplesAreQueries DEF Fine, NoMemo, gameTourneyText
<1>36. Fine(getSetting) BY TuplesAreQueries DEF Fine, NoMemo, getSetting
<1> QED BY <1>1, <1>2, <1>3, <1>4, <1>5, <1>6, <1>7, <1>8, <1>9, <1>10, <1>11, <1>12, <1>13, <1>14, <1>15, <1>16, <1>17, <1>18, <1>19, <1>20, <1>21, <1>22, <1>23, <1>24, <1>25, <1>26, <1>27, <1>28, <1>29, <1>30, <1>31, <1>32, <1>33, <1>34, <1>35, <1>36

\* The queries put together from others, but the map page's, too.
LEMMA LongQueries ==
  /\ Fine(overview) /\ Fine(gamePlayerRecordText) /\ Fine(gameGhostText) /\ Fine(allDemos)
  /\ Fine(playerDetail) /\ Fine(compare) /\ Fine(playerAchievements)
  /\ Fine(blogBySlug \o blogNeighbours) /\ Fine(sitemapUrls \o blogSitemap)
<1>1. \A a, b : Fine(a) /\ Fine(b) => Fine(a \o b) BY FineOfTwo
<1>2. Fine(overview)
  <2>1. Fine(<<{"map", "map_block", "player", "standings", "race", "run_tally", "checkpoint", "map_index"}, {"race"}, {"standings", "player"}>>)
    BY TuplesAreQueries DEF Fine, NoMemo
  <2>2. Fine(<<{"config"}>>)
    BY TuplesAreQueries DEF Fine, NoMemo
  <2>3. Fine(<<{"map", "map_block", "player", "standings", "race", "run_tally", "checkpoint", "map_index"}, {"race"}, {"standings", "player"}>> \o recentRecords)
    BY <1>1, <2>1, <2>2, ShortQueries
  <2>4. Fine(<<{"map", "map_block", "player", "standings", "race", "run_tally", "checkpoint", "map_index"}, {"race"}, {"standings", "player"}>> \o recentRecords \o <<{"config"}>>)
    BY <1>1, <2>1, <2>2, <2>3, ShortQueries
  <2>5. Fine(<<{"map", "map_block", "player", "standings", "race", "run_tally", "checkpoint", "map_index"}, {"race"}, {"standings", "player"}>> \o recentRecords \o <<{"config"}>> \o servers)
    BY <1>1, <2>1, <2>2, <2>3, <2>4, ShortQueries
  <2> QED BY <2>5 DEF overview
<1>3. Fine(gamePlayerRecordText)
  <2>1. Fine(<<{"map"}>>)
    BY TuplesAreQueries DEF Fine, NoMemo
  <2>2. Fine(<<{"race", "player"}, {"checkpoint"}>>)
    BY TuplesAreQueries DEF Fine, NoMemo
  <2>3. Fine(<<{"map"}>> \o playerSkillRating)
    BY <1>1, <2>1, <2>2, ShortQueries
  <2>4. Fine(<<{"map"}>> \o playerSkillRating \o <<{"race", "player"}, {"checkpoint"}>>)
    BY <1>1, <2>1, <2>2, <2>3, ShortQueries
  <2> QED BY <2>4 DEF gamePlayerRecordText
<1>4. Fine(gameGhostText)
  <2>1. Fine(<<{"map"}>>)
    BY TuplesAreQueries DEF Fine, NoMemo
  <2> QED BY <1>1, <2>1, ShortQueries DEF gameGhostText
<1>5. Fine(allDemos)
  <2>1. Fine(<<{"player_demo", "player"}>>)
    BY TuplesAreQueries DEF Fine, NoMemo
  <2> QED BY <1>1, <2>1, ShortQueries DEF allDemos
<1>6. Fine(playerDetail)
  <2>1. Fine(<<{"player"}, {"standings"}, {"sr_history", "player"}, {"standings", "player"}, {"run_tally"}, {"finish"}, {"best", "map"}, {"best"}, {"best", "map", "run_tally"}, {"player_demo"}, {"player_ghost"}>>)
    BY TuplesAreQueries DEF Fine, NoMemo
  <2>2. Fine(<<{"player"}, {"standings"}, {"sr_history", "player"}, {"standings", "player"}, {"run_tally"}, {"finish"}, {"best", "map"}, {"best"}, {"best", "map", "run_tally"}, {"player_demo"}, {"player_ghost"}>> \o earnedAchievements)
    BY <1>1, <2>1, ShortQueries
  <2>3. Fine(<<{"player"}, {"standings"}, {"sr_history", "player"}, {"standings", "player"}, {"run_tally"}, {"finish"}, {"best", "map"}, {"best"}, {"best", "map", "run_tally"}, {"player_demo"}, {"player_ghost"}>> \o earnedAchievements \o playerTrophies)
    BY <1>1, <2>1, <2>2, ShortQueries
  <2>4. Fine(<<{"player"}, {"standings"}, {"sr_history", "player"}, {"standings", "player"}, {"run_tally"}, {"finish"}, {"best", "map"}, {"best"}, {"best", "map", "run_tally"}, {"player_demo"}, {"player_ghost"}>> \o earnedAchievements \o playerTrophies \o playerDuels)
    BY <1>1, <2>1, <2>2, <2>3, ShortQueries
  <2>5. Fine(<<{"player"}, {"standings"}, {"sr_history", "player"}, {"standings", "player"}, {"run_tally"}, {"finish"}, {"best", "map"}, {"best"}, {"best", "map", "run_tally"}, {"player_demo"}, {"player_ghost"}>> \o earnedAchievements \o playerTrophies \o playerDuels \o recentFinishes)
    BY <1>1, <2>1, <2>2, <2>3, <2>4, ShortQueries
  <2> QED BY <2>5 DEF playerDetail
<1>7. Fine(compare)
  <2>1. Fine(<<{"best"}, {"best", "map"}>>)
    BY TuplesAreQueries DEF Fine, NoMemo
  <2>2. Fine(playerCard \o playerCard)
    BY <1>1, <2>1, ShortQueries
  <2>3. Fine(playerCard \o playerCard \o <<{"best"}, {"best", "map"}>>)
    BY <1>1, <2>1, <2>2, ShortQueries
  <2> QED BY <2>3 DEF compare
<1>8. Fine(playerAchievements)
  <2>1. Fine(<<{"player"}>>)
    BY TuplesAreQueries DEF Fine, NoMemo
  <2>2. Fine(<<{"achievement"}, {"finish"}>>)
    BY TuplesAreQueries DEF Fine, NoMemo
  <2>3. Fine(<<{"player"}>> \o earnedAchievements)
    BY <1>1, <2>1, <2>2, ShortQueries
  <2>4. Fine(<<{"player"}>> \o earnedAchievements \o <<{"achievement"}, {"finish"}>>)
    BY <1>1, <2>1, <2>2, <2>3, ShortQueries
  <2> QED BY <2>4 DEF playerAchievements
<1>9. Fine(blogBySlug \o blogNeighbours) /\ Fine(sitemapUrls \o blogSitemap) BY <1>1, ShortQueries
<1> QED BY <1>2, <1>3, <1>4, <1>5, <1>6, <1>7, <1>8, <1>9

\* The map page ends with the perfect run, and that alone reads the memo.
LEMMA MapQuery ==
  /\ IsQuery(mapDetail) /\ MemoIsPerfect(mapDetail) /\ ~NoMemo(mapDetail)
  /\ perfectRun[1] \cap Derived = {}
<1>1. Fine(<<{"map"}, {"map_index"}, {"best", "player"}, {"player_demo"}, {"player_ghost"}, {"race", "player"}, {"checkpoint"}, {"player"}, {"player_demo", "player"}, {"player_ghost", "player"}>>)
  BY TuplesAreQueries DEF Fine, NoMemo
<1>2. Fine(<<{"map"}, {"map_index"}, {"best", "player"}, {"player_demo"}, {"player_ghost"}, {"race", "player"}, {"checkpoint"}, {"player"}, {"player_demo", "player"}, {"player_ghost", "player"}>> \o recentFinishes) BY <1>1, FineOfTwo, ShortQueries
<1>3. Fine(<<{"site_setting"}>>) BY TuplesAreQueries DEF Fine, NoMemo
<1>4. Fine(<<{"map"}, {"map_index"}, {"best", "player"}, {"player_demo"}, {"player_ghost"}, {"race", "player"}, {"checkpoint"}, {"player"}, {"player_demo", "player"}, {"player_ghost", "player"}>> \o recentFinishes \o <<{"site_setting"}>>) BY <1>2, <1>3, FineOfTwo
<1>5. IsQuery(perfectRun) /\ ~NoMemo(perfectRun) /\ MemoIsPerfect(perfectRun)
  BY TuplesAreQueries DEF perfectRun, NoMemo, MemoIsPerfect
<1>6. \A a : Fine(a) => IsQuery(a) /\ MemoIsPerfect(a) BY DEF Fine, NoMemo, MemoIsPerfect
<1>7. \A a : Fine(a) => /\ IsQuery(a \o perfectRun) /\ MemoIsPerfect(a \o perfectRun)
                        /\ ~NoMemo(a \o perfectRun)
  BY <1>5, <1>6, QueryOfTwo
<1>8. perfectRun[1] \cap Derived = {} BY DEF perfectRun, Derived
<1> QED BY <1>4, <1>7, <1>8 DEF mapDetail

\* The queries behind the keys that are evicted read no ranking table.
LEMMA PlainQueries ==
  /\ BaseTables(gameTopscoresText) /\ BaseTables(gameRanksText) /\ BaseTables(blockedMapNames)
  /\ BaseTables(blogList) /\ BaseTables(blogBySlug \o blogNeighbours)
<1>1. BaseTables(gameTopscoresText) BY ShortQueries DEF BaseTables, Fine, gameTopscoresText, Derived
<1>2. BaseTables(gameRanksText) BY ShortQueries DEF BaseTables, Fine, gameRanksText, Derived
<1>3. BaseTables(blockedMapNames) BY ShortQueries DEF BaseTables, Fine, blockedMapNames, Derived
<1>4. BaseTables(blogList) BY ShortQueries DEF BaseTables, Fine, blogList, Derived
<1>5. BaseTables(blogBySlug) BY ShortQueries DEF BaseTables, Fine, blogBySlug, Derived
<1>6. BaseTables(blogNeighbours) BY ShortQueries DEF BaseTables, Fine, blogNeighbours, Derived
<1>7. BaseTables(blogBySlug \o blogNeighbours) BY <1>5, <1>6, FineOfTwo, ShortQueries DEF Fine
<1> QED BY <1>1, <1>2, <1>3, <1>4, <1>7

\* The keys an eviction takes at once, and what is true of every route.
EvictedKeys == {"/api/game/topscores", "/api/game/ranks", "/game/blocked-maps",
                "/blog", "/blog?limit=10", "/blog/this", "/blog.xml"}
GoodRoute(r) ==
  /\ r.ttl \in Nat
  /\ Fine(r.query) \/ r.query = mapDetail
  /\ r.key \in EvictedKeys => BaseTables(r.query)

\* Every route of the read API is one.
LEMMA RoutesAreGood == \A r \in Routes : GoodRoute(r)
<1> USE DEF GoodRoute, Route, EvictedKeys
<1>1. \A r \in getOverview : GoodRoute(r) BY LongQueries, SMT DEF getOverview
<1>2. \A r \in getMapRoutes : GoodRoute(r) BY ShortQueries, SMT DEF getMapRoutes
<1>3. \A r \in getMap : GoodRoute(r) BY SMT DEF getMap
<1>4. \A r \in getDemos : GoodRoute(r) BY ShortQueries, LongQueries, SMT DEF getDemos
<1>5. \A r \in getStats : GoodRoute(r) BY ShortQueries, SMT DEF getStats
<1>6. \A r \in getBlog : GoodRoute(r)
  <2>1. \A r \in getBlog : r.ttl \in Nat /\ (r.query = blogList \/ r.query = blogBySlug \o blogNeighbours)
    BY SMT DEF getBlog
  <2> QED BY <2>1, ShortQueries, LongQueries, PlainQueries, Zenon
<1>7. \A r \in getPlayers : GoodRoute(r) BY ShortQueries, LongQueries, SMT DEF getPlayers
<1>8. \A r \in getTournaments : GoodRoute(r) BY ShortQueries, SMT DEF getTournaments
<1>9. \A r \in getLookups : GoodRoute(r) BY ShortQueries, LongQueries, SMT DEF getLookups
<1>10. \A r \in gameBoards : GoodRoute(r) BY ShortQueries, PlainQueries, SMT DEF gameBoards
<1>11. \A r \in gamePlayer : GoodRoute(r) BY ShortQueries, LongQueries, SMT DEF gamePlayer
<1>12. \A r \in gameLists : GoodRoute(r) BY ShortQueries, PlainQueries, SMT DEF gameLists
<1>13. \A r \in gameFeeds : GoodRoute(r) BY ShortQueries, SMT DEF gameFeeds
<1>14. \A r \in gameTexts : GoodRoute(r) BY ShortQueries, SMT DEF gameTexts
<1>15. \A r \in getFeedXml : GoodRoute(r) BY ShortQueries, PlainQueries, SMT DEF getFeedXml
<1>16. \A r \in getSitemaps : GoodRoute(r)
  <2>1. \A r \in getSitemaps :
          r.ttl \in Nat /\ r.key \notin EvictedKeys /\ r.query = sitemapUrls \o blogSitemap
    BY SMT DEF getSitemaps
  <2> QED BY <2>1, LongQueries, Zenon
<1> QED
  BY <1>1, <1>2, <1>3, <1>4, <1>5, <1>6, <1>7, <1>8, <1>9, <1>10, <1>11, <1>12, <1>13, <1>14, <1>15, <1>16
  DEF Routes

\* Of all that is written, the perfect run reads only what the ingest writes; and a
\* write that evicts at once evicts the key.
LEMMA WritesMeet ==
  ASSUME NEW w \in Writes
  PROVE  /\ perfectRun[1] \cap w.tables # {} => w = ingest
         /\ w = ingest => {"/api/game/topscores", "/api/game/ranks"} \subseteq w.evicts
         /\ w \in {blockMap, quarantine} => "/game/blocked-maps" \in w.evicts
         /\ w = blogEdit => {"/blog", "/blog?limit=10", "/blog/this", "/blog.xml"} \subseteq w.evicts
<1>1. perfectRun[1] = {"race", "checkpoint", "player", "memo"} BY DEF perfectRun
<1>2. \A v \in {blogEdit, blockMap, unblockMap, quarantine, setMapgenRated} : perfectRun[1] \cap v.tables = {}
  BY <1>1, SMT DEF blogEdit, blockMap, unblockMap, quarantine, setMapgenRated, Write
<1>3. \A v \in otherWrites : perfectRun[1] \cap v.tables = {}
  BY <1>1, SMT DEF otherWrites, Write
<1>4. {"/api/game/topscores", "/api/game/ranks"} \subseteq ingest.evicts
  BY SMT DEF ingest, Write, ranksCacheKey, topscoresCacheKey
<1>5. "/game/blocked-maps" \in blockMap.evicts /\ "/game/blocked-maps" \in quarantine.evicts
  BY SMT DEF blockMap, quarantine, Write
<1>6. {"/blog", "/blog?limit=10", "/blog/this", "/blog.xml"} \subseteq blogEdit.evicts
  BY SMT DEF blogEdit, invalidateBlog, Write
<1> QED BY <1>2, <1>3, <1>4, <1>5, <1>6 DEF Writes

\* The followed page has the statement s.
Reads(s) == \E i \in DOMAIN rdroute.query : s = rdroute.query[i]

\* What the followed route and write allow: a statement that reads the memo is the
\* perfect run, and no query behind a key evicted at once lags by itself.
LEMMA FollowedRoute ==
  ASSUME rdroute \in Routes, rdwrite \in Writes
  PROVE  /\ ttl \in Nat /\ DOMAIN rdroute.query \subseteq Nat \ {0}
         /\ Len(rdroute.query) \in Nat
         /\ RebuildLag \in {0, 30} /\ MemoLag \in {0, 300}
         /\ AtOnce => rdroute.key \in rdwrite.evicts /\ RebuildLag = 0 /\ MemoLag = 0
         /\ \A s : Reads(s) =>
              /\ rdwrite.rebuild /\ s \cap Derived # {} => RebuildLag = 30
              /\ AtOnce => s \cap Derived = {} /\ "memo" \notin s
              /\ "memo" \in s => s \cap Derived = {}
              /\ "memo" \in s /\ s \cap rdwrite.tables # {} => MemoLag = 300
<1>1. GoodRoute(rdroute) BY RoutesAreGood
<1>2. IsQuery(rdroute.query) BY <1>1, MapQuery DEF GoodRoute, Fine
<1>3. DOMAIN rdroute.query \subseteq Nat \ {0} /\ Len(rdroute.query) \in Nat
  <2>1. PICK S : rdroute.query \in Seq(S) BY <1>2 DEF IsQuery
  <2> QED BY <2>1
<1>4. ASSUME AtOnce PROVE rdroute.key \in EvictedKeys /\ rdroute.key \in rdwrite.evicts
  BY <1>4, WritesMeet DEF AtOnce, EvictedKeys
<1>5. ASSUME AtOnce PROVE BaseTables(rdroute.query) /\ rdroute.query # mapDetail
  BY <1>1, <1>4, <1>5, MapQuery DEF GoodRoute, BaseTables
<1>6. ASSUME NEW s, Reads(s), "memo" \in s
      PROVE  s = perfectRun[1] /\ rdroute.query = mapDetail
  BY <1>1, <1>6, MapQuery DEF Reads, GoodRoute, Fine, NoMemo, MemoIsPerfect
<1>7. RebuildLag \in {0, 30} /\ MemoLag \in {0, 300} BY DEF RebuildLag, MemoLag
<1>8. AtOnce => RebuildLag = 0 /\ MemoLag = 0 BY <1>5 DEF BaseTables, RebuildLag, MemoLag
<1>9. ASSUME NEW s, Reads(s)
      PROVE  /\ rdwrite.rebuild /\ s \cap Derived # {} => RebuildLag = 30
             /\ AtOnce => s \cap Derived = {} /\ "memo" \notin s
             /\ "memo" \in s => s \cap Derived = {}
             /\ "memo" \in s /\ s \cap rdwrite.tables # {} => MemoLag = 300
  <2>1. rdwrite.rebuild /\ s \cap Derived # {} => RebuildLag = 30 BY <1>9 DEF Reads, RebuildLag
  <2>2. AtOnce => s \cap Derived = {} /\ "memo" \notin s BY <1>5, <1>9 DEF Reads, BaseTables, NoMemo
  <2>3. "memo" \in s => s \cap Derived = {} BY <1>6, <1>9, MapQuery
  <2>4. "memo" \in s /\ s \cap rdwrite.tables # {} => MemoLag = 300
    BY <1>6, <1>9, WritesMeet DEF MemoLag
  <2> QED BY <2>1, <2>2, <2>3, <2>4
<1>10. ttl \in Nat BY <1>1 DEF GoodRoute, ttl
<1> QED BY <1>3, <1>4, <1>7, <1>8, <1>9, <1>10

\* A statement misses the write for as long as a table it reads has not got it.
LEMMA MissedBounds ==
  ASSUME NEW s
  PROVE  /\ Missed(s) \in {-1, 0, 30}
         /\ Missed(s) = 0 => s \cap rdwrite.tables # {} /\ "commit" \notin rdone
         /\ Missed(s) = 30 => rdwrite.rebuild /\ s \cap Derived # {}
<1> DEFINE A == IF s \cap rdwrite.tables # {} /\ "commit" \notin rdone THEN {0} ELSE {}
           B == IF rdwrite.rebuild /\ s \cap Derived # {} /\ "rebuild" \notin rdone THEN {30} ELSE {}
           M == {-1} \cup A \cup B
<1>1. Missed(s) = Max(M) BY DEF Missed, Whole, RefreshMaxWait
<1>2. M \subseteq {-1, 0, 30} /\ -1 \in M OBVIOUS
<1>3. 0 \in M => s \cap rdwrite.tables # {} /\ "commit" \notin rdone OBVIOUS
<1>4. 30 \in M => rdwrite.rebuild /\ s \cap Derived # {} OBVIOUS
<1> HIDE DEF M
<1>5. \E x \in M : \A y \in M : x >= y
  <2>1. CASE 30 \in M BY <1>2, <2>1
  <2>2. CASE 30 \notin M /\ 0 \in M BY <1>2, <2>2
  <2>3. CASE 30 \notin M /\ 0 \notin M BY <1>2, <2>3
  <2> QED BY <2>1, <2>2, <2>3
<1>6. Max(M) \in M BY <1>5 DEF Max
<1> QED BY <1>1, <1>2, <1>3, <1>4, <1>6

\* A copy shows the write if what it was made of does; else it is shown for no
\* longer than that plus its life, and before the second eviction a second plus it.
LEMMA CopyBounds ==
  ASSUME NEW x \in Int, NEW life \in Nat
  PROVE  /\ Copy(x, life) \in Int /\ Copy(x, life) >= -1
         /\ x < 0 => Copy(x, life) = -1
         /\ x >= 0 => Copy(x, life) <= x + life
         /\ x >= 0 /\ "sweep" \notin rdone => Copy(x, life) <= 1 + life
<1>1. CASE x < 0 BY <1>1 DEF Copy, Whole
<1>2. CASE ~(x < 0)
  <2>1. /\ Latest(x) \in Int /\ 0 <= Latest(x) /\ Latest(x) <= x
        /\ "sweep" \notin rdone => Latest(x) <= 1
    BY <1>2, MinMaxOfTwo DEF Latest, SweepDelay
  <2>2. Copy(x, life) = Latest(x) + life BY <1>2 DEF Copy
  <2> QED BY <1>2, <2>1, <2>2
<1> QED BY <1>1, <1>2

\* A tab keeps a copy for at most 15 seconds, and whoever keeps one shows it for at
\* most 30 while it is asked for again.
LEMMA Lifetimes == \A x \in Nat : MaxAge(x) \in 0..15 /\ Swr(x) \in 0..30
<1> SUFFICES ASSUME NEW x \in Nat PROVE MaxAge(x) \in 0..15 /\ Swr(x) \in 0..30 OBVIOUS
<1>1. Min({x, 15}) \in {x, 15} /\ Min({x, 15}) <= 15 BY MinMaxOfTwo
<1>2. Min({x, 30}) \in {x, 30} /\ Min({x, 30}) <= 30 BY MinMaxOfTwo
<1> QED BY <1>1, <1>2 DEF MaxAge, Swr

\* The lags do not change, as the route and the write do not.
LEMMA LagsStay ==
  ASSUME UNCHANGED <<rdroute, rdwrite>>
  PROVE  UNCHANGED <<ttl, RebuildLag, MemoLag, OriginLag, AtOnce>>
BY DEF ttl, RebuildLag, MemoLag, OriginLag, AtOnce

\* A statement keeps the invariant.
LEMMA StatementKeeps == ASSUME ReadInv, Statement PROVE ReadInv'
<1> DEFINE s == rdroute.query[fill.pc]
           hit == "memo" \in s /\ memo # NoCopy
           seen == IF hit THEN memo ELSE Missed(s)
           kept == IF "memo" \in s /\ ~hit THEN Copy(Missed(s), PerfectTtl) ELSE fill.keep
<1>1. /\ rdroute \in Routes /\ rdwrite \in Writes /\ fill \in [pc : Nat, old : Int, keep : Int]
      /\ memo \in Int /\ memo <= MemoLag /\ fill.keep <= MemoLag
      /\ Whole <= fill.old /\ fill.old <= RebuildLag + MemoLag
  BY DEF ReadInv
<1>2. Reads(s) BY DEF Statement, Reads
<1>3. /\ fill.pc \in Nat /\ fill.pc # 0
      /\ fill' = [pc |-> fill.pc + 1, old |-> Max({fill.old, seen}), keep |-> kept]
      /\ UNCHANGED <<rdroute, rdwrite, rdone, rdcache, edge, tab, memo>>
  BY <1>1, FollowedRoute DEF Statement
<1> HIDE DEF s
<1>4. /\ RebuildLag \in {0, 30} /\ MemoLag \in {0, 300}
      /\ rdwrite.rebuild /\ s \cap Derived # {} => RebuildLag = 30
      /\ AtOnce => s \cap Derived = {} /\ "memo" \notin s
      /\ "memo" \in s => s \cap Derived = {}
      /\ "memo" \in s /\ s \cap rdwrite.tables # {} => MemoLag = 300
  BY <1>1, <1>2, FollowedRoute
<1>5. /\ Missed(s) \in {-1, 0, 30}
      /\ Missed(s) = 0 => s \cap rdwrite.tables # {} /\ "commit" \notin rdone
      /\ Missed(s) = 30 => rdwrite.rebuild /\ s \cap Derived # {}
  BY MissedBounds
<1>6. Missed(s) <= RebuildLag /\ Missed(s) \in Int BY <1>4, <1>5
<1>7. seen \in Int /\ seen <= RebuildLag + MemoLag BY <1>1, <1>4, <1>6
<1>8. kept \in Int /\ kept <= MemoLag
  <2>1. CASE "memo" \in s /\ ~hit
    <3>1. Missed(s) \in {-1, 0} /\ (Missed(s) = 0 => MemoLag = 300) BY <1>4, <1>5, <2>1
    <3>2. 300 \in Nat OBVIOUS
    <3>3. Copy(-1, 300) = -1 /\ Copy(0, 300) \in Int /\ Copy(0, 300) <= 300
      BY <3>2, CopyBounds
    <3>4. Copy(Missed(s), 300) \in Int /\ Copy(Missed(s), 300) <= MemoLag
      BY <1>4, <3>1, <3>3
    <3> QED BY <2>1, <3>4 DEF PerfectTtl
  <2>2. CASE ~("memo" \in s /\ ~hit) BY <1>1, <2>2
  <2> QED BY <2>1, <2>2
<1>9. "sweep" \in rdone /\ AtOnce => seen = -1
  BY <1>4, <1>5 DEF ReadInv
<1> HIDE DEF seen, kept
<1>10. /\ Max({fill.old, seen}) \in {fill.old, seen}
       /\ Max({fill.old, seen}) >= fill.old /\ Max({fill.old, seen}) >= seen
  BY <1>1, <1>7, MinMaxOfTwo
<1>11. /\ fill' \in [pc : Nat, old : Int, keep : Int] /\ fill'.pc # 0
       /\ fill'.old = Max({fill.old, seen}) /\ fill'.keep = kept
  BY <1>1, <1>3, <1>7, <1>8, <1>10
<1>12. Whole <= fill'.old /\ fill'.old <= RebuildLag + MemoLag
  BY <1>1, <1>4, <1>7, <1>10, <1>11 DEF Whole
<1>13. "sweep" \in rdone /\ AtOnce => fill'.old = Whole
  BY <1>9, <1>10, <1>11 DEF Whole, ReadInv
<1>14. UNCHANGED <<ttl, RebuildLag, MemoLag, OriginLag, AtOnce>> BY <1>3, LagsStay
<1> HIDE DEF hit
<1> QED BY <1>3, <1>8, <1>11, <1>12, <1>13, <1>14 DEF ReadInv

\* Storing the answer keeps it.
LEMMA StoreKeeps == ASSUME ReadInv, StoreAnswer PROVE ReadInv'
<1>1. /\ rdroute \in Routes /\ rdwrite \in Writes /\ fill \in [pc : Nat, old : Int, keep : Int]
      /\ Whole <= fill.old /\ fill.old <= RebuildLag + MemoLag
  BY DEF ReadInv
<1>2. UNCHANGED <<rdroute, rdwrite>> BY DEF StoreAnswer
<1>3. ttl \in Nat /\ RebuildLag \in {0, 30} /\ MemoLag \in {0, 300} BY <1>1, FollowedRoute
<1>4. UNCHANGED <<ttl, RebuildLag, MemoLag, OriginLag, AtOnce>> BY <1>2, LagsStay
<1>5. rdcache' \in Int /\ rdcache' <= ttl + RebuildLag + MemoLag
  <2>1. fill.old \in Int /\ rdcache' = Copy(fill.old, ttl) BY <1>1 DEF StoreAnswer
  <2>2. ttl \in Nat BY <1>3
  <2>3. fill.old \in Int BY <1>1
  <2>4. /\ Copy(fill.old, ttl) \in Int /\ (fill.old < 0 => Copy(fill.old, ttl) = -1)
        /\ fill.old >= 0 => Copy(fill.old, ttl) <= fill.old + ttl
    BY <2>2, <2>3, CopyBounds, Zenon
  <2> QED BY <1>1, <1>3, <2>1, <2>4
<1>6. fill.old = Whole => rdcache' = Whole BY <1>1, <1>3, CopyBounds DEF StoreAnswer, Whole
<1>7. IdleFill \in [pc : Nat, old : Int, keep : Int] /\ IdleFill.pc = 0 /\ IdleFill.old = -1 /\ IdleFill.keep = -2
  BY DEF IdleFill, Whole, NoCopy
<1>8. memo' \in Int /\ memo' <= MemoLag BY DEF StoreAnswer, ReadInv
<1> QED BY <1>1, <1>3, <1>4, <1>5, <1>6, <1>7, <1>8 DEF StoreAnswer, ReadInv, Whole, NoCopy

\* The edge and the tab keep it.
LEMMA FetchKeeps == ASSUME ReadInv, EdgeFetch \/ TabFetch PROVE ReadInv'
<1>1. rdroute \in Routes /\ rdwrite \in Writes /\ rdcache \in Int /\ edge \in Int BY DEF ReadInv
<1>2. UNCHANGED <<rdroute, rdwrite, rdone, rdcache, memo, fill>> BY DEF EdgeFetch, TabFetch
<1>3. /\ ttl \in Nat /\ RebuildLag \in {0, 30} /\ MemoLag \in {0, 300}
      /\ AtOnce => RebuildLag = 0 /\ MemoLag = 0
  BY <1>1, FollowedRoute
<1>4. UNCHANGED <<ttl, RebuildLag, MemoLag, OriginLag, AtOnce>> BY <1>2, LagsStay
<1>5. OriginLag = (IF AtOnce THEN 1 ELSE ttl) + RebuildLag + MemoLag BY DEF OriginLag
<1>6. MaxAge(ttl) \in 0..15 /\ Swr(ttl) \in 0..30 BY <1>3, Lifetimes
<1>7. CASE EdgeFetch
  <2> DEFINE life == ttl + Swr(ttl)
  <2>1. life \in Nat /\ life <= ttl + 30 BY <1>3, <1>6
  <2>2. edge' = Copy(rdcache, life) BY <1>7 DEF EdgeFetch
  <2> HIDE DEF life
  <2>3. /\ edge' \in Int /\ (rdcache < 0 => edge' = -1)
        /\ rdcache >= 0 => edge' <= rdcache + life
        /\ rdcache >= 0 /\ "sweep" \notin rdone => edge' <= 1 + life
    BY <1>1, <2>1, <2>2, CopyBounds
  <2>4. rdcache <= ttl + RebuildLag + MemoLag BY DEF ReadInv
  <2>5. "sweep" \in rdone /\ AtOnce => rdcache < 0 BY DEF ReadInv, NoCopy, Whole
  <2>6. edge' <= OriginLag + ttl + 30 BY <1>1, <1>3, <1>5, <2>1, <2>3, <2>4, <2>5
  <2>7. UNCHANGED tab BY <1>7 DEF EdgeFetch
  <2> QED BY <1>2, <1>4, <2>3, <2>6, <2>7 DEF ReadInv
<1>8. CASE TabFetch
  <2> DEFINE life == MaxAge(ttl) + Swr(ttl)
  <2>1. life \in Nat /\ life <= 45 BY <1>3, <1>6
  <2>2. tab' = Copy(edge, life) BY <1>8 DEF TabFetch
  <2> HIDE DEF life
  <2>3. tab' \in Int /\ (edge < 0 => tab' = -1) /\ (edge >= 0 => tab' <= edge + life)
    BY <1>1, <2>1, <2>2, CopyBounds
  <2>4. edge <= OriginLag + ttl + 30 /\ OriginLag \in Nat BY <1>3, <1>5 DEF ReadInv
  <2>5. tab' <= OriginLag + ttl + 30 + 45 BY <1>1, <1>3, <2>1, <2>3, <2>4
  <2>6. UNCHANGED edge BY <1>8 DEF TabFetch
  <2> QED BY <1>2, <1>4, <2>3, <2>5, <2>6 DEF ReadInv
<1> QED BY <1>7, <1>8

\* An eviction keeps it, and the second one leaves no answer that misses the write.
LEMMA EvictKeeps ==
  ASSUME ReadInv, EvictKeys("evict", "commit") \/ EvictKeys("sweep", "evict") PROVE ReadInv'
<1>1. rdroute \in Routes /\ rdwrite \in Writes BY DEF ReadInv
<1>2. UNCHANGED <<rdroute, rdwrite, edge, tab, memo, fill>> BY DEF EvictKeys
<1>3. /\ ttl \in Nat /\ RebuildLag \in {0, 30} /\ MemoLag \in {0, 300}
      /\ AtOnce => rdroute.key \in rdwrite.evicts
  BY <1>1, FollowedRoute
<1>4. UNCHANGED <<ttl, RebuildLag, MemoLag, OriginLag, AtOnce>> BY <1>2, LagsStay
<1>5. rdcache' \in {NoCopy, rdcache} /\ (AtOnce => rdcache' = NoCopy) BY <1>3 DEF EvictKeys
<1>6. rdcache' \in Int /\ rdcache' <= ttl + RebuildLag + MemoLag BY <1>3, <1>5 DEF ReadInv, NoCopy
<1>7. /\ "evict" \in rdone' => "commit" \in rdone'
      /\ "sweep" \in rdone' => "evict" \in rdone'
      /\ "sweep" \in rdone' => "sweep" \in rdone \/ fill.pc = 0
  BY DEF EvictKeys, ReadInv
<1>8. "sweep" \in rdone' /\ AtOnce => fill.old = Whole BY <1>7 DEF ReadInv, IdleFill
<1> QED BY <1>2, <1>4, <1>5, <1>6, <1>7, <1>8 DEF ReadInv

\* Every step of the cached reads keeps their invariant.
LEMMA ReadKeeps == ReadInv /\ [ReadNext]_readVars => ReadInv'
<1> SUFFICES ASSUME ReadInv, [ReadNext]_readVars PROVE ReadInv' OBVIOUS
<1>1. rdroute \in Routes /\ rdwrite \in Writes BY DEF ReadInv
<1>2. ttl \in Nat /\ RebuildLag \in {0, 30} /\ MemoLag \in {0, 300} BY <1>1, FollowedRoute
<1>3. UNCHANGED <<rdroute, rdwrite>>
  BY DEF ReadNext, readVars, StartFill, Statement, StoreAnswer, EdgeFetch, TabFetch, CopyExpires, MemoDelete,
         CommitWrite, EvictKeys, Rebuild
<1>4. UNCHANGED <<ttl, RebuildLag, MemoLag, OriginLag, AtOnce>> BY <1>3, LagsStay
<1>5. CASE StartFill
  <2> DEFINE started == [IdleFill EXCEPT !.pc = 1]
  <2>1. /\ started \in [pc : Nat, old : Int, keep : Int]
        /\ started.pc = 1 /\ started.old = -1 /\ started.keep = -2
    BY DEF IdleFill, Whole, NoCopy
  <2>2. fill' = started /\ UNCHANGED <<rdone, rdcache, edge, tab, memo>> BY <1>5 DEF StartFill
  <2> HIDE DEF started
  <2> QED BY <1>2, <1>3, <1>4, <2>1, <2>2 DEF ReadInv, Whole
<1>6. CASE CopyExpires
  BY <1>2, <1>3, <1>4, <1>6 DEF CopyExpires, ReadInv, NoCopy
<1>7. CASE MemoDelete
  BY <1>2, <1>3, <1>4, <1>7 DEF MemoDelete, ReadInv, NoCopy
<1>8. CASE CommitWrite BY <1>3, <1>4, <1>8 DEF CommitWrite, ReadInv
<1>9. CASE Rebuild BY <1>3, <1>4, <1>9 DEF Rebuild, ReadInv
<1>10. CASE UNCHANGED readVars BY <1>3, <1>4, <1>10 DEF readVars, ReadInv
<1> QED
  BY <1>5, <1>6, <1>7, <1>8, <1>9, <1>10, StatementKeeps, StoreKeeps, FetchKeeps, EvictKeeps DEF ReadNext

\* The cached reads always are as fresh as promised.
LEMMA ReadsAlways == ReadSpec => []SiteFresh
<1>1. ReadInit => ReadInv
  <2> SUFFICES ASSUME ReadInit PROVE ReadInv OBVIOUS
  <2>1. rdroute \in Routes /\ rdwrite \in Writes BY DEF ReadInit
  <2>2. ttl \in Nat /\ RebuildLag \in {0, 30} /\ MemoLag \in {0, 300} BY <2>1, FollowedRoute
  <2>3. OriginLag \in Nat BY <2>2 DEF OriginLag
  <2>4. /\ IdleFill \in [pc : Nat, old : Int, keep : Int]
        /\ IdleFill.old = -1 /\ IdleFill.keep = -2 /\ IdleFill.pc = 0
    BY DEF IdleFill, Whole, NoCopy
  <2> QED BY <2>1, <2>2, <2>3, <2>4 DEF ReadInit, ReadInv, Whole, NoCopy
<1>2. ReadInv => SiteFresh
  <2> SUFFICES ASSUME ReadInv PROVE SiteFresh OBVIOUS
  <2>1. rdroute \in Routes /\ rdwrite \in Writes BY DEF ReadInv
  <2>2. ttl \in Nat /\ RebuildLag \in {0, 30} /\ MemoLag \in {0, 300} BY <2>1, FollowedRoute
  <2> QED BY <2>2 DEF ReadInv, SiteFresh, OriginLag
<1> QED BY <1>1, <1>2, ReadKeeps, PTL DEF ReadSpec

-----------------------------------------------------------------------------
(* The run's behaviours are behaviours of its parts, one at a time.        *)

\* Each part of a behaviour of MCSite follows the part's own specification.
LEMMA SiteHaveParts == SiteSpec => ReadSpec /\ PageSpec /\ EdSpec /\ DealSpec /\ ViewerSpec
<1>1. SiteInit => ReadInit /\ PageInit /\ EdInit /\ DealInit /\ ViewerInit BY DEF SiteInit
<1>2. [SiteNext]_siteVars => [PageNext]_pageVars
  BY DEF SiteNext, siteVars, EditorNext
<1>3. [SiteNext]_siteVars => [EdNext]_edVars
  BY DEF SiteNext, siteVars, EditorNext, EdNext
<1>4. [SiteNext]_siteVars => [DealNext]_dealVars
  BY DEF SiteNext, siteVars, EditorNext
<1>5. [SiteNext]_siteVars => [ViewerNext]_viewerVars
  BY DEF SiteNext, siteVars, EditorNext
<1>6. [SiteNext]_siteVars => [ReadNext]_readVars
  BY DEF SiteNext, siteVars, EditorNext
<1> QED
  BY <1>1, <1>2, <1>3, <1>4, <1>5, <1>6, PTL
  DEF SiteSpec, ReadSpec, PageSpec, EdSpec, DealSpec, ViewerSpec

\* An answer without a committed write is gone from Redis, from the edge and from a
\* tab within the sum of the lifetimes on the way, whatever statement of the query the
\* commit fell between (cache and invalidate in cache.js, the routes of server.js, the
\* queries of db.js).
THEOREM SiteStaysFresh ==
  /\ ReadSpec => []SiteFresh
  /\ SiteSpec => []SiteFresh
BY ReadsAlways, SiteHaveParts, PTL

\* In the browser, for every number of navigations, edits, pieces and frames: no
\* page is left to another page's timers or late answers, the editor's selection,
\* draft and undo stack are what the person did, a dealt route never crosses itself
\* or the spawn, and the replay viewer shows one body and draws nothing once it is
\* closed (router in app.js, mapgen-editor.js, random-dealer.js, replay.js).  With
\* none of the run's restrictions on the steps, and so with them.
THEOREM BrowserIsSound ==
  /\ PageSpec /\ EdSpec /\ DealSpec /\ ViewerSpec => []BrowserSound
  /\ SiteSpec => []BrowserSound
<1>1. PageSpec /\ EdSpec /\ DealSpec /\ ViewerSpec => []BrowserSound
  BY PagesAlways, EditorAlways, DealAlways, ViewerAlways, PTL DEF BrowserSound
<1> QED BY <1>1, SiteHaveParts, PTL

\* The dealer never takes the floor out from under a player: a piece somebody has
\* reached, and the one after it, are never undone (rewind in random-dealer.js).
THEOREM FloorIsKept ==
  /\ DealSpec => FloorKept
  /\ SiteSpec => FloorKept
BY DealAlways, SiteHaveParts, PTL
=============================================================================
