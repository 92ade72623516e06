------------------------------ MODULE MCIngest ------------------------------
(* Instances of Ingest for TLC.                                            *)
EXTENDS Ingest, TLC

E(p, t, c) == [player |-> p, time |-> t, count |-> c]
Body(v, m, live, es) ==
  [version |-> v, map |-> m, racelog |-> live, entries |-> es]

(* Two game versions, two maps, two players met in opposite orders.        *)
CrossRequest == "a" :> Body("v1", "m1", TRUE, <<E("p", 0, 2), E("q", 3, 1)>>)
             @@ "b" :> Body("v2", "m2", TRUE, <<E("q", 1, 1), E("p", 2, 1)>>)
             @@ "c" :> Body("v1", "m2", TRUE, <<E("q", 2, 1), E("p", 1, 1)>>)

(* The same players improving on one map, live and by a topscores re-sync. *)
SameRequest == "a" :> Body("v1", "m1", TRUE, <<E("p", 3, 1), E("p", 2, 1)>>)
            @@ "b" :> Body("v2", "m1", FALSE, <<E("q", 2, 1), E("p", 1, 1)>>)
            @@ "c" :> Body("v1", "m1", TRUE, <<E("q", 1, 1), E("p", 3, 1)>>)

(* Two identities of one canonical key, first seen at the same time.       *)
NewRequest == "a" :> Body("v1", "m1", TRUE, <<E("p", 2, 1)>>)
           @@ "b" :> Body("v2", "m2", TRUE, <<E("q", 2, 1)>>)
           @@ "c" :> Body("v1", "m2", TRUE, <<E("p", 1, 1)>>)

TxSymmetry == Permutations(Txs)   \* connections are interchangeable

SharedKey == [p \in {"p", "q"} |-> "key"]
=============================================================================
