----------------------------- MODULE SumTheorems -----------------------------
(***************************************************************************)
(* Least elements of sets of numbers, finite sets of triples, and sums     *)
(* over finite sets.                                                       *)
(*                                                                         *)
(* What is said of sums and least elements is induction over data, carried *)
(* out without an operator parameter: the subset order of a finite set and *)
(* the order of the natural numbers are well founded, so a set of          *)
(* counterexamples would have a least one (WFMin).                         *)
(***************************************************************************)
EXTENDS Integers, Functions, FiniteSets, FiniteSetTheorems, WellFoundedInduction, TLAPS

\* A set of natural numbers has a least element.
LEMMA LeastNat ==
  ASSUME NEW S \in SUBSET Nat, S # {} PROVE \E x \in S : \A y \in S : x <= y
<1>1. PICK x \in S : \A y \in S : ~(<<y, x>> \in OpToRel(<, Nat))
  BY NatLessThanWellFounded, WFMin
<1>2. \A y \in S : ~(y < x) BY <1>1 DEF OpToRel
<1> QED BY <1>2

\* The triples over finite sets are finitely many.
LEMMA TripleFinite ==
  ASSUME NEW A, NEW B, NEW C, IsFiniteSet(A), IsFiniteSet(B), IsFiniteSet(C)
  PROVE  IsFiniteSet(A \X B \X C)
<1> DEFINE S == A \X (B \X C)
           f == [q \in S |-> <<q[1], q[2][1], q[2][2]>>]
<1>1. IsFiniteSet(B \X C) BY FS_Product
<1>2. IsFiniteSet(S) BY <1>1, FS_Product
<1>3. f \in [S -> A \X B \X C] OBVIOUS
<1>4. f \in Surjection(S, A \X B \X C)
  <2>1. ASSUME NEW v \in A \X B \X C PROVE \E q \in S : f[q] = v
    <3>1. PICK a \in A, b \in B, c \in C : v = <<a, b, c>> OBVIOUS
    <3>2. <<a, <<b, c>>>> \in S OBVIOUS
    <3>3. f[<<a, <<b, c>>>>] = v BY <3>1, <3>2
    <3> QED BY <3>2, <3>3
  <2> QED BY <1>3, <2>1 DEF Surjection
<1> HIDE DEF S, f
<1> QED BY <1>2, <1>4, FS_Surjection

-----------------------------------------------------------------------------
(* Sums over finite sets.                                                  *)

\* The element the sum takes next.
Pick1(s) == CHOOSE x \in s : TRUE

\* g is the table of f's sums over the subsets of S.
SumsOn(f, g, S) ==
  g = [s \in SUBSET S |-> IF s = {} THEN 0 ELSE f[Pick1(s)] + g[s \ {Pick1(s)}]]

\* The library's sum is the table's value at the whole set.
LEMMA SumIs ==
  ASSUME NEW f, NEW S
  PROVE  SumFunctionOnSet(f, S) = (CHOOSE g : SumsOn(f, g, S))[S]
BY DEF SumFunctionOnSet, FoldFunctionOnSet, MapThenFoldSet, SumsOn, Pick1

\* A non-empty set of subsets of a finite set has a member no other is inside of.
LEMMA LeastSet ==
  ASSUME NEW S, IsFiniteSet(S), NEW C \in SUBSET (SUBSET S), C # {}
  PROVE  \E T \in C : \A R \in C : R \subseteq T => R = T
<1>1. IsWellFoundedOn(StrictSubsetOrdering(S), SUBSET S)
  BY FS_StrictSubsetOrderingWellFounded, FS_FiniteSubsetsOfFinite
<1>2. PICK T \in C : \A R \in C : ~(<<R, T>> \in StrictSubsetOrdering(S)) BY <1>1, WFMin
<1>3. ASSUME NEW R \in C, R \subseteq T PROVE R = T
  <2>1. R \in SUBSET S /\ T \in SUBSET S OBVIOUS
  <2> QED BY <1>2, <1>3, <2>1 DEF StrictSubsetOrdering
<1> QED BY <1>3

\* What is taken next is there.
LEMMA PickIn == ASSUME NEW s, s # {} PROVE Pick1(s) \in s
BY DEF Pick1

\* The recursion, one subset at a time.
LEMMA TableAt ==
  ASSUME NEW f, NEW S, NEW g, SumsOn(f, g, S), NEW s \in SUBSET S
  PROVE  g[s] = IF s = {} THEN 0 ELSE f[Pick1(s)] + g[s \ {Pick1(s)}]
<1> DEFINE h == [r \in SUBSET S |-> IF r = {} THEN 0 ELSE f[Pick1(r)] + g[r \ {Pick1(r)}]]
<1>1. g = h BY DEF SumsOn
<1>2. h[s] = IF s = {} THEN 0 ELSE f[Pick1(s)] + g[s \ {Pick1(s)}] OBVIOUS
<1> HIDE DEF h
<1> QED BY <1>1, <1>2

\* Two tables of sums agree where both are defined.
LEMMA TablesAgree ==
  ASSUME NEW f, NEW S, IsFiniteSet(S), NEW T, NEW g, NEW h, SumsOn(f, g, S), SumsOn(f, h, T),
         NEW R \in SUBSET S, R \in SUBSET T
  PROVE  g[R] = h[R]
<1> DEFINE C == {s \in SUBSET R : g[s] # h[s]}
<1> SUFFICES ASSUME C # {} PROVE FALSE OBVIOUS
<1>1. IsFiniteSet(R) BY FS_Subset
<1>2. PICK s \in C : \A r \in C : r \subseteq s => r = s
  <2>1. C \in SUBSET (SUBSET R) /\ C # {} OBVIOUS
  <2> HIDE DEF C
  <2> QED BY <2>1, <1>1, LeastSet
<1>3. s \in SUBSET S /\ s \in SUBSET T /\ g[s] # h[s] OBVIOUS
<1>4. /\ g[s] = IF s = {} THEN 0 ELSE f[Pick1(s)] + g[s \ {Pick1(s)}]
      /\ h[s] = IF s = {} THEN 0 ELSE f[Pick1(s)] + h[s \ {Pick1(s)}]
  BY <1>3, TableAt
<1>5. s # {} /\ Pick1(s) \in s BY <1>3, <1>4, PickIn
<1>6. s \ {Pick1(s)} \notin C BY <1>2, <1>5
<1>7. g[s \ {Pick1(s)}] = h[s \ {Pick1(s)}] BY <1>6
<1> QED BY <1>3, <1>4, <1>5, <1>7

\* A finite set has a table of sums.
LEMMA TableExists ==
  ASSUME NEW f, NEW S, IsFiniteSet(S) PROVE \E g : SumsOn(f, g, S)
<1> DEFINE C == {T \in SUBSET S : ~\E g : SumsOn(f, g, T)}
<1> SUFFICES ASSUME C # {} PROVE FALSE OBVIOUS
<1>1. PICK T \in C : \A R \in C : R \subseteq T => R = T
  <2>1. C \in SUBSET (SUBSET S) /\ C # {} OBVIOUS
  <2> HIDE DEF C
  <2> QED BY <2>1, LeastSet
<1>2. T \in SUBSET S /\ ~\E g : SumsOn(f, g, T) OBVIOUS
<1> DEFINE tab(R) == CHOOSE g : SumsOn(f, g, R)
           sum(R) == tab(R)[R]
           h == [s \in SUBSET T |-> IF s = {} THEN 0 ELSE f[Pick1(s)] + sum(s \ {Pick1(s)})]
<1>3. ASSUME NEW R \in SUBSET T, R # T PROVE SumsOn(f, tab(R), R) /\ IsFiniteSet(R)
  <2>1. R \in SUBSET S /\ R \notin C BY <1>1, <1>3
  <2>2. \E g : SumsOn(f, g, R) BY <2>1
  <2> QED BY <2>1, <2>2, FS_Subset
<1>4. ASSUME NEW R \in SUBSET T, R # T PROVE h[R] = sum(R)
  <2>0. SumsOn(f, tab(R), R) /\ IsFiniteSet(R) /\ R \in SUBSET R BY <1>3, <1>4
  <2>1. h[R] = IF R = {} THEN 0 ELSE f[Pick1(R)] + sum(R \ {Pick1(R)}) OBVIOUS
  <2> HIDE DEF h, tab
  <2>2. tab(R)[R] = IF R = {} THEN 0 ELSE f[Pick1(R)] + tab(R)[R \ {Pick1(R)}] BY <2>0, TableAt
  <2>3. CASE R = {} BY <2>1, <2>2, <2>3
  <2>4. CASE R # {}
    <3> DEFINE Q == R \ {Pick1(R)}
    <3>1. Pick1(R) \in R BY <2>4, PickIn
    <3>2. Q \in SUBSET T /\ Q # T /\ Q \in SUBSET R /\ Q \in SUBSET Q BY <3>1
    <3>3. SumsOn(f, tab(Q), Q) BY <1>3, <3>2
    <3>4. tab(R)[Q] = tab(Q)[Q] BY <2>0, <3>2, <3>3, TablesAgree
    <3> QED BY <2>1, <2>2, <2>4, <3>4
  <2> QED BY <2>3, <2>4
<1>5. ASSUME NEW s \in SUBSET T, s # {} PROVE sum(s \ {Pick1(s)}) = h[s \ {Pick1(s)}]
  <2>1. Pick1(s) \in s BY <1>5, PickIn
  <2>2. s \ {Pick1(s)} \in SUBSET T /\ s \ {Pick1(s)} # T BY <2>1
  <2> HIDE DEF h, sum
  <2> QED BY <1>4, <2>2
<1>6. h = [s \in SUBSET T |-> IF s = {} THEN 0 ELSE f[Pick1(s)] + h[s \ {Pick1(s)}]]
  <2>1. \A s \in SUBSET T : (IF s = {} THEN 0 ELSE f[Pick1(s)] + sum(s \ {Pick1(s)}))
                            = (IF s = {} THEN 0 ELSE f[Pick1(s)] + h[s \ {Pick1(s)}])
    <3> HIDE DEF h, sum
    <3> QED BY <1>5
  <2>2. h = [s \in SUBSET T |-> IF s = {} THEN 0 ELSE f[Pick1(s)] + sum(s \ {Pick1(s)})] OBVIOUS
  <2> HIDE DEF h, sum
  <2> QED BY <2>1, <2>2
<1> HIDE DEF h
<1>7. SumsOn(f, h, T) BY <1>6 DEF SumsOn
<1> QED BY <1>2, <1>7

\* The sum over a finite set is that of one element and of the rest.
LEMMA SumStep ==
  ASSUME NEW f, NEW S, IsFiniteSet(S)
  PROVE  /\ S = {} => SumFunctionOnSet(f, S) = 0
         /\ S # {} => SumFunctionOnSet(f, S) = f[Pick1(S)] + SumFunctionOnSet(f, S \ {Pick1(S)})
<1> DEFINE tab(R) == CHOOSE g : SumsOn(f, g, R)
<1>1. \A R : SumFunctionOnSet(f, R) = tab(R)[R] BY SumIs
<1>2. \A R \in SUBSET S : SumsOn(f, tab(R), R) /\ IsFiniteSet(R)
  <2>1. ASSUME NEW R \in SUBSET S PROVE SumsOn(f, tab(R), R) /\ IsFiniteSet(R)
    <3>1. IsFiniteSet(R) BY FS_Subset
    <3>2. \E g : SumsOn(f, g, R) BY <3>1, TableExists
    <3> QED BY <3>1, <3>2
  <2> QED BY <2>1
<1> HIDE DEF tab
<1>3. tab(S)[S] = IF S = {} THEN 0 ELSE f[Pick1(S)] + tab(S)[S \ {Pick1(S)}] BY <1>2, TableAt
<1>4. ASSUME S # {} PROVE tab(S)[S \ {Pick1(S)}] = tab(S \ {Pick1(S)})[S \ {Pick1(S)}]
  <2> DEFINE Q == S \ {Pick1(S)}
  <2>1. Q \in SUBSET S /\ Q \in SUBSET Q /\ S \in SUBSET S OBVIOUS
  <2>2. SumsOn(f, tab(S), S) /\ SumsOn(f, tab(Q), Q) BY <1>2, <2>1
  <2> HIDE DEF Q
  <2>3. tab(S)[Q] = tab(Q)[Q] BY <2>1, <2>2, TablesAgree
  <2> QED BY <2>3 DEF Q
<1> QED BY <1>1, <1>3, <1>4

\* Sums of natural numbers are natural numbers.
LEMMA SumNat ==
  ASSUME NEW f, NEW S, IsFiniteSet(S), \A x \in S : f[x] \in Nat
  PROVE  SumFunctionOnSet(f, S) \in Nat
<1> DEFINE C == {T \in SUBSET S : SumFunctionOnSet(f, T) \notin Nat}
<1> SUFFICES ASSUME C # {} PROVE FALSE OBVIOUS
<1>1. PICK T \in C : \A R \in C : R \subseteq T => R = T
  <2>1. C \in SUBSET (SUBSET S) /\ C # {} OBVIOUS
  <2> HIDE DEF C
  <2> QED BY <2>1, LeastSet
<1>2. T \in SUBSET S /\ SumFunctionOnSet(f, T) \notin Nat /\ IsFiniteSet(T) BY FS_Subset
<1>3. T # {}
  <2>1. SumFunctionOnSet(f, {}) = 0 BY FS_EmptySet, SumStep
  <2> QED BY <1>2, <2>1
<1>4. Pick1(T) \in T BY <1>3, PickIn
<1>5. T \ {Pick1(T)} \notin C BY <1>1, <1>4
<1>6. SumFunctionOnSet(f, T \ {Pick1(T)}) \in Nat /\ f[Pick1(T)] \in Nat BY <1>2, <1>4, <1>5
<1>7. SumFunctionOnSet(f, T) = f[Pick1(T)] + SumFunctionOnSet(f, T \ {Pick1(T)}) BY <1>2, <1>3, SumStep
<1> QED BY <1>2, <1>6, <1>7

\* Any element may be taken out first.
LEMMA SumTake ==
  ASSUME NEW f, NEW S, IsFiniteSet(S), \A x \in S : f[x] \in Nat, NEW x \in S
  PROVE  SumFunctionOnSet(f, S) = f[x] + SumFunctionOnSet(f, S \ {x})
<1> DEFINE sum(R) == SumFunctionOnSet(f, R)
           C == {T \in SUBSET S : \E y \in T : sum(T) # f[y] + sum(T \ {y})}
<1>0. \A R \in SUBSET S : sum(R) \in Nat /\ IsFiniteSet(R)
  <2>1. ASSUME NEW R \in SUBSET S PROVE sum(R) \in Nat /\ IsFiniteSet(R)
    <3>1. IsFiniteSet(R) BY FS_Subset
    <3> QED BY <3>1, SumNat
  <2> QED BY <2>1
<1>s. \A R \in SUBSET S : R # {} => sum(R) = f[Pick1(R)] + sum(R \ {Pick1(R)}) BY <1>0, SumStep
<1> HIDE DEF sum
<1>1. C = {}
  <2> SUFFICES ASSUME C # {} PROVE FALSE OBVIOUS
  <2>1. PICK T \in C : \A R \in C : R \subseteq T => R = T
    <3>1. C \in SUBSET (SUBSET S) /\ C # {} OBVIOUS
    <3> HIDE DEF C
    <3> QED BY <3>1, LeastSet
  <2>2. PICK y \in T : sum(T) # f[y] + sum(T \ {y}) OBVIOUS
  <2>3. T \in SUBSET S /\ Pick1(T) \in T BY PickIn
  <2>4. sum(T) = f[Pick1(T)] + sum(T \ {Pick1(T)}) BY <1>s, <2>3
  <2>5. y # Pick1(T) BY <2>2, <2>4
  <2> DEFINE A == T \ {y}
             B == T \ {Pick1(T)}
  <2>6. A \notin C /\ B \notin C BY <2>1, <2>3
  <2>7. sum(B) = f[y] + sum(B \ {y}) BY <2>3, <2>5, <2>6
  <2>8. sum(A) = f[Pick1(T)] + sum(A \ {Pick1(T)}) BY <2>3, <2>5, <2>6
  <2>9. A \ {Pick1(T)} = B \ {y} OBVIOUS
  <2>10. /\ f[y] \in Nat /\ f[Pick1(T)] \in Nat /\ sum(B \ {y}) \in Nat
         /\ sum(A) \in Nat /\ sum(B) \in Nat /\ sum(T) \in Nat
    <3>1. A \in SUBSET S /\ B \in SUBSET S /\ B \ {y} \in SUBSET S /\ y \in S /\ Pick1(T) \in S BY <2>3
    <3> QED BY <1>0, <2>3, <3>1
  <2> HIDE DEF A, B
  <2>11. sum(T) = f[Pick1(T)] + sum(B) /\ sum(A) = f[Pick1(T)] + sum(B \ {y}) BY <2>4, <2>8, <2>9 DEF B
  <2>12. sum(T) = f[y] + sum(A) BY <2>7, <2>10, <2>11
  <2> QED BY <2>2, <2>12 DEF A
<1>2. S \notin C BY <1>1
<1> QED BY <1>2 DEF sum

\* Functions that agree on a set have the same sum there.
LEMMA SumSame ==
  ASSUME NEW f, NEW g, NEW S, IsFiniteSet(S), \A x \in S : f[x] = g[x]
  PROVE  SumFunctionOnSet(f, S) = SumFunctionOnSet(g, S)
<1> DEFINE C == {T \in SUBSET S : SumFunctionOnSet(f, T) # SumFunctionOnSet(g, T)}
<1> SUFFICES ASSUME C # {} PROVE FALSE OBVIOUS
<1>1. PICK T \in C : \A R \in C : R \subseteq T => R = T
  <2>1. C \in SUBSET (SUBSET S) /\ C # {} OBVIOUS
  <2> HIDE DEF C
  <2> QED BY <2>1, LeastSet
<1>2. T \in SUBSET S /\ SumFunctionOnSet(f, T) # SumFunctionOnSet(g, T) /\ IsFiniteSet(T) BY FS_Subset
<1>3. T # {} BY <1>2, SumStep
<1>4. Pick1(T) \in T BY <1>3, PickIn
<1>5. T \ {Pick1(T)} \notin C BY <1>1, <1>4
<1>6. SumFunctionOnSet(f, T \ {Pick1(T)}) = SumFunctionOnSet(g, T \ {Pick1(T)}) BY <1>2, <1>5
<1>7. f[Pick1(T)] = g[Pick1(T)] BY <1>2, <1>4
<1> QED BY <1>2, <1>3, <1>6, <1>7, SumStep

\* A part sums to no more than the whole.
LEMMA SumMono ==
  ASSUME NEW f, NEW S, IsFiniteSet(S), \A x \in S : f[x] \in Nat, NEW R \in SUBSET S
  PROVE  SumFunctionOnSet(f, R) <= SumFunctionOnSet(f, S)
<1> DEFINE sum(T) == SumFunctionOnSet(f, T)
           C == {T \in SUBSET S : R \subseteq T /\ ~(sum(R) <= sum(T))}
<1> SUFFICES ASSUME C # {} PROVE FALSE OBVIOUS
<1>1. PICK T \in C : \A Q \in C : Q \subseteq T => Q = T
  <2>1. C \in SUBSET (SUBSET S) /\ C # {} OBVIOUS
  <2> HIDE DEF C
  <2> QED BY <2>1, LeastSet
<1>2. T \in SUBSET S /\ R \subseteq T /\ ~(sum(R) <= sum(T)) OBVIOUS
<1>3. IsFiniteSet(T) /\ IsFiniteSet(R) BY <1>2, FS_Subset
<1>4. sum(R) \in Nat /\ sum(T) \in Nat BY <1>2, <1>3, SumNat
<1>5. PICK x \in T : x \notin R BY <1>2, <1>4
<1>6. sum(T) = f[x] + sum(T \ {x}) BY <1>2, <1>3, SumTake
<1>7. T \ {x} \notin C BY <1>1
<1>8. sum(R) <= sum(T \ {x}) BY <1>2, <1>5, <1>7
<1>9. sum(T \ {x}) \in Nat /\ f[x] \in Nat
  <2>1. IsFiniteSet(T \ {x}) BY <1>3, FS_Subset
  <2> QED BY <1>2, <2>1, SumNat
<1> HIDE DEF sum
<1> QED BY <1>2, <1>4, <1>6, <1>8, <1>9

\* A sum of zeros.
LEMMA SumZero ==
  ASSUME NEW f, NEW S, IsFiniteSet(S), \A x \in S : f[x] = 0
  PROVE  SumFunctionOnSet(f, S) = 0
<1> DEFINE C == {T \in SUBSET S : SumFunctionOnSet(f, T) # 0}
<1> SUFFICES ASSUME C # {} PROVE FALSE OBVIOUS
<1>1. PICK T \in C : \A R \in C : R \subseteq T => R = T
  <2>1. C \in SUBSET (SUBSET S) /\ C # {} OBVIOUS
  <2> HIDE DEF C
  <2> QED BY <2>1, LeastSet
<1>2. T \in SUBSET S /\ SumFunctionOnSet(f, T) # 0 /\ IsFiniteSet(T) BY FS_Subset
<1>3. T # {} BY <1>2, SumStep
<1>4. Pick1(T) \in T BY <1>3, PickIn
<1>5. T \ {Pick1(T)} \notin C BY <1>1, <1>4
<1>6. SumFunctionOnSet(f, T \ {Pick1(T)}) = 0 /\ f[Pick1(T)] = 0 BY <1>2, <1>4, <1>5
<1> QED BY <1>2, <1>3, <1>6, SumStep

\* A sum after one value of the function has changed.
LEMMA SumChange ==
  ASSUME NEW f, NEW g, NEW S, IsFiniteSet(S), \A x \in S : f[x] \in Nat /\ g[x] \in Nat,
         NEW x \in S, \A y \in S \ {x} : f[y] = g[y]
  PROVE  SumFunctionOnSet(g, S) + f[x] = SumFunctionOnSet(f, S) + g[x]
<1>1. IsFiniteSet(S \ {x}) BY FS_Subset
<1>2. SumFunctionOnSet(f, S \ {x}) = SumFunctionOnSet(g, S \ {x}) BY <1>1, SumSame
<1>3. SumFunctionOnSet(f, S \ {x}) \in Nat BY <1>1, SumNat
<1>4. /\ SumFunctionOnSet(f, S) = f[x] + SumFunctionOnSet(f, S \ {x})
      /\ SumFunctionOnSet(g, S) = g[x] + SumFunctionOnSet(g, S \ {x})
  BY SumTake
<1>5. f[x] \in Nat /\ g[x] \in Nat OBVIOUS
<1> QED BY <1>2, <1>3, <1>4, <1>5

\* A sum after one element was added.
LEMMA SumPut ==
  ASSUME NEW f, NEW S, IsFiniteSet(S), NEW x, x \notin S, \A y \in S \cup {x} : f[y] \in Nat
  PROVE  SumFunctionOnSet(f, S \cup {x}) = f[x] + SumFunctionOnSet(f, S)
<1>1. IsFiniteSet(S \cup {x}) BY FS_AddElement
<1>2. (S \cup {x}) \ {x} = S OBVIOUS
<1> QED BY <1>1, <1>2, SumTake

\* Of two parts that share nothing, the sums add up.
LEMMA SumUnion ==
  ASSUME NEW f, NEW S, IsFiniteSet(S), NEW T, IsFiniteSet(T), S \cap T = {},
         \A x \in S \cup T : f[x] \in Nat
  PROVE  SumFunctionOnSet(f, S \cup T) = SumFunctionOnSet(f, S) + SumFunctionOnSet(f, T)
<1> DEFINE sum(R) == SumFunctionOnSet(f, R)
           C == {R \in SUBSET S : sum(R \cup T) # sum(R) + sum(T)}
<1> SUFFICES ASSUME C # {} PROVE FALSE OBVIOUS
<1>1. PICK R \in C : \A Q \in C : Q \subseteq R => Q = R
  <2>1. C \in SUBSET (SUBSET S) /\ C # {} OBVIOUS
  <2> HIDE DEF C
  <2> QED BY <2>1, LeastSet
<1>2. R \in SUBSET S /\ sum(R \cup T) # sum(R) + sum(T) OBVIOUS
<1>3. IsFiniteSet(R) BY <1>2, FS_Subset
<1>4. sum(T) \in Nat /\ sum(R) \in Nat BY <1>2, <1>3, SumNat
<1>5. PICK x \in R : TRUE
  <2>1. ASSUME R = {} PROVE FALSE
    <3>1. sum({}) = 0 BY FS_EmptySet, SumStep
    <3>2. R \cup T = T BY <2>1
    <3> HIDE DEF sum
    <3> QED BY <1>2, <1>4, <2>1, <3>1, <3>2
  <2> QED BY <2>1
<1> DEFINE Q == R \ {x}
<1>6. Q \notin C BY <1>1
<1>7. sum(Q \cup T) = sum(Q) + sum(T) BY <1>2, <1>6
<1>8. IsFiniteSet(R \cup T) /\ IsFiniteSet(Q) BY <1>3, FS_Union, FS_Subset
<1>9. (R \cup T) \ {x} = Q \cup T BY <1>2, <1>5
<1>10. sum(R \cup T) = f[x] + sum((R \cup T) \ {x}) BY <1>2, <1>5, <1>8, SumTake
<1>11. sum(R) = f[x] + sum(Q) BY <1>2, <1>3, <1>5, SumTake
<1>12. sum(Q) \in Nat /\ f[x] \in Nat BY <1>2, <1>5, <1>8, SumNat
<1> HIDE DEF sum, Q, C
<1>13. sum(R \cup T) = f[x] + sum(Q \cup T) BY <1>9, <1>10
<1>14. sum(R \cup T) = sum(R) + sum(T) BY <1>4, <1>7, <1>11, <1>12, <1>13
<1> QED BY <1>2, <1>14

\* The sum of two functions' values is that of their sums.
LEMMA SumPlus ==
  ASSUME NEW f, NEW g, NEW h, NEW S, IsFiniteSet(S),
         \A x \in S : f[x] \in Nat /\ g[x] \in Nat /\ h[x] = f[x] + g[x]
  PROVE  SumFunctionOnSet(h, S) = SumFunctionOnSet(f, S) + SumFunctionOnSet(g, S)
<1> DEFINE C == {T \in SUBSET S : SumFunctionOnSet(h, T) # SumFunctionOnSet(f, T) + SumFunctionOnSet(g, T)}
<1> SUFFICES ASSUME C # {} PROVE FALSE OBVIOUS
<1>1. PICK T \in C : \A R \in C : R \subseteq T => R = T
  <2>1. C \in SUBSET (SUBSET S) /\ C # {} OBVIOUS
  <2> HIDE DEF C
  <2> QED BY <2>1, LeastSet
<1>2. /\ T \in SUBSET S /\ IsFiniteSet(T)
      /\ SumFunctionOnSet(h, T) # SumFunctionOnSet(f, T) + SumFunctionOnSet(g, T)
  BY FS_Subset
<1>3. T # {}
  <2>1. SumFunctionOnSet(f, {}) = 0 /\ SumFunctionOnSet(g, {}) = 0 /\ SumFunctionOnSet(h, {}) = 0
    BY FS_EmptySet, SumStep
  <2> SUFFICES ASSUME T = {} PROVE FALSE OBVIOUS
  <2>2. SumFunctionOnSet(h, T) = 0 /\ SumFunctionOnSet(f, T) = 0 /\ SumFunctionOnSet(g, T) = 0 BY <2>1
  <2> QED BY <1>2, <2>2
<1> DEFINE Q == T \ {Pick1(T)}
<1>4. Pick1(T) \in T BY <1>3, PickIn
<1>5. Q \notin C BY <1>1, <1>4
<1>6. SumFunctionOnSet(h, Q) = SumFunctionOnSet(f, Q) + SumFunctionOnSet(g, Q) BY <1>2, <1>5
<1>7. IsFiniteSet(Q) BY <1>2, FS_Subset
<1>8. SumFunctionOnSet(f, Q) \in Nat /\ SumFunctionOnSet(g, Q) \in Nat BY <1>2, <1>7, SumNat
<1>9. /\ SumFunctionOnSet(f, T) = f[Pick1(T)] + SumFunctionOnSet(f, Q)
      /\ SumFunctionOnSet(g, T) = g[Pick1(T)] + SumFunctionOnSet(g, Q)
      /\ SumFunctionOnSet(h, T) = h[Pick1(T)] + SumFunctionOnSet(h, Q)
  BY <1>2, <1>3, SumStep
<1>10. f[Pick1(T)] \in Nat /\ g[Pick1(T)] \in Nat /\ h[Pick1(T)] = f[Pick1(T)] + g[Pick1(T)] BY <1>2, <1>4
<1> HIDE DEF Q, C
<1> QED BY <1>2, <1>6, <1>8, <1>9, <1>10
=============================================================================
