-------------------------- MODULE LiveStudy_proofs --------------------------
(***************************************************************************)
(* Proofs about the live Study, for any network, edits and formulations,   *)
(* and any number of edits, commits and sessions.                          *)
(*                                                                         *)
(* The log's three interpretations (fold and aggregate, the difference of  *)
(* two folds, the replay edit by edit) are compared by induction over the  *)
(* positions of the log.  PositionInduction states induction for a set of  *)
(* positions; RecursionExists and RecursionUnique say that the recursive   *)
(* functions of LiveStudy satisfy their equations.                         *)
(***************************************************************************)
EXTENDS LiveStudy, SequenceTheorems, FiniteSetTheorems, NaturalsInduction,
        WellFoundedInduction, TLAPS

Fields ==
  {"formulation", "base", "spec", "history", "log", "bounds", "constraints", "solved"}

\* A Study is a record of its eight fields; its commits end at positions of
\* the log.
Shape(s) ==
  /\ s = [f \in Fields |-> s[f]]
  /\ s.log \in Seq(Edits)
  /\ s.bounds \in Seq(Nat)

\* The commits partition the log.
Partition(log, bounds) ==
  /\ \A i \in 2..Len(bounds) : bounds[i - 1] <= bounds[i]
  /\ log # <<>> => bounds # <<>>
  /\ bounds # <<>> => Last(bounds) = Len(log)

\* SolvedIsCurrent, of any Study.
Current(s) ==
  /\ s.solved = Solved(s, s.log, s.constraints)
  /\ Canonical(Fold(s.log))
  /\ Accepted(s, Fold(s.log), s.constraints)
  /\ Partition(s.log, s.bounds)

\* The base, the injections and the history that a module gives a Study.
Typed(net, spec, history) ==
  /\ net \in Networks
  /\ spec \in [Buses -> Int] \cup {None}
  /\ history \in Seq(Names) /\ IsInjective(history)

\* The inductive invariant.
Inv ==
  /\ Shape(study)
  /\ Typed(study.base, study.spec, study.history)
  /\ Current(study)

------------------------------------------------------------------------------
(* Induction and recursion over positions, and the sums of powers. *)

\* Induction over the positions of a sequence, for a set of positions.
LEMMA PositionInduction ==
  ASSUME NEW n \in Nat, NEW P, 0 \in P, \A i \in 1..n : i - 1 \in P => i \in P
  PROVE  \A i \in 0..n : i \in P
<1> SUFFICES ASSUME NEW j \in 0..n, j \notin P PROVE FALSE
  OBVIOUS
<1> DEFINE S == {i \in 0..n : i \notin P}
           less == {p \in Nat \X Nat : p[1] < p[2]}
<1>1. IsWellFoundedOn(less, Nat) BY NatLessThanWellFounded DEF OpToRel
<1>2. S \subseteq Nat /\ S # {} OBVIOUS
<1> HIDE DEF less, S
<1>3. PICK x \in S : \A y \in S : ~(<<y, x>> \in less) BY <1>1, <1>2, WFMin
<1>4. x \in 1..n /\ x \notin P BY <1>3 DEF S
<1>5. x - 1 \in 0..n /\ x - 1 \notin P /\ x - 1 < x BY <1>4
<1>6. x - 1 \in S BY <1>5 DEF S
<1>7. <<x - 1, x>> \in less BY <1>4, <1>5 DEF less
<1> QED BY <1>3, <1>6, <1>7

\* f is built from its first value a with the step F, as far as n.
Built(n, S, a, F, f) ==
  /\ f \in [0..n -> S]
  /\ f[0] = a
  /\ \A i \in 1..n : f[i] = F[<<f[i - 1], i>>]

\* A first value and a step.
Buildable(n, S, a, F) == n \in Nat /\ a \in S /\ F \in [S \X (1..n) -> S]

\* A function on 0..n can be built from a first value and a step.
LEMMA RecursionExists ==
  ASSUME NEW n, NEW S, NEW a, NEW F, Buildable(n, S, a, F)
  PROVE  \E f : Built(n, S, a, F, f)
<1> USE DEF Built
<1>0. n \in Nat /\ a \in S /\ F \in [S \X (1..n) -> S] BY DEF Buildable
<1> DEFINE P == {m \in 0..n : \E f : Built(m, S, a, F, f)}
<1>1. 0 \in P
  <2> DEFINE f == [i \in 0..0 |-> a]
  <2>1. Built(0, S, a, F, f) BY <1>0
  <2> HIDE DEF f
  <2>2. \E g : Built(0, S, a, F, g) BY <2>1
  <2> QED BY <1>0, <2>2
<1>2. ASSUME NEW m \in 1..n, m - 1 \in P PROVE m \in P
  <2>1. PICK f : Built(m - 1, S, a, F, f) BY <1>2
  <2> DEFINE last == F[<<f[m - 1], m>>]
             g == [i \in 0..m |-> IF i = m THEN last ELSE f[i]]
  <2>2. m - 1 \in 0..(m - 1) /\ f[m - 1] \in S BY <2>1
  <2>3. last \in S BY <1>0, <2>2
  <2>4. g \in [0..m -> S]
    <3>1. ASSUME NEW i \in 0..m PROVE (IF i = m THEN last ELSE f[i]) \in S
      <4>1. i # m => i \in 0..(m - 1) OBVIOUS
      <4> HIDE DEF last
      <4> QED BY <2>1, <2>3, <4>1
    <3> HIDE DEF last
    <3> QED BY <3>1
  <2>5. g[0] = a BY <2>1
  <2>6. ASSUME NEW i \in 1..m PROVE g[i] = F[<<g[i - 1], i>>]
    <3>1. i - 1 \in 0..m /\ i - 1 # m /\ i \in 0..m OBVIOUS
    <3>2. g[i - 1] = f[i - 1] BY <3>1
    <3>3. CASE i = m BY <3>1, <3>2, <3>3
    <3>4. CASE i # m
      <4>1. i \in 1..(m - 1) BY <3>4
      <4>2. f[i] = F[<<f[i - 1], i>>] BY <2>1, <4>1
      <4> QED BY <3>1, <3>2, <3>4, <4>2
    <3> QED BY <3>3, <3>4
  <2> HIDE DEF g
  <2>7. Built(m, S, a, F, g) BY <2>4, <2>5, <2>6
  <2> QED BY <2>7
<1>3. n \in P
  <2> HIDE DEF P
  <2> QED BY <1>0, <1>1, <1>2, PositionInduction
<1> QED BY <1>3

\* Two functions that begin alike and make the same steps.
InStep(n, f, g) ==
  /\ f[0] = g[0]
  /\ \A i \in 1..n : f[i - 1] = g[i - 1] => f[i] = g[i]

\* They are the same.
LEMMA RecursionUnique ==
  ASSUME NEW n \in Nat, NEW f, NEW g, InStep(n, f, g)
  PROVE  \A i \in 0..n : f[i] = g[i]
<1> DEFINE P == {i \in 0..n : f[i] = g[i]}
<1>1. 0 \in P BY DEF InStep
<1>2. \A i \in 1..n : i - 1 \in P => i \in P BY DEF InStep
<1> HIDE DEF P
<1>3. \A i \in 0..n : i \in P BY <1>1, <1>2, PositionInduction
<1> QED BY <1>3 DEF P

\* Sums: the defining equation and its type.
LEMMA SumsDef ==
  ASSUME NEW x \in Seq(Int)
  PROVE  /\ \A i \in 0..Len(x) : Sums(x)[i] \in Int
         /\ Sums(x)[0] = 0
         /\ \A i \in 1..Len(x) : Sums(x)[i] = Sums(x)[i - 1] + x[i]
<1> DEFINE n == Len(x)
           Z == Int
           F == [p \in Z \X (1..n) |-> p[1] + x[p[2]]]
           Eq(f) == f = [i \in 0..n |-> IF i = 0 THEN 0 ELSE f[i - 1] + x[i]]
<1>1. n \in Nat /\ \A i \in 1..n : x[i] \in Int BY LenProperties, ElementOfSeq
<1>2. F \in [Z \X (1..n) -> Z] BY <1>1
<1>3. \A z \in Z, i \in 1..n : F[<<z, i>>] = z + x[i] OBVIOUS
<1> DEFINE a == 0
<1>4. a \in Z OBVIOUS
<1> HIDE DEF F, n, Z, a
<1>5. PICK f \in [0..n -> Z] : f[0] = a /\ \A i \in 1..n : f[i] = F[<<f[i - 1], i>>]
  <2>1. Buildable(n, Z, a, F) BY <1>1, <1>2, <1>4 DEF Buildable
  <2> QED BY <2>1, RecursionExists DEF Built
<1>6. ASSUME NEW i \in 1..n PROVE f[i] = f[i - 1] + x[i]
  <2>1. i - 1 \in 0..n BY <1>1
  <2> QED BY <1>3, <1>5, <2>1
<1>7. Eq(f)
  <2>1. \A i \in 0..n : i # 0 => i \in 1..n BY <1>1
  <2> QED BY <1>5, <1>6, <2>1 DEF a
<1>8. Sums(x) = CHOOSE g : Eq(g) BY DEF Sums, n
<1>9. Eq(Sums(x)) BY <1>7, <1>8
<1> DEFINE g == Sums(x)
<1> HIDE DEF g
<1>10. g = [i \in 0..n |-> IF i = 0 THEN 0 ELSE g[i - 1] + x[i]] BY <1>9 DEF g
<1>11. g[0] = 0 BY <1>1, <1>10
<1>12. ASSUME NEW i \in 1..n PROVE g[i] = g[i - 1] + x[i]
  <2>1. i \in 0..n /\ i # 0 BY <1>1
  <2> QED BY <1>10, <2>1
<1>13. \A i \in 1..n : f[i - 1] = g[i - 1] => f[i] = g[i] BY <1>6, <1>12
<1>14. \A i \in 0..n : f[i] = g[i]
  <2>1. n \in Nat /\ f[0] = g[0] BY <1>1, <1>5, <1>11 DEF a
  <2>2. InStep(n, f, g) BY <1>13, <2>1 DEF InStep
  <2> QED BY <2>1, <2>2, RecursionUnique
<1> QED BY <1>5, <1>11, <1>12, <1>14 DEF g, n, Z


\* Totals are integers; nothing adds up to zero.
LEMMA TotalType ==
  ASSUME NEW x \in Seq(Int)
  PROVE  Total(x) \in Int
<1>1. Len(x) \in 0..Len(x) BY LenProperties
<1> QED BY <1>1, SumsDef DEF Total

\* A bus without loads has no demand.
LEMMA TotalEmpty == Total(<<>>) = 0
<1>1. <<>> \in Seq(Int) /\ Len(<<>>) = 0 OBVIOUS
<1> QED BY <1>1, SumsDef DEF Total

\* The only load of a bus is its demand.
LEMMA TotalOne ==
  ASSUME NEW d \in Int
  PROVE  Total(<<d>>) = d
<1> DEFINE x == <<d>>
<1>1. x \in Seq(Int) /\ Len(x) = 1 /\ x[1] = d OBVIOUS
<1> HIDE DEF x
<1>2. Sums(x)[0] = 0 /\ Sums(x)[1] = Sums(x)[1 - 1] + x[1]
  <2>1. 1 \in 1..Len(x) BY <1>1
  <2> QED BY <1>1, <2>1, SumsDef
<1>3. Total(x) = d BY <1>1, <1>2 DEF Total
<1> QED BY <1>3 DEF x

\* z adds x and y, position by position.
Adds(x, y, z) ==
  /\ Len(x) = Len(z) /\ Len(y) = Len(z)
  /\ \A i \in 1..Len(z) : z[i] = x[i] + y[i]

\* The total of a sum is the sum of the totals.
LEMMA TotalAdds ==
  ASSUME NEW x \in Seq(Int), NEW y \in Seq(Int), NEW z \in Seq(Int), Adds(x, y, z)
  PROVE  Total(z) = Total(x) + Total(y)
<1> DEFINE n == Len(z)
           P == {i \in 0..n : Sums(z)[i] = Sums(x)[i] + Sums(y)[i]}
<1>1. n \in Nat /\ Len(x) = n /\ Len(y) = n BY LenProperties DEF Adds
<1>2. 0 \in P BY <1>1, SumsDef
<1>3. /\ \A i \in 0..n : Sums(x)[i] \in Int
      /\ \A i \in 1..n : Sums(x)[i] = Sums(x)[i - 1] + x[i]
  BY <1>1, SumsDef
<1>4. /\ \A i \in 0..n : Sums(y)[i] \in Int
      /\ \A i \in 1..n : Sums(y)[i] = Sums(y)[i - 1] + y[i]
  BY <1>1, SumsDef
<1>5. ASSUME NEW i \in 1..n, i - 1 \in P PROVE i \in P
  <2>1. /\ Sums(x)[i] = Sums(x)[i - 1] + x[i]
        /\ Sums(y)[i] = Sums(y)[i - 1] + y[i]
        /\ Sums(z)[i] = Sums(z)[i - 1] + z[i]
    BY <1>3, <1>4, SumsDef
  <2>2. i - 1 \in 0..n /\ i \in 0..n BY <1>1
  <2>3. Sums(x)[i - 1] \in Int /\ Sums(y)[i - 1] \in Int BY <1>3, <1>4, <2>2
  <2>4. x[i] \in Int /\ y[i] \in Int BY <1>1, ElementOfSeq
  <2>5. z[i] = x[i] + y[i] BY DEF Adds
  <2>6. Sums(z)[i - 1] = Sums(x)[i - 1] + Sums(y)[i - 1] BY <1>5
  <2> DEFINE p == Sums(x)[i - 1]
             q == Sums(y)[i - 1]
             r == x[i]
             s == y[i]
  <2>7. (p + q) + (r + s) = (p + r) + (q + s)
    <3> HIDE DEF p, q, r, s
    <3>1. p \in Int /\ q \in Int /\ r \in Int /\ s \in Int BY <2>3, <2>4 DEF p, q, r, s
    <3> QED BY <3>1
  <2>8. Sums(z)[i] = Sums(x)[i] + Sums(y)[i]
    BY ONLY <2>1, <2>5, <2>6, <2>7, Zenon
  <2> QED BY <2>2, <2>8
<1> HIDE DEF P, n
<1>6. \A i \in 0..n : i \in P BY <1>1, <1>2, <1>5, PositionInduction
<1>7. Sums(z)[n] = Sums(x)[n] + Sums(y)[n] BY <1>1, <1>6 DEF P
<1> QED BY <1>1, <1>7 DEF Total, n

\* Zeros add up to zero.
LEMMA TotalZero ==
  ASSUME NEW x \in Seq(Int), \A i \in 1..Len(x) : x[i] = 0
  PROVE  Total(x) = 0
<1>1. Adds(x, x, x) BY DEF Adds
<1>2. Total(x) = Total(x) + Total(x) BY <1>1, TotalAdds
<1>3. \A t \in Int : t = t + t => t = 0 OBVIOUS
<1> QED BY <1>2, <1>3, TotalType

\* A sequence of powers with d at one position and zeros elsewhere.
Single(n, k, d) == [i \in 1..n |-> IF i = k THEN d ELSE 0]

\* Its total is d.
LEMMA TotalSingle ==
  ASSUME NEW n \in Nat, NEW k \in 1..n, NEW d \in Int
  PROVE  /\ Single(n, k, d) \in Seq(Int)
         /\ Len(Single(n, k, d)) = n
         /\ Total(Single(n, k, d)) = d
<1> DEFINE x == Single(n, k, d)
           P == {i \in 0..n : Sums(x)[i] = IF i < k THEN 0 ELSE d}
<1>1. x \in Seq(Int) /\ Len(x) = n /\ \A i \in 1..n : x[i] = IF i = k THEN d ELSE 0
  BY DEF Single
<1> HIDE DEF x
<1>2. 0 \in P
  <2>1. Sums(x)[0] = 0 BY <1>1, SumsDef
  <2> QED BY <2>1
<1>3. ASSUME NEW i \in 1..n, i - 1 \in P PROVE i \in P
  <2>1. Sums(x)[i] = Sums(x)[i - 1] + x[i] BY <1>1, SumsDef
  <2>2. Sums(x)[i - 1] = IF i - 1 < k THEN 0 ELSE d BY <1>3
  <2>3. x[i] = IF i = k THEN d ELSE 0 BY <1>1
  <2>4. i \in Int /\ k \in Int /\ i \in 0..n OBVIOUS
  <2>5. Sums(x)[i] = IF i < k THEN 0 ELSE d
    <3>1. CASE i < k
      <4>1. i - 1 < k /\ i # k BY <2>4, <3>1
      <4> QED BY <2>1, <2>2, <2>3, <3>1, <4>1
    <3>2. CASE i = k
      <4>1. i - 1 < k /\ ~(i < k) BY <2>4, <3>2
      <4> QED BY <2>1, <2>2, <2>3, <3>2, <4>1
    <3>3. CASE i > k
      <4>1. ~(i - 1 < k) /\ i # k /\ ~(i < k) BY <2>4, <3>3
      <4> QED BY <2>1, <2>2, <2>3, <3>3, <4>1
    <3> QED BY <2>4, <3>1, <3>2, <3>3
  <2> QED BY <2>4, <2>5
<1> HIDE DEF P
<1>4. n \in 0..n /\ \A i \in 0..n : i \in P BY <1>2, <1>3, PositionInduction
<1>5. Sums(x)[n] = IF n < k THEN 0 ELSE d BY <1>4 DEF P
<1>6. ~(n < k) OBVIOUS
<1>7. Total(x) = d BY <1>1, <1>5, <1>6 DEF Total
<1> QED BY <1>1, <1>7 DEF x

\* apply_network_edits on a bus that has loads: the demand moves by the delta.
LEMMA TotalFirst ==
  ASSUME NEW x \in Seq(Int), x # <<>>, NEW d \in Int
  PROVE  /\ [x EXCEPT ![1] = @ + d] \in Seq(Int)
         /\ Total([x EXCEPT ![1] = @ + d]) = Total(x) + d
<1> DEFINE n == Len(x)
           z == [x EXCEPT ![1] = @ + d]
           y == Single(n, 1, d)
<1>1. n \in Nat /\ n # 0 /\ x \in [1..n -> Int] BY EmptySeq, LenProperties
<1>2. 1 \in 1..n BY <1>1
<1>3. x[1] + d \in Int BY <1>1, <1>2
<1>4. z \in [1..n -> Int] BY <1>1, <1>2, <1>3
<1>5. z \in Seq(Int) /\ Len(z) = n BY <1>1, <1>4
<1>6. y \in Seq(Int) /\ Len(y) = n /\ Total(y) = d BY <1>1, <1>2, TotalSingle
<1>7. \A i \in 1..n : z[i] = x[i] + y[i]
  <2> TAKE i \in 1..n
  <2>1. y[i] = IF i = 1 THEN d ELSE 0 BY DEF Single
  <2>2. z[i] = IF i = 1 THEN x[1] + d ELSE x[i] BY <1>1
  <2>3. x[i] \in Int BY <1>1
  <2> QED BY <2>1, <2>2, <2>3
<1> HIDE DEF y, z
<1>8. Adds(x, y, z) BY <1>5, <1>6, <1>7 DEF Adds
<1>9. Total(z) = Total(x) + d BY <1>5, <1>6, <1>8, TotalAdds
<1> QED BY <1>5, <1>9 DEF z


------------------------------------------------------------------------------
(* The log: what its fold says of a key, of an element and of a difference. *)

\* The edits of a log that name an element, at their positions.
Part(log, e) == [i \in 1..Len(log) |-> IF log[i].key.element = e THEN log[i].mw ELSE 0]

\* The edits of a log under one key.
KeyPart(log, k) == [i \in 1..Len(log) |-> IF log[i].key = k THEN log[i].mw ELSE 0]

\* Both are sequences of powers.
LEMMA PartType ==
  ASSUME NEW log \in Seq(Edits), NEW e
  PROVE  /\ Part(log, e) \in Seq(Int) /\ Len(Part(log, e)) = Len(log)
         /\ KeyPart(log, e) \in Seq(Int) /\ Len(KeyPart(log, e)) = Len(log)
<1>1. Len(log) \in Nat /\ \A i \in 1..Len(log) : log[i].mw \in Int
  BY LenProperties, ElementOfSeq, StudyAssumption
<1>2. /\ \A i \in 1..Len(log) : (IF log[i].key.element = e THEN log[i].mw ELSE 0) \in Int
      /\ \A i \in 1..Len(log) : (IF log[i].key = e THEN log[i].mw ELSE 0) \in Int
  BY <1>1
<1>3. Part(log, e) \in [1..Len(log) -> Int] BY <1>2 DEF Part
<1>4. KeyPart(log, e) \in [1..Len(log) -> Int] BY <1>2 DEF KeyPart
<1>5. \A n \in Nat : \A x \in [1..n -> Int] : x \in Seq(Int) /\ Len(x) = n OBVIOUS
<1>6. Part(log, e) \in Seq(Int) /\ Len(Part(log, e)) = Len(log) BY ONLY <1>1, <1>3, <1>5
<1>7. KeyPart(log, e) \in Seq(Int) /\ Len(KeyPart(log, e)) = Len(log)
  BY ONLY <1>1, <1>4, <1>5
<1> QED BY <1>6, <1>7

\* fold: the delta of a key, zero where the log does not name it.
LEMMA AtFold ==
  ASSUME NEW log \in Seq(Edits), NEW k
  PROVE  At(Fold(log), k) = Cumulative(log, k) /\ Cumulative(log, k) \in Int
<1>1. Cumulative(log, k) = Total(KeyPart(log, k)) BY DEF Cumulative, KeyPart
<1>2. Cumulative(log, k) \in Int BY <1>1, PartType, TotalType
<1>3. DOMAIN log = 1..Len(log) BY LenProperties
<1>4. DOMAIN Fold(log) = {log[i].key : i \in 1..Len(log)} BY <1>3 DEF Fold
<1>5. CASE k \in DOMAIN Fold(log) BY <1>2, <1>5 DEF At, Fold
<1>6. CASE k \notin DOMAIN Fold(log)
  <2>1. \A i \in 1..Len(log) : KeyPart(log, k)[i] = 0 BY <1>4, <1>6 DEF KeyPart
  <2>2. Total(KeyPart(log, k)) = 0 BY <2>1, PartType, TotalZero
  <2> QED BY <1>1, <1>2, <1>6, <2>2 DEF At
<1> QED BY <1>5, <1>6

\* aggregate_demand_deltas, aggregate_rating_deltas: the two keys of an element
\* together move it by the sum of all its edits.
LEMMA AggregateMoves ==
  ASSUME NEW log \in Seq(Edits), NEW e \in Elements
  PROVE  Aggregate(Fold(log))[e] = Moved(log, e) /\ Moved(log, e) \in Int
<1> DEFINE id == [element |-> e, form |-> "id"]
           uid == [element |-> e, form |-> "uid"]
<1>1. Aggregate(Fold(log))[e] = Cumulative(log, id) + Cumulative(log, uid)
  BY AtFold DEF Aggregate
<1>2. ASSUME NEW i \in 1..Len(log)
      PROVE  Part(log, e)[i] = KeyPart(log, id)[i] + KeyPart(log, uid)[i]
  <2>1. log[i] \in Edits BY ElementOfSeq
  <2> DEFINE key == log[i].key
             mw == log[i].mw
  <2>2. /\ mw \in Int /\ key.form \in {"id", "uid"}
        /\ key = [element |-> key.element, form |-> key.form]
    BY <2>1, StudyAssumption
  <2>3. /\ Part(log, e)[i] = IF key.element = e THEN mw ELSE 0
        /\ KeyPart(log, id)[i] = IF key = id THEN mw ELSE 0
        /\ KeyPart(log, uid)[i] = IF key = uid THEN mw ELSE 0
    BY DEF Part, KeyPart
  <2> HIDE DEF key, mw
  <2>4. /\ key = id <=> key.element = e /\ key.form = "id"
        /\ key = uid <=> key.element = e /\ key.form = "uid"
    BY <2>2
  <2>5. mw + 0 = mw /\ 0 + mw = mw /\ 0 + 0 = 0 /\ "id" # "uid" BY <2>2
  <2>6. CASE key.element = e /\ key.form = "id" BY ONLY <2>3, <2>4, <2>5, <2>6
  <2>7. CASE key.element = e /\ key.form = "uid" BY ONLY <2>3, <2>4, <2>5, <2>7
  <2>8. CASE key.element # e BY ONLY <2>3, <2>4, <2>5, <2>8
  <2> QED BY <2>2, <2>6, <2>7, <2>8
<1> HIDE DEF id, uid
<1>3. Adds(KeyPart(log, id), KeyPart(log, uid), Part(log, e))
  BY <1>2, PartType DEF Adds
<1>4. Total(Part(log, e)) = Total(KeyPart(log, id)) + Total(KeyPart(log, uid))
  BY <1>3, PartType, TotalAdds
<1>5. Moved(log, e) = Total(Part(log, e)) BY DEF Moved, Part
<1>6. \A k : Cumulative(log, k) = Total(KeyPart(log, k)) BY DEF Cumulative, KeyPart
<1>7. Moved(log, e) \in Int BY <1>5, PartType, TotalType
<1> QED BY <1>1, <1>4, <1>5, <1>6, <1>7

\* replacement_step: the way from one fold to another, of every key.
LEMMA AtStep ==
  ASSUME NEW current \in Seq(Edits), NEW target \in Seq(Edits), NEW k
  PROVE  At(ReplacementStep(current, target), k) = Cumulative(target, k) - Cumulative(current, k)
<1> DEFINE from == Fold(current)
           to == Fold(target)
           moved == {x \in DOMAIN from \cup DOMAIN to : At(to, x) # At(from, x)}
           step == [x \in moved |-> At(to, x) - At(from, x)]
<1>1. ReplacementStep(current, target) = step BY DEF ReplacementStep
<1>2. /\ At(to, k) = Cumulative(target, k) /\ At(to, k) \in Int
      /\ At(from, k) = Cumulative(current, k) /\ At(from, k) \in Int
  BY AtFold
<1>3. At(step, k) = At(to, k) - At(from, k)
  <2> HIDE DEF to, from
  <2>1. CASE k \in moved BY <2>1 DEF At
  <2>2. CASE k \notin moved
    <3>1. At(to, k) = At(from, k)
      <4>1. k \notin DOMAIN from \cup DOMAIN to => At(to, k) = 0 /\ At(from, k) = 0 BY DEF At
      <4> QED BY <2>2, <4>1
    <3>2. At(to, k) - At(from, k) = 0 BY <1>2, <3>1
    <3>3. At(step, k) = 0 BY <2>2 DEF At
    <3> QED BY <3>2, <3>3
  <2> QED BY <2>1, <2>2
<1> QED BY <1>1, <1>2, <1>3

\* The step moves an element from where the current log has it to where the
\* target has it.
LEMMA AggregateStep ==
  ASSUME NEW current \in Seq(Edits), NEW target \in Seq(Edits), NEW e \in Elements
  PROVE  Aggregate(ReplacementStep(current, target))[e]
           = Aggregate(Fold(target))[e] - Aggregate(Fold(current))[e]
<1> DEFINE id == [element |-> e, form |-> "id"]
           uid == [element |-> e, form |-> "uid"]
           step == ReplacementStep(current, target)
<1>1. /\ Aggregate(step)[e] = At(step, id) + At(step, uid)
      /\ Aggregate(Fold(target))[e] = At(Fold(target), id) + At(Fold(target), uid)
      /\ Aggregate(Fold(current))[e] = At(Fold(current), id) + At(Fold(current), uid)
  BY DEF Aggregate
<1>2. \A p, q, r, s \in Int : (p - q) + (r - s) = (p + r) - (q + s) OBVIOUS
<1> HIDE DEF id, uid
<1>3. /\ At(step, id) = Cumulative(target, id) - Cumulative(current, id)
      /\ At(step, uid) = Cumulative(target, uid) - Cumulative(current, uid)
  BY AtStep
<1> QED BY <1>1, <1>2, <1>3, AtFold


------------------------------------------------------------------------------
(* Materialization: the replay of the log arrives where its fold does. *)

\* Demands and limits are integers.
LEMMA NetworkNumbers ==
  ASSUME NEW net \in Networks
  PROVE  /\ \A b \in Buses : net.loads[b] \in Seq(Int) /\ Demand(net, b) \in Int
         /\ \A l \in Branches : net.rate[l] \in Nat /\ Limit(net, l) \in Int
<1>1. net.loads \in [Buses -> Seq(Int)] /\ net.rate \in [Branches -> Nat] BY DEF Networks
<1>2. \A b \in Buses : Demand(net, b) \in Int BY <1>1, TotalType DEF Demand
<1>3. \A l \in Branches : Limit(net, l) \in Int BY <1>1, StudyAssumption DEF Limit
<1> QED BY <1>1, <1>2, <1>3

\* What an edit does to an element.
Share(e, x) == IF e.key.element = x THEN e.mw ELSE 0

\* after is net moved by the edit e, and by nothing else.
MovedBy(net, e, after) ==
  /\ after \in Networks
  /\ after.located = net.located
  /\ \A b \in Buses : Demand(after, b) = Demand(net, b) + Share(e, b)
  /\ \A l \in Branches : Limit(after, l) = Limit(net, l) + Share(e, l)

\* apply_network_edits, one edit on a bus.
LEMMA ApplyDemand ==
  ASSUME NEW net \in Networks, NEW e \in Edits, e.key.element \in Buses,
         ApplyEdit(net, e) # None
  PROVE  MovedBy(net, e, ApplyEdit(net, e))
<1> DEFINE x == e.key.element
           d == e.mw
           old == net.loads[x]
           new == IF old = <<>> THEN <<d>> ELSE [old EXCEPT ![1] = @ + d]
           loads == [net.loads EXCEPT ![x] = new]
           after == [net EXCEPT !.loads = loads]
<1>1. d \in Int /\ x \in Buses /\ x \notin Branches BY StudyAssumption
<1>2. /\ net = [loads |-> net.loads, rate |-> net.rate, located |-> net.located]
      /\ net.loads \in [Buses -> Seq(Int)] /\ net.rate \in [Branches -> Nat]
      /\ net.located \in BOOLEAN
  BY DEF Networks
<1>3. ApplyEdit(net, e) = after
  <2>1. ApplyEdit(net, e) = IF old = <<>> THEN [net EXCEPT !.loads[x] = <<d>>]
                            ELSE [net EXCEPT !.loads[x][1] = @ + d]
    BY <1>1 DEF ApplyEdit
  <2>2. CASE old = <<>>
    <3>1. new = <<d>> BY <2>2
    <3> QED BY <2>1, <2>2, <3>1
  <2>3. CASE old # <<>>
    <3>1. new = [old EXCEPT ![1] = @ + d] BY <2>3
    <3> QED BY <2>1, <2>3, <3>1
  <2> QED BY <2>2, <2>3
<1>4. old \in Seq(Int) BY <1>1, <1>2
<1>6. new \in Seq(Int) /\ Total(new) = Total(old) + d
  <2> HIDE DEF d, old
  <2>1. CASE old = <<>>
    <3>1. <<d>> \in Seq(Int) BY <1>1
    <3>2. 0 + d = d BY <1>1
    <3>3. Total(<<d>>) = d BY <1>1, TotalOne
    <3>4. new = <<d>> /\ Total(old) = 0 BY <2>1, TotalEmpty
    <3> QED BY <3>1, <3>2, <3>3, <3>4
  <2>2. CASE old # <<>>
    <3>1. new = [old EXCEPT ![1] = @ + d] BY <2>2
    <3> HIDE DEF new
    <3>3. /\ [old EXCEPT ![1] = @ + d] \in Seq(Int)
          /\ Total([old EXCEPT ![1] = @ + d]) = Total(old) + d
      BY <1>1, <1>4, <2>2, TotalFirst
    <3> QED BY <3>1, <3>3
  <2> QED BY <2>1, <2>2
<1> HIDE DEF new
<1>7. /\ loads \in [Buses -> Seq(Int)] /\ loads[x] = new
      /\ \A b \in Buses \ {x} : loads[b] = net.loads[b]
  BY <1>1, <1>2, <1>6
<1> HIDE DEF loads
<1>8. after = [loads |-> loads, rate |-> net.rate, located |-> net.located] BY <1>2
<1> HIDE DEF after
<1>9. after \in Networks /\ after.loads = loads /\ after.rate = net.rate
      /\ after.located = net.located
  BY <1>2, <1>7, <1>8 DEF Networks
<1>10. ASSUME NEW b \in Buses PROVE Demand(after, b) = Demand(net, b) + Share(e, b)
  <2>1. Demand(net, b) + 0 = Demand(net, b) BY NetworkNumbers
  <2>2. CASE b = x BY <1>6, <1>7, <1>9, <2>2 DEF Demand, Share
  <2>3. CASE b # x BY <1>7, <1>9, <2>1, <2>3 DEF Demand, Share
  <2> QED BY <2>2, <2>3
<1>11. ASSUME NEW l \in Branches PROVE Limit(after, l) = Limit(net, l) + Share(e, l)
  <2>1. Limit(net, l) + 0 = Limit(net, l) BY NetworkNumbers
  <2> QED BY <1>1, <1>9, <2>1 DEF Limit, Share
<1> QED BY <1>3, <1>9, <1>10, <1>11 DEF MovedBy

\* apply_network_edits, one edit on a branch: a limit that is stated stays stated.
LEMMA ApplyRating ==
  ASSUME NEW net \in Networks, NEW e \in Edits, e.key.element \in Branches,
         ApplyEdit(net, e) # None
  PROVE  MovedBy(net, e, ApplyEdit(net, e))
<1> DEFINE x == e.key.element
           d == e.mw
           rate == [net.rate EXCEPT ![x] = @ + d]
           after == [net EXCEPT !.rate = rate]
<1>1. d \in Int /\ x \in Branches /\ x \notin Buses BY StudyAssumption
<1>2. /\ net = [loads |-> net.loads, rate |-> net.rate, located |-> net.located]
      /\ net.loads \in [Buses -> Seq(Int)] /\ net.rate \in [Branches -> Nat]
      /\ net.located \in BOOLEAN
  BY DEF Networks
<1>3. /\ ApplyEdit(net, e) = after
      /\ net.rate[x] # 0 /\ ~(net.rate[x] + d <= 0)
  BY <1>1, <1>2 DEF ApplyEdit
<1>4. net.rate[x] \in Nat /\ net.rate[x] + d \in Nat /\ net.rate[x] + d # 0
  BY <1>1, <1>2, <1>3
<1>5. /\ rate \in [Branches -> Nat] /\ rate[x] = net.rate[x] + d
      /\ \A l \in Branches \ {x} : rate[l] = net.rate[l]
  BY <1>1, <1>2, <1>4
<1> HIDE DEF rate
<1>6. after = [loads |-> net.loads, rate |-> rate, located |-> net.located] BY <1>2
<1> HIDE DEF after
<1>7. after \in Networks /\ after.loads = net.loads /\ after.rate = rate
      /\ after.located = net.located
  BY <1>2, <1>5, <1>6 DEF Networks
<1>8. ASSUME NEW b \in Buses PROVE Demand(after, b) = Demand(net, b) + Share(e, b)
  <2>1. Demand(net, b) + 0 = Demand(net, b) BY NetworkNumbers
  <2> QED BY <1>1, <1>7, <2>1 DEF Demand, Share
<1>9. ASSUME NEW l \in Branches PROVE Limit(after, l) = Limit(net, l) + Share(e, l)
  <2>1. Limit(net, l) + 0 = Limit(net, l) BY NetworkNumbers
  <2>2. CASE l = x BY <1>3, <1>4, <1>5, <1>7, <2>2 DEF Limit, Share
  <2>3. CASE l # x BY <1>5, <1>7, <2>1, <2>3 DEF Limit, Share
  <2> QED BY <2>2, <2>3
<1> QED BY <1>3, <1>7, <1>8, <1>9 DEF MovedBy

\* apply_network_edits, one edit: it fails, or it moves its element.
LEMMA ApplyEditMoves ==
  ASSUME NEW net, net \in Networks \cup {None}, NEW e \in Edits, e.key.element \in Elements
  PROVE  \/ ApplyEdit(net, e) = None
         \/ net \in Networks /\ MovedBy(net, e, ApplyEdit(net, e))
<1>1. net = None => ApplyEdit(net, e) = None BY DEF ApplyEdit
<1>2. e.key.element \in Buses \/ e.key.element \in Branches BY DEF Elements
<1> QED BY <1>1, <1>2, ApplyDemand, ApplyRating


\* The edits of a canonical log name elements of the network.
LEMMA CanonicalLog ==
  ASSUME NEW log \in Seq(Edits), Canonical(Fold(log)), NEW i \in 1..Len(log)
  PROVE  log[i] \in Edits /\ log[i].key.element \in Elements
<1>1. DOMAIN log = 1..Len(log) /\ log[i] \in Edits BY LenProperties, ElementOfSeq
<1>2. log[i].key \in DOMAIN Fold(log) BY <1>1 DEF Fold
<1> QED BY <1>1, <1>2 DEF Canonical

\* net is the base moved by the first i edits of the log.
Replayed(base, log, i, net) ==
  /\ net \in Networks
  /\ net.located = base.located
  /\ \A b \in Buses : Demand(net, b) = Demand(base, b) + Sums(Part(log, b))[i]
  /\ \A l \in Branches : Limit(net, l) = Limit(base, l) + Sums(Part(log, l))[i]

\* One more edit.
LEMMA ReplayStep ==
  ASSUME NEW base \in Networks, NEW log \in Seq(Edits), NEW i \in 1..Len(log),
         NEW net, Replayed(base, log, i - 1, net),
         NEW after, MovedBy(net, log[i], after)
  PROVE  Replayed(base, log, i, after)
<1>1. ASSUME NEW x
      PROVE  /\ Sums(Part(log, x))[i] = Sums(Part(log, x))[i - 1] + Share(log[i], x)
             /\ Sums(Part(log, x))[i - 1] \in Int
             /\ Share(log[i], x) \in Int
  <2>1. /\ Part(log, x) \in Seq(Int) /\ Len(Part(log, x)) = Len(log) /\ Len(log) \in Nat
        /\ Part(log, x)[i] = Share(log[i], x)
    BY PartType, LenProperties DEF Part, Share
  <2>2. i - 1 \in 0..Len(Part(log, x)) /\ i \in 1..Len(Part(log, x)) BY <2>1
  <2>3. Part(log, x)[i] \in Int BY <2>1, <2>2, ElementOfSeq
  <2> QED BY <2>1, <2>2, <2>3, SumsDef
<1>2. \A p, q, r \in Int : (p + q) + r = p + (q + r) OBVIOUS
<1>3. ASSUME NEW b \in Buses
      PROVE  Demand(after, b) = Demand(base, b) + Sums(Part(log, b))[i]
  <2>1. /\ Demand(after, b) = Demand(net, b) + Share(log[i], b)
        /\ Demand(net, b) = Demand(base, b) + Sums(Part(log, b))[i - 1]
    BY DEF MovedBy, Replayed
  <2>2. Demand(base, b) \in Int BY NetworkNumbers
  <2> QED BY <1>1, <1>2, <2>1, <2>2
<1>4. ASSUME NEW l \in Branches
      PROVE  Limit(after, l) = Limit(base, l) + Sums(Part(log, l))[i]
  <2>1. /\ Limit(after, l) = Limit(net, l) + Share(log[i], l)
        /\ Limit(net, l) = Limit(base, l) + Sums(Part(log, l))[i - 1]
    BY DEF MovedBy, Replayed
  <2>2. Limit(base, l) \in Int BY NetworkNumbers
  <2> QED BY <1>1, <1>2, <2>1, <2>2
<1> QED BY <1>3, <1>4 DEF MovedBy, Replayed

\* materialized_network: the network after i edits is the former one after the
\* next edit.
LEMMA MaterializedDef ==
  ASSUME NEW s, s.base \in Networks, s.log \in Seq(Edits), Canonical(Fold(s.log))
  PROVE  \E net : /\ net[0] = s.base
                  /\ \A i \in 0..Len(s.log) : net[i] \in Networks \cup {None}
                  /\ \A i \in 1..Len(s.log) : net[i] = ApplyEdit(net[i - 1], s.log[i])
                  /\ Materialized(s) = net[Len(s.log)]
<1> DEFINE log == s.log
           n == Len(log)
           S == Networks \cup {None}
           a == s.base
           F == [p \in S \X (1..n) |-> ApplyEdit(p[1], log[p[2]])]
           Eq(f) == f = [i \in 0..n |-> IF i = 0 THEN a ELSE ApplyEdit(f[i - 1], log[i])]
<1>1. n \in Nat BY LenProperties
<1>2. ASSUME NEW v \in S, NEW i \in 1..n PROVE ApplyEdit(v, log[i]) \in S
  <2>1. log[i] \in Edits /\ log[i].key.element \in Elements BY CanonicalLog
  <2>2. v \in Networks \cup {None} OBVIOUS
  <2> HIDE DEF log
  <2>3. \/ ApplyEdit(v, log[i]) = None
        \/ MovedBy(v, log[i], ApplyEdit(v, log[i]))
    BY <2>1, <2>2, ApplyEditMoves
  <2> QED BY <2>3 DEF MovedBy
<1>3. a \in S OBVIOUS
<1> HIDE DEF S, n, log, a
<1>4. F \in [S \X (1..n) -> S] BY <1>2
<1>5. \A v \in S, i \in 1..n : F[<<v, i>>] = ApplyEdit(v, log[i]) OBVIOUS
<1> HIDE DEF F
<1>6. PICK f : Built(n, S, a, F, f)
  <2>1. Buildable(n, S, a, F) BY <1>1, <1>3, <1>4 DEF Buildable
  <2> QED BY <2>1, RecursionExists
<1>7. f \in [0..n -> S] /\ f[0] = a BY <1>6 DEF Built
<1>8. ASSUME NEW i \in 1..n PROVE f[i] = ApplyEdit(f[i - 1], log[i])
  <2>1. i - 1 \in 0..n BY <1>1
  <2>2. f[i - 1] \in S BY <1>7, <2>1
  <2>3. f[i] = F[<<f[i - 1], i>>] BY <1>6 DEF Built
  <2> QED BY <1>5, <2>2, <2>3
<1>9. Eq(f)
  <2>1. \A i \in 0..n : i # 0 => i \in 1..n BY <1>1
  <2> QED BY <1>7, <1>8, <2>1
<1> DEFINE g == CHOOSE h : Eq(h)
<1>10. Materialized(s) = g[n] BY DEF Materialized, n, log, a
<1>11. Eq(g) BY <1>9
<1> HIDE DEF g
<1>12. g[0] = a BY <1>1, <1>11
<1>13. ASSUME NEW i \in 1..n PROVE g[i] = ApplyEdit(g[i - 1], log[i])
  <2>1. i \in 0..n /\ i # 0 BY <1>1
  <2> QED BY <1>11, <2>1
<1>14. \A i \in 0..n : f[i] = g[i]
  <2>1. InStep(n, f, g) BY <1>7, <1>8, <1>12, <1>13 DEF InStep
  <2> QED BY <1>1, <2>1, RecursionUnique
<1>15. \A i \in 0..n : g[i] \in S BY <1>7, <1>14
<1>16. /\ g[0] = s.base
       /\ \A i \in 0..Len(s.log) : g[i] \in Networks \cup {None}
       /\ \A i \in 1..Len(s.log) : g[i] = ApplyEdit(g[i - 1], s.log[i])
       /\ Materialized(s) = g[Len(s.log)]
  BY <1>10, <1>12, <1>13, <1>15 DEF n, log, a, S
<1> QED BY <1>16

\* A save that materializes writes the base moved by the whole log: the replay,
\* edit by edit, arrives where the fold was solved.
LEMMA MaterializedMoves ==
  ASSUME NEW s, s.base \in Networks, s.log \in Seq(Edits), Canonical(Fold(s.log)),
         Materialized(s) # None
  PROVE  /\ Materialized(s) \in Networks
         /\ Materialized(s).located = s.base.located
         /\ \A b \in Buses : Demand(Materialized(s), b) = Demand(s.base, b) + Moved(s.log, b)
         /\ \A l \in Branches : Limit(Materialized(s), l) = Limit(s.base, l) + Moved(s.log, l)
<1> DEFINE log == s.log
           base == s.base
           n == Len(log)
<1>1. PICK net : /\ net[0] = base
                 /\ \A i \in 0..n : net[i] \in Networks \cup {None}
                 /\ \A i \in 1..n : net[i] = ApplyEdit(net[i - 1], log[i])
                 /\ Materialized(s) = net[n]
  BY MaterializedDef
<1>2. n \in Nat /\ log \in Seq(Edits) /\ base \in Networks BY LenProperties
<1>3. \A i \in 1..n : log[i] \in Edits /\ log[i].key.element \in Elements BY CanonicalLog
<1> DEFINE P == {i \in 0..n : net[i] = None \/ Replayed(base, log, i, net[i])}
<1>4. \A x : Sums(Part(log, x))[0] = 0 BY PartType, SumsDef
<1>5. \A x : Moved(log, x) = Sums(Part(log, x))[n]
  <2> TAKE x
  <2>1. Moved(log, x) = Total(Part(log, x)) BY DEF Moved, Part
  <2>2. Len(Part(log, x)) = n BY PartType
  <2> QED BY <2>1, <2>2 DEF Total
<1> HIDE DEF n, log, base
<1>6. Replayed(base, log, 0, base)
  <2>1. \A p \in Int : p + 0 = p OBVIOUS
  <2> QED BY <1>2, <1>4, <2>1, NetworkNumbers DEF Replayed
<1>7. 0 \in P BY <1>1, <1>2, <1>6
<1>8. ASSUME NEW i \in 1..n, i - 1 \in P PROVE i \in P
  <2>1. i \in 0..n /\ i - 1 \in 0..n BY <1>2
  <2>2. \/ net[i] = None
        \/ net[i - 1] \in Networks /\ MovedBy(net[i - 1], log[i], net[i])
    BY <1>1, <1>3, <2>1, ApplyEditMoves
  <2>3. CASE net[i] = None BY <2>1, <2>3
  <2>4. CASE net[i - 1] # None /\ MovedBy(net[i - 1], log[i], net[i])
    <3>1. Replayed(base, log, i - 1, net[i - 1]) BY <1>8, <2>4
    <3>2. i \in 1..Len(log) BY DEF n
    <3>3. Replayed(base, log, i, net[i]) BY <1>2, <2>4, <3>1, <3>2, ReplayStep
    <3> QED BY <2>1, <3>3
  <2>5. CASE net[i - 1] = None
    <3>1. net[i] = None BY <1>1, <2>5 DEF ApplyEdit
    <3> QED BY <2>1, <3>1
  <2> QED BY <2>2, <2>3, <2>4, <2>5
<1> HIDE DEF P
<1>9. \A i \in 0..n : i \in P BY <1>2, <1>7, <1>8, PositionInduction
<1>10. Replayed(base, log, n, net[n]) BY <1>1, <1>2, <1>9 DEF P
<1> QED BY <1>1, <1>5, <1>10 DEF Replayed, base, log


------------------------------------------------------------------------------
(* The history that a save writes. *)

\* A number from next on that no entry of ids has, and all before it are taken.
Free(ids, next, k) ==
  /\ <<"edit", k>> \notin ToSet(ids)
  /\ \A j \in next..(k - 1) : <<"edit", j>> \in ToSet(ids)

\* There are more numbers than entries.
LEMMA SomeNumberFree ==
  ASSUME NEW ids \in Seq(Names), NEW next \in Nat
  PROVE  \E k \in next..(next + Len(ids)) : <<"edit", k>> \notin ToSet(ids)
<1> DEFINE n == Len(ids)
           S == next..(next + n)
           T == 1..n
<1> SUFFICES ASSUME \A k \in S : <<"edit", k>> \in ToSet(ids) PROVE FALSE
  OBVIOUS
<1>1. n \in Nat /\ DOMAIN ids = T BY LenProperties
<1>2. \A k \in S : \E i \in T : ids[i] = <<"edit", k>> BY <1>1 DEF ToSet
<1> DEFINE f == [k \in S |-> CHOOSE i \in T : ids[i] = <<"edit", k>>]
<1>3. f \in [S -> T] /\ \A k \in S : ids[f[k]] = <<"edit", k>> BY <1>2
<1>4. /\ IsFiniteSet(S) /\ Cardinality(S) = n + 1
      /\ IsFiniteSet(T) /\ Cardinality(T) = n
  <2>1. next \in Int /\ next + n \in Int /\ 1 \in Int /\ n \in Int /\ ~(next > next + n)
    BY <1>1
  <2>2. IsFiniteSet(S) /\ Cardinality(S) = IF next > next + n THEN 0 ELSE next + n - next + 1
    BY <2>1, FS_Interval
  <2>3. IsFiniteSet(T) /\ Cardinality(T) = IF 1 > n THEN 0 ELSE n - 1 + 1
    BY <2>1, FS_Interval
  <2> HIDE DEF S, T
  <2> QED BY <1>1, <2>1, <2>2, <2>3
<1>5. Cardinality(T) < Cardinality(S) BY <1>1, <1>4
<1> HIDE DEF f, S, T
<1>6. \E x, y \in S : x # y /\ f[x] = f[y] BY <1>3, <1>4, <1>5, FS_PigeonHole
<1>7. PICK x \in S, y \in S : x # y /\ f[x] = f[y] BY <1>6
<1>8. <<"edit", x>> = <<"edit", y>> BY <1>3, <1>7
<1> QED BY <1>7, <1>8

\* The search of retained_module for the next number ends.
LEMMA FirstNumberFree ==
  ASSUME NEW ids \in Seq(Names), NEW next \in Nat
  PROVE  \E k \in next..(next + Len(ids)) : Free(ids, next, k)
<1> DEFINE n == Len(ids)
           used(k) == <<"edit", k>> \in ToSet(ids)
<1> SUFFICES ASSUME \A k \in next..(next + n) : ~Free(ids, next, k) PROVE FALSE
  OBVIOUS
<1>1. n \in Nat BY LenProperties
<1>2. PICK free \in next..(next + n) : ~used(free) BY SomeNumberFree
<1> HIDE DEF n
<1>3. ASSUME NEW k \in next..(next + n), \A j \in next..(k - 1) : used(j) PROVE used(k)
  BY <1>3 DEF Free
<1> HIDE DEF used
<1> DEFINE P == {i \in 0..n : \A j \in next..(next + i) : used(j)}
<1>4. 0 \in P
  <2>1. next \in next..(next + n) /\ next..(next - 1) = {} /\ next..(next + 0) = {next}
    BY <1>1
  <2> QED BY <1>1, <1>3, <2>1
<1>5. ASSUME NEW i \in 1..n, i - 1 \in P PROVE i \in P
  <2>1. next + i \in next..(next + n) /\ next + (i - 1) = (next + i) - 1 BY <1>1
  <2>2. \A j \in next..((next + i) - 1) : used(j) BY <1>5, <2>1
  <2>3. used(next + i) BY <1>3, <2>1, <2>2
  <2>4. \A j \in next..(next + i) : j = next + i \/ j \in next..((next + i) - 1) BY <1>1
  <2>5. \A j \in next..(next + i) : used(j) BY <2>2, <2>3, <2>4
  <2> QED BY <1>1, <2>5
<1> HIDE DEF P
<1>6. \A i \in 0..n : i \in P BY <1>1, <1>4, <1>5, PositionInduction
<1>7. n \in P BY <1>1, <1>6
<1> QED BY <1>2, <1>7 DEF P

\* The state of retained_module's loop: the entries so far, and the next number
\* to try.
Entries == [ids : Seq(Names), next : Nat]

\* An entry is added under a name that no other has.
LEMMA AddEntryFresh ==
  ASSUME NEW h \in Entries
  PROVE  /\ AddEntry(h) \in Entries
         /\ IsInjective(h.ids) => IsInjective(AddEntry(h).ids)
<1>1. h.ids \in Seq(Names) /\ h.next \in Nat /\ Len(h.ids) \in Nat BY LenProperties DEF Entries
<1> DEFINE k == CHOOSE j \in h.next..(h.next + Len(h.ids)) : Free(h.ids, h.next, j)
           name == <<"edit", k>>
           ids == Append(h.ids, name)
<1>2. AddEntry(h) = [ids |-> ids, next |-> k + 1] BY DEF AddEntry, Free
<1>3. k \in h.next..(h.next + Len(h.ids)) /\ Free(h.ids, h.next, k)
  BY <1>1, FirstNumberFree
<1> HIDE DEF k
<1>4. k \in Nat /\ k + 1 \in Nat BY <1>1, <1>3
<1>5. name \in Names BY <1>4 DEF Names
<1>6. \A i \in 1..Len(h.ids) : h.ids[i] # name
  <2>1. DOMAIN h.ids = 1..Len(h.ids) BY <1>1, LenProperties
  <2>2. name \notin ToSet(h.ids) BY <1>3 DEF Free
  <2> HIDE DEF name
  <2> QED BY <2>1, <2>2 DEF ToSet
<1> HIDE DEF name
<1>7. /\ ids \in Seq(Names) /\ Len(ids) = Len(h.ids) + 1 /\ DOMAIN ids = 1..(Len(h.ids) + 1)
      /\ ids[Len(h.ids) + 1] = name
      /\ \A i \in 1..Len(h.ids) : ids[i] = h.ids[i]
  BY <1>1, <1>5, AppendProperties, LenProperties
<1> HIDE DEF ids
<1>8. AddEntry(h) \in Entries BY <1>2, <1>4, <1>7 DEF Entries
<1>9. ASSUME IsInjective(h.ids) PROVE IsInjective(ids)
  <2> SUFFICES ASSUME NEW a \in DOMAIN ids, NEW b \in DOMAIN ids, ids[a] = ids[b]
               PROVE  a = b
    BY DEF IsInjective
  <2>1. DOMAIN h.ids = 1..Len(h.ids) BY <1>1, LenProperties
  <2>2. /\ a \in 1..Len(h.ids) \/ a = Len(h.ids) + 1
        /\ b \in 1..Len(h.ids) \/ b = Len(h.ids) + 1
    BY <1>1, <1>7
  <2>3. CASE a \in 1..Len(h.ids) /\ b \in 1..Len(h.ids)
    BY <1>7, <1>9, <2>1, <2>3 DEF IsInjective
  <2>4. CASE a = Len(h.ids) + 1 \/ b = Len(h.ids) + 1 BY <1>6, <1>7, <2>2, <2>4
  <2> QED BY <2>2, <2>3, <2>4
<1>10. AddEntry(h).ids = ids BY <1>2
<1> QED BY <1>8, <1>9, <1>10

\* retained_module: whatever entries a module came with, earlier sessions' edits
\* among them, the names of the history that is written differ.
LEMMA HistoryInjective ==
  ASSUME NEW s, s.log \in Seq(Edits), s.history \in Seq(Names), IsInjective(s.history)
  PROVE  History(s) \in Seq(Names) /\ IsInjective(History(s))
<1> DEFINE n == Len(s.log)
           S == {h \in Entries : IsInjective(h.ids)}
           a == [ids |-> s.history, next |-> Len(s.history)]
           F == [p \in S \X (1..n) |-> AddEntry(p[1])]
           Eq(f) == f = [i \in 0..n |-> IF i = 0 THEN a ELSE AddEntry(f[i - 1])]
<1>1. n \in Nat BY LenProperties
<1>2. \A v \in S : AddEntry(v) \in S BY AddEntryFresh
<1>3. a \in S BY LenProperties DEF Entries
<1>4. History(s) = (CHOOSE f : Eq(f))[n].ids BY DEF History
<1>5. \A v \in S : v.ids \in Seq(Names) /\ IsInjective(v.ids) BY DEF Entries
<1> HIDE DEF S, n, a
<1>6. F \in [S \X (1..n) -> S] BY <1>2
<1>7. \A v \in S, i \in 1..n : F[<<v, i>>] = AddEntry(v) OBVIOUS
<1> HIDE DEF F
<1>8. PICK f : Built(n, S, a, F, f)
  <2>1. Buildable(n, S, a, F) BY <1>1, <1>3, <1>6 DEF Buildable
  <2> QED BY <2>1, RecursionExists
<1>9. f \in [0..n -> S] /\ f[0] = a BY <1>8 DEF Built
<1>10. ASSUME NEW i \in 1..n PROVE f[i] = AddEntry(f[i - 1])
  <2>1. i - 1 \in 0..n BY <1>1
  <2>2. f[i - 1] \in S BY <1>9, <2>1
  <2>3. f[i] = F[<<f[i - 1], i>>] BY <1>8 DEF Built
  <2> QED BY <1>7, <2>2, <2>3
<1>11. Eq(f)
  <2>1. \A i \in 0..n : i # 0 => i \in 1..n BY <1>1
  <2> QED BY <1>9, <1>10, <2>1
<1> DEFINE g == CHOOSE h : Eq(h)
<1>12. Eq(g) BY <1>11
<1>13. History(s) = g[n].ids BY <1>4
<1> HIDE DEF g
<1>14. g[0] = a BY <1>1, <1>12
<1>15. ASSUME NEW i \in 1..n PROVE g[i] = AddEntry(g[i - 1])
  <2>1. i \in 0..n /\ i # 0 BY <1>1
  <2> QED BY <1>12, <2>1
<1>16. \A i \in 0..n : f[i] = g[i]
  <2>1. InStep(n, f, g) BY <1>9, <1>10, <1>14, <1>15 DEF InStep
  <2> QED BY <1>1, <2>1, RecursionUnique
<1>17. g[n] \in S BY <1>1, <1>9, <1>16
<1> QED BY <1>5, <1>13, <1>17

------------------------------------------------------------------------------
(* What a solve depends on. *)

\* The part of a Study that says where a solve is: the base without its
\* coordinates, the injections of an instance, the formulation.
SameSite(s, t) ==
  /\ s.base.loads = t.base.loads
  /\ s.base.rate = t.base.rate
  /\ s.spec = t.spec
  /\ s.formulation = t.formulation

\* A solve and its checks see nothing else (dc_opf_solved, apply_demand_deltas,
\* apply_rating_deltas): the log, the bounds and the coordinates have no say.
LEMMA SolveSeesSite ==
  ASSUME NEW s, NEW t, SameSite(s, t), NEW edits, NEW log, NEW rows
  PROVE  /\ Point(s, edits) = Point(t, edits)
         /\ Accepted(s, edits, rows) = Accepted(t, edits, rows)
         /\ Solved(s, log, rows) = Solved(t, log, rows)
<1>1. \A b : Demand(s.base, b) = Demand(t.base, b) BY DEF SameSite, Demand
<1>2. \A l : Limit(s.base, l) = Limit(t.base, l) BY DEF SameSite, Limit
<1>3. \A b : NetInjection(s, b) = NetInjection(t, b)
  BY <1>1 DEF SameSite, NetInjection
<1>4. ASSUME NEW e PROVE Point(s, e) = Point(t, e)
  BY <1>1, <1>2, <1>3 DEF Point
<1>5. Accepted(s, edits, rows) = Accepted(t, edits, rows)
  BY <1>4 DEF Accepted, SameSite
<1>6. Solved(s, log, rows) = Solved(t, log, rows) BY <1>4 DEF Solved
<1> QED BY <1>4, <1>5, <1>6

\* An empty log edits nothing: it is canonical and every formulation takes it.
LEMMA EmptyLog ==
  ASSUME NEW s
  PROVE  Canonical(Fold(<<>>)) /\ Accepted(s, Fold(<<>>), {})
<1>1. DOMAIN Fold(<<>>) = {} BY DEF Fold
<1> QED BY <1>1 DEF Canonical, Accepted

\* commit_with appends the length of the longer log.
LEMMA CommitPartitions ==
  ASSUME NEW log \in Seq(Edits), NEW bounds \in Seq(Nat), Partition(log, bounds),
         NEW edits \in Seq(Edits)
  PROVE  /\ log \o edits \in Seq(Edits)
         /\ Append(bounds, Len(log \o edits)) \in Seq(Nat)
         /\ Partition(log \o edits, Append(bounds, Len(log \o edits)))
<1> DEFINE more == log \o edits
           n == Len(bounds)
           next == Append(bounds, Len(more))
<1>1. more \in Seq(Edits) /\ Len(more) = Len(log) + Len(edits) BY ConcatProperties
<1>2. Len(log) \in Nat /\ Len(edits) \in Nat /\ n \in Nat /\ Len(more) \in Nat
  BY <1>1, LenProperties
<1>3. /\ next \in Seq(Nat)
      /\ Len(next) = n + 1
      /\ next[n + 1] = Len(more)
      /\ \A i \in 1..n : next[i] = bounds[i]
  BY <1>2, AppendProperties
<1>4. \A i \in 1..n : bounds[i] \in Nat BY ElementOfSeq
<1>5. n > 0 => bounds[n] = Len(log)
  <2>1. bounds # <<>> => n # 0 BY EmptySeq
  <2>2. n > 0 => bounds # <<>> BY EmptySeq
  <2> QED BY <2>2 DEF Partition, Last
<1>6. next # <<>>
  <2>1. Len(next) # 0 BY <1>2, <1>3
  <2> QED BY <1>3, <2>1, EmptySeq
<1> HIDE DEF next, more
<1>7. ASSUME NEW i \in 2..Len(next) PROVE next[i - 1] <= next[i]
  <2>1. CASE i \in 2..n
    <3>1. bounds[i - 1] <= bounds[i] BY <2>1 DEF Partition
    <3>2. i - 1 \in 1..n /\ i \in 1..n BY <1>2, <2>1
    <3>3. next[i - 1] = bounds[i - 1] /\ next[i] = bounds[i] BY <1>3, <3>2
    <3> QED BY <3>1, <3>3
  <2>2. CASE i = n + 1
    <3>1. n > 0 /\ i - 1 = n /\ n \in 1..n BY <1>2, <1>3, <1>7, <2>2
    <3>2. next[i - 1] = Len(log) /\ next[i] = Len(more) BY <1>3, <1>5, <2>2, <3>1
    <3> QED BY <1>1, <1>2, <3>2
  <2> QED BY <1>2, <1>3, <1>7, <2>1, <2>2
<1>8. Last(next) = Len(more) BY <1>3 DEF Last
<1>9. Partition(more, next) BY <1>6, <1>7, <1>8 DEF Partition
<1> QED BY <1>1, <1>3, <1>9 DEF more, next

\* replace_edits_with leaves one commit, or none.
LEMMA ReplacePartitions ==
  ASSUME NEW edits \in Seq(Edits)
  PROVE  LET bounds == IF edits = <<>> THEN <<>> ELSE <<Len(edits)>> IN
         bounds \in Seq(Nat) /\ Partition(edits, bounds)
<1>1. Len(edits) \in Nat BY LenProperties
<1>2. CASE edits = <<>>
  <2>1. <<>> \in Seq(Nat) /\ Len(<<>>) = 0 BY EmptySeq
  <2> QED BY <1>2, <2>1 DEF Partition
<1>3. CASE edits # <<>>
  <2> DEFINE one == <<Len(edits)>>
  <2>1. one \in Seq(Nat) /\ Len(one) = 1 /\ one[1] = Len(edits) BY <1>1
  <2> HIDE DEF one
  <2>2. one # <<>>
    <3>1. Len(one) # 0 BY <2>1
    <3> QED BY <2>1, <3>1, EmptySeq
  <2>3. Partition(edits, one) BY <2>1, <2>2 DEF Partition, Last
  <2> QED BY <1>3, <2>1, <2>3 DEF one
<1> QED BY <1>2, <1>3

\* A batch is a sequence of edits.
LEMMA BatchIsSequence ==
  ASSUME NEW edits \in Batches
  PROVE  edits \in Seq(Edits)
<1>1. PICK n \in 0..MaxLog : edits \in [1..n -> Edits] BY DEF Batches
<1>2. n \in Nat BY StudyAssumption
<1> QED BY <1>1, <1>2

------------------------------------------------------------------------------
(* The actions. *)

\* Study::new: the first point solved is the base.
LEMMA NewInv ==
  ASSUME NEW m, NEW f
  PROVE  /\ Shape(New(m, f)) /\ Current(New(m, f))
         /\ New(m, f).base = m.net /\ New(m, f).spec = m.spec
         /\ New(m, f).history = m.history /\ New(m, f).log = <<>>
         /\ New(m, f).constraints = {}
<1> DEFINE s == [formulation |-> f, base |-> m.net, spec |-> m.spec, history |-> m.history,
                 log |-> <<>>, bounds |-> <<>>, constraints |-> {}, solved |-> None]
           point == Solved(s, <<>>, {})
           t == [s EXCEPT !.solved = point]
<1>1. New(m, f) = t BY DEF New
<1> HIDE DEF point
<1>2. /\ t = [x \in Fields |-> t[x]]
      /\ t.log = <<>> /\ t.bounds = <<>> /\ t.constraints = {}
      /\ t.solved = point
      /\ t.base = m.net /\ t.spec = m.spec /\ t.history = m.history
      /\ SameSite(s, t)
  BY DEF Fields, SameSite
<1> HIDE DEF t, s
<1>3. <<>> \in Seq(Edits) /\ <<>> \in Seq(Nat) /\ Len(<<>>) = 0 BY EmptySeq
<1>4. Shape(t) BY <1>2, <1>3 DEF Shape
<1>5. t.solved = Solved(t, <<>>, {}) BY <1>2, SolveSeesSite DEF point
<1>6. Partition(<<>>, <<>>) BY <1>3 DEF Partition
<1>7. Current(t) BY <1>2, <1>5, <1>6, EmptyLog DEF Current
<1> QED BY <1>1, <1>2, <1>4, <1>7

\* commit_log, whatever it is called with.
LEMMA CommitLogInv ==
  ASSUME Inv, NEW log \in Seq(Edits), NEW bounds \in Seq(Nat), Partition(log, bounds),
         CommitLog(log, bounds)
  PROVE  Inv'
<1>1. CASE UNCHANGED study
  BY <1>1 DEF Inv, Shape, Typed, Current
<1>2. CASE /\ Canonical(Fold(log))
           /\ Accepted(study, Fold(log), study.constraints)
           /\ study' = [study EXCEPT !.log = log, !.bounds = bounds,
                                     !.solved = Solved(study, log, study.constraints)]
  <2> DEFINE point == Solved(study, log, study.constraints)
  <2> HIDE DEF point
  <2>1. study' = [study EXCEPT !.log = log, !.bounds = bounds, !.solved = point]
    BY <1>2 DEF point
  <2>2. /\ study' = [x \in Fields |-> study'[x]]
        /\ study'.log = log /\ study'.bounds = bounds
        /\ study'.constraints = study.constraints
        /\ study'.solved = point
        /\ study'.base = study.base /\ study'.history = study.history
        /\ SameSite(study, study')
    BY <2>1 DEF Inv, Shape, Fields, SameSite
  <2>3. Shape(study)' BY <2>2 DEF Shape
  <2>4. /\ point = Solved(study', log, study.constraints)
        /\ Accepted(study', Fold(log), study.constraints)
    BY <1>2, <2>2, SolveSeesSite DEF point
  <2>5. Current(study)' BY <1>2, <2>2, <2>4 DEF Current
  <2>6. Typed(study'.base, study'.spec, study'.history) BY <2>2 DEF Inv, SameSite
  <2> QED BY <2>3, <2>5, <2>6 DEF Inv
<1> QED BY <1>1, <1>2 DEF CommitLog

\* set_constraints: the rows are in place when the solve succeeds, and the
\* former ones again when it does not.
LEMMA SetConstraintsInv ==
  ASSUME Inv, NEW rows, SetConstraints(rows)
  PROVE  Inv'
<1> DEFINE s == [study EXCEPT !.constraints = rows]
<1>1. \/ /\ Accepted(s, Fold(s.log), rows)
         /\ study' = [s EXCEPT !.solved = Solved(s, s.log, rows)]
      \/ study' = Restored(s, study.constraints)
  BY DEF SetConstraints
<1>2. /\ s = [x \in Fields |-> s[x]]
      /\ \A x \in Fields \ {"constraints"} : s[x] = study[x]
      /\ s.constraints = rows
  BY DEF Inv, Shape, Fields
<1>3. SameSite(study, s) /\ s.log = study.log /\ s.bounds = study.bounds
      /\ s.base = study.base /\ s.spec = study.spec /\ s.history = study.history
  BY <1>2 DEF SameSite, Fields
<1>4. CASE study' = Restored(s, study.constraints)
  <2>1. study' = study BY <1>4 DEF Restored, Inv, Shape, Fields
  <2> QED BY <2>1 DEF Inv, Shape, Typed, Current
<1> HIDE DEF s
<1>5. CASE /\ Accepted(s, Fold(s.log), rows)
           /\ study' = [s EXCEPT !.solved = Solved(s, s.log, rows)]
  <2> DEFINE point == Solved(s, s.log, rows)
  <2> HIDE DEF point
  <2>1. study' = [s EXCEPT !.solved = point] BY <1>5 DEF point
  <2>2. /\ study' = [x \in Fields |-> study'[x]]
        /\ study'.log = study.log /\ study'.bounds = study.bounds
        /\ study'.constraints = rows
        /\ study'.solved = point
        /\ study'.base = s.base /\ study'.spec = s.spec /\ study'.history = s.history
        /\ SameSite(s, study')
    BY <1>2, <1>3, <2>1 DEF Fields, SameSite
  <2>3. Shape(study)' BY <2>2 DEF Inv, Shape
  <2>4. /\ point = Solved(study', study'.log, rows)
        /\ Accepted(study', Fold(study'.log), rows)
    BY <1>3, <1>5, <2>2, SolveSeesSite DEF point
  <2>5. Current(study)' BY <2>2, <2>4 DEF Inv, Current
  <2>6. Typed(study'.base, study'.spec, study'.history) BY <1>3, <2>2 DEF Inv
  <2> QED BY <2>3, <2>5, <2>6 DEF Inv
<1> QED BY <1>1, <1>4, <1>5

\* apply_geo_layer: nothing a solve depends on moves.
LEMMA ApplyGeoLayerInv ==
  ASSUME Inv, ApplyGeoLayer
  PROVE  Inv'
<1> DEFINE base == [loads |-> study.base.loads, rate |-> study.base.rate, located |-> TRUE]
<1>1. study' = [study EXCEPT !.base = base] BY DEF ApplyGeoLayer
<1>2. /\ base.loads = study.base.loads /\ base.rate = study.base.rate
      /\ base \in Networks
  BY DEF Inv, Typed, Networks
<1> HIDE DEF base
<1>3. /\ study' = [x \in Fields |-> study'[x]]
      /\ study'.base = base
      /\ \A x \in Fields \ {"base"} : study'[x] = study[x]
  BY <1>1 DEF Inv, Shape, Fields
<1>4. /\ study'.log = study.log /\ study'.bounds = study.bounds
      /\ study'.constraints = study.constraints /\ study'.solved = study.solved
      /\ study'.spec = study.spec /\ study'.history = study.history
      /\ SameSite(study, study')
  BY <1>2, <1>3 DEF Fields, SameSite
<1>5. Shape(study)' BY <1>3, <1>4 DEF Inv, Shape
<1>6. /\ Solved(study', study.log, study.constraints) = Solved(study, study.log, study.constraints)
      /\ Accepted(study', Fold(study.log), study.constraints)
           = Accepted(study, Fold(study.log), study.constraints)
  BY <1>4, SolveSeesSite
<1>7. Current(study)' BY <1>4, <1>6 DEF Inv, Current
<1>8. Typed(study'.base, study'.spec, study'.history) BY <1>2, <1>3, <1>4 DEF Inv, Typed
<1> QED BY <1>5, <1>7, <1>8 DEF Inv

------------------------------------------------------------------------------
(* Saves. *)

\* materialized_instance: an instance's injections are those of the solved point.
LEMMA SpecificationFacts ==
  ASSUME NEW s, s.log \in Seq(Edits), Canonical(Fold(s.log)),
         Typed(s.base, s.spec, s.history), Materialized(s) # None
  PROVE  /\ Specification(s, Materialized(s)) \in [Buses -> Int]
         /\ \A b \in Buses \ {Reference} :
              Specification(s, Materialized(s))[b] = NetInjection(s, b) - Moved(s.log, b)
<1> DEFINE net == Materialized(s)
           spec == Specification(s, net)
<1>1. /\ net \in Networks
      /\ \A b \in Buses : Demand(net, b) = Demand(s.base, b) + Moved(s.log, b)
  BY MaterializedMoves DEF Typed
<1>2. \A b \in Buses : /\ Demand(s.base, b) \in Int /\ Moved(s.log, b) \in Int
                       /\ Generation[b] \in Int
                       /\ s.spec # None => s.spec[b] \in Int
  BY NetworkNumbers, AggregateMoves, StudyAssumption DEF Typed, Elements
<1> HIDE DEF net
<1>3. ASSUME NEW b \in Buses
      PROVE  /\ spec[b] \in Int
             /\ b # Reference => spec[b] = NetInjection(s, b) - Moved(s.log, b)
  <2>1. spec[b] = IF s.spec = None THEN Generation[b] - Demand(net, b)
                  ELSE IF b = Reference THEN s.spec[b]
                  ELSE s.spec[b] - Moved(s.log, b)
    BY DEF Specification
  <2>2. CASE s.spec = None
    <3>1. \A p, q, r \in Int : p - (q + r) \in Int /\ p - (q + r) = (p - q) - r OBVIOUS
    <3>2. spec[b] = Generation[b] - (Demand(s.base, b) + Moved(s.log, b)) BY <1>1, <2>1, <2>2
    <3>3. NetInjection(s, b) = Generation[b] - Demand(s.base, b) BY <2>2 DEF NetInjection
    <3> QED BY <1>2, <3>1, <3>2, <3>3
  <2>3. CASE s.spec # None
    <3>1. NetInjection(s, b) = s.spec[b] BY <2>3 DEF NetInjection
    <3> QED BY <1>2, <2>1, <2>3, <3>1
  <2> QED BY <2>2, <2>3
<1>4. spec = [b \in Buses |-> spec[b]] BY DEF Specification
<1> HIDE DEF spec
<1>5. spec \in [Buses -> Int] BY <1>3, <1>4
<1> QED BY <1>3, <1>5 DEF spec, net

\* What every save returns (save_module, save_instance_module,
\* save_solution_module): the materialized network, a module that another
\* session can start from, and no constraints left behind.
LEMMA SavedFacts ==
  ASSUME NEW s, s.log \in Seq(Edits), Canonical(Fold(s.log)),
         Typed(s.base, s.spec, s.history), NEW m \in Saved(s)
  PROVE  /\ Materialized(s) # None /\ m.net = Materialized(s)
         /\ Typed(m.net, m.spec, m.history)
         /\ m.kind # "network" => s.constraints = {}
         /\ m.kind = "network" => m.spec = None
         /\ (m.kind # "network" /\ s.formulation = "acpf")
              => m.spec = Specification(s, Materialized(s))
<1> DEFINE net == Materialized(s)
           spec == IF s.formulation = "acpf" THEN Specification(s, net) ELSE None
           kept == IF s.formulation = "dcopf" THEN History(s) ELSE s.history
<1>1. m # None /\ (m = SaveModule(s) \/ m = SaveInstanceModule(s) \/ m = SaveSolutionModule(s))
  BY DEF Saved
<1>2. \/ m = [kind |-> "network", of |-> None, net |-> net, spec |-> None, history |-> History(s)]
         /\ net # None
      \/ \E kind \in {"instance", "solution"}, history \in {s.history, History(s)} :
           /\ m = [kind |-> kind, of |-> s.formulation, net |-> net, spec |-> spec,
                   history |-> history]
           /\ net # None /\ s.constraints = {}
  <2>1. CASE m = SaveModule(s) BY <1>1, <2>1 DEF SaveModule
  <2>2. CASE m = SaveInstanceModule(s)
    <3>1. /\ m = [kind |-> "instance", of |-> s.formulation, net |-> net, spec |-> spec,
                  history |-> s.history]
          /\ net # None /\ s.constraints = {}
      BY <1>1, <2>2 DEF SaveInstanceModule, Instance
    <3> HIDE DEF net, spec
    <3> QED BY <3>1
  <2>3. CASE m = SaveSolutionModule(s)
    <3>1. /\ m = [kind |-> "solution", of |-> s.formulation, net |-> net, spec |-> spec,
                  history |-> kept]
          /\ net # None /\ s.constraints = {}
      BY <1>1, <2>3 DEF SaveSolutionModule, Instance
    <3>2. kept \in {s.history, History(s)} OBVIOUS
    <3> HIDE DEF net, spec, kept
    <3> QED BY <3>1, <3>2
  <2> QED BY <1>1, <2>1, <2>2, <2>3
<1>3. net # None BY <1>2
<1>4. net \in Networks BY <1>3, MaterializedMoves DEF Typed
<1>5. spec \in [Buses -> Int] \cup {None} BY <1>3, SpecificationFacts
<1>6. \A h \in {s.history, History(s)} : h \in Seq(Names) /\ IsInjective(h)
  BY HistoryInjective DEF Typed
<1>7. s.formulation = "acpf" => spec = Specification(s, net) OBVIOUS
<1> HIDE DEF net, spec
<1>8. CASE m = [kind |-> "network", of |-> None, net |-> net, spec |-> None,
                history |-> History(s)]
  BY <1>3, <1>4, <1>6, <1>8 DEF Typed, net
<1>9. ASSUME NEW kind \in {"instance", "solution"}, NEW history \in {s.history, History(s)},
             m = [kind |-> kind, of |-> s.formulation, net |-> net, spec |-> spec,
                  history |-> history],
             s.constraints = {}
      PROVE  /\ m.net = net /\ m.kind # "network" /\ m.spec = spec /\ m.history = history
             /\ Typed(m.net, m.spec, m.history)
  BY <1>4, <1>5, <1>6, <1>9 DEF Typed
<1> QED BY <1>2, <1>3, <1>7, <1>8, <1>9 DEF net

\* An empty log moves nothing.
LEMMA EmptyMoves ==
  ASSUME NEW e \in Elements
  PROVE  Aggregate(Fold(<<>>))[e] = 0
<1>1. <<>> \in Seq(Edits) /\ Len(<<>>) = 0 OBVIOUS
<1>2. Moved(<<>>, e) = Total(Part(<<>>, e)) BY DEF Moved, Part
<1>3. Part(<<>>, e) \in Seq(Int) /\ Len(Part(<<>>, e)) = 0 BY <1>1, PartType
<1>4. \A i \in 1..Len(Part(<<>>, e)) : Part(<<>>, e)[i] = 0 BY <1>3
<1>5. Total(Part(<<>>, e)) = 0 BY <1>3, <1>4, TotalZero
<1> QED BY <1>1, <1>2, <1>5, AggregateMoves

\* The fields of the point p that a Study s has for some edits.
Fielded(s, edits, p) ==
  /\ p.demand = [b \in Buses |-> Demand(s.base, b) + Aggregate(edits)[b]]
  /\ p.limit = [l \in Branches |-> Limit(s.base, l) + Aggregate(edits)[l]]
  /\ p.injection = [b \in Buses \ {Reference} |-> NetInjection(s, b) - Aggregate(edits)[b]]

\* dc_opf_solved: base plus edits, field by field.
LEMMA PointFacts ==
  ASSUME NEW s, NEW edits
  PROVE  Fielded(s, edits, Point(s, edits))
BY DEF Point, Fielded

------------------------------------------------------------------------------
(* The theorems. *)

\* Every step keeps the invariant.
LEMMA NextInv ==
  ASSUME Inv, Next
  PROVE  Inv'
<1>1. ASSUME NEW edits \in Batches, CommitWith(edits) PROVE Inv'
  <2> DEFINE log == study.log \o edits
             bounds == Append(study.bounds, Len(log))
  <2>1. CommitLog(log, bounds) BY <1>1 DEF CommitWith
  <2>2. edits \in Seq(Edits) BY BatchIsSequence
  <2>3. Partition(study.log, study.bounds) BY DEF Inv, Current
  <2>4. log \in Seq(Edits) /\ bounds \in Seq(Nat) /\ Partition(log, bounds)
    BY <2>2, <2>3, CommitPartitions DEF Inv, Shape
  <2> QED BY <2>1, <2>4, CommitLogInv
<1>2. ASSUME NEW edits \in Batches, ReplaceEditsWith(edits) PROVE Inv'
  <2> DEFINE bounds == IF edits = <<>> THEN <<>> ELSE <<Len(edits)>>
  <2>1. CommitLog(edits, bounds) BY <1>2 DEF ReplaceEditsWith
  <2>2. edits \in Seq(Edits) BY BatchIsSequence
  <2>3. bounds \in Seq(Nat) /\ Partition(edits, bounds) BY <2>2, ReplacePartitions
  <2> QED BY <2>1, <2>2, <2>3, CommitLogInv
<1>3. ASSUME NEW rows \in Rows, SetConstraints(rows) PROVE Inv' BY <1>3, SetConstraintsInv
<1>4. CASE ApplyGeoLayer BY <1>4, ApplyGeoLayerInv
<1>5. ASSUME NEW f \in Formulations, Reload(f) PROVE Inv'
  <2>1. PICK m \in Saved(study) : study' = New(m, f) BY <1>5 DEF Reload
  <2>2. Typed(m.net, m.spec, m.history) BY SavedFacts DEF Inv, Shape, Current
  <2> QED BY <2>1, <2>2, NewInv DEF Inv
<1> QED BY <1>1, <1>2, <1>3, <1>4, <1>5 DEF Next

\* The invariant holds in every state, over any number of sessions.
THEOREM Invariance == Spec => []Inv
<1>1. Init => Inv
  <2> SUFFICES ASSUME NEW m \in Sources, NEW f, study = New(m, f) PROVE Inv
    BY DEF Init
  <2>1. Typed(m.net, m.spec, m.history) BY StudyAssumption DEF Typed
  <2> QED BY <2>1, NewInv DEF Inv
<1>2. Inv /\ UNCHANGED vars => Inv' BY DEF Inv, Shape, Typed, Current, vars
<1> QED BY <1>1, <1>2, NextInv, PTL DEF Spec

\* SolvedIsCurrent: the point solved last belongs to the base, the whole log and
\* the constraints, after commits, replacements, failed solves (commit_log,
\* set_constraints), new coordinates and reloads.
THEOREM SolutionIsCurrent == Spec => []SolvedIsCurrent
<1>1. Inv => SolvedIsCurrent BY DEF Inv, Current, Partition, SolvedIsCurrent
<1> QED BY Invariance, <1>1, PTL

\* PreviewReaches: the step that preview_replacement linearizes leads from the
\* point solved last to the point that replace_edits would solve, for any two
\* logs: keys that appear, disappear or cancel, and both keys of an element.
THEOREM PreviewReachesTarget == Spec => []PreviewReaches
<1>1. Inv => PreviewReaches
  <2> SUFFICES ASSUME Inv, NEW target \in Batches
               PROVE  LET delta == Aggregate(ReplacementStep(study.log, target))
                          there == Point(study, Fold(target))
                      IN  /\ \A b \in Buses :
                               study.solved.point.demand[b] + delta[b] = there.demand[b]
                          /\ \A l \in Branches :
                               study.solved.point.limit[l] + delta[l] = there.limit[l]
    BY DEF PreviewReaches
  <2> DEFINE log == study.log
             delta == Aggregate(ReplacementStep(log, target))
             there == Point(study, Fold(target))
             here == study.solved.point
             from == Aggregate(Fold(log))
             to == Aggregate(Fold(target))
  <2>1. log \in Seq(Edits) /\ target \in Seq(Edits) BY BatchIsSequence DEF Inv, Shape
  <2>2. here = Point(study, Fold(log)) BY DEF Inv, Current, Solved
  <2>3. \A e \in Elements : /\ delta[e] = to[e] - from[e]
                            /\ to[e] \in Int /\ from[e] \in Int
    BY <2>1, AggregateStep, AggregateMoves
  <2>4. \A p, q, r \in Int : (p + q) + (r - q) = p + r OBVIOUS
  <2>5. /\ \A b \in Buses : Demand(study.base, b) \in Int
        /\ \A l \in Branches : Limit(study.base, l) \in Int
    BY NetworkNumbers DEF Inv, Typed
  <2>6. /\ here.demand = [b \in Buses |-> Demand(study.base, b) + from[b]]
        /\ here.limit = [l \in Branches |-> Limit(study.base, l) + from[l]]
    <3>1. Fielded(study, Fold(log), here) BY <2>2, PointFacts
    <3> QED BY <3>1 DEF Fielded
  <2>7. /\ there.demand = [b \in Buses |-> Demand(study.base, b) + to[b]]
        /\ there.limit = [l \in Branches |-> Limit(study.base, l) + to[l]]
    <3>1. Fielded(study, Fold(target), there) BY PointFacts
    <3> QED BY <3>1 DEF Fielded
  <2> HIDE DEF delta, there, here, from, to
  <2>8. ASSUME NEW b \in Buses PROVE here.demand[b] + delta[b] = there.demand[b]
    <3>1. b \in Elements BY DEF Elements
    <3> QED BY <2>3, <2>4, <2>5, <2>6, <2>7, <3>1
  <2>9. ASSUME NEW l \in Branches PROVE here.limit[l] + delta[l] = there.limit[l]
    <3>1. l \in Elements BY DEF Elements
    <3> QED BY <2>3, <2>4, <2>5, <2>6, <2>7, <3>1
  <2> QED BY <2>8, <2>9 DEF delta, there, here
<1> QED BY Invariance, <1>1, PTL

\* SavedIsSolved: whatever save_module, save_instance_module and
\* save_solution_module return is the point solved last: the replay of
\* apply_network_edits, in the order of the log, ends where the folded log was
\* solved, a Study started from the file starts there, constraints and
\* coordinates are not lost and the history's ids differ.
THEOREM SavesAreSolved == Spec => []SavedIsSolved
<1>1. Inv => SavedIsSolved
  <2> SUFFICES ASSUME Inv, NEW m \in Saved(study)
               PROVE  LET again == New(m, study.formulation).solved.point
                          point == study.solved.point
                      IN
                      /\ again.demand = point.demand
                      /\ again.limit = point.limit
                      /\ (study.formulation = "acpf" /\ (study.spec = None \/ m.kind # "network"))
                           => again.injection = point.injection
                      /\ m.kind # "network" => study.solved.rows = {}
                      /\ m.net.located = study.base.located
                      /\ IsInjective(m.history)
    BY DEF SavedIsSolved
  <2> DEFINE log == study.log
             t == New(m, study.formulation)
             again == t.solved.point
             point == study.solved.point
             net == Materialized(study)
             none == Aggregate(Fold(<<>>))
             delta == Aggregate(Fold(log))
  <2>1. log \in Seq(Edits) /\ Canonical(Fold(log))
        /\ Typed(study.base, study.spec, study.history)
    BY DEF Inv, Shape, Current
  <2>2. /\ net # None /\ m.net = net /\ Typed(m.net, m.spec, m.history)
        /\ m.kind # "network" => study.constraints = {}
        /\ m.kind = "network" => m.spec = None
        /\ (m.kind # "network" /\ study.formulation = "acpf")
             => m.spec = Specification(study, net)
    BY <2>1, SavedFacts
  <2>3. point = Point(study, Fold(log)) /\ study.solved.rows = study.constraints
    BY DEF Inv, Current, Solved
  <2>4. again = Point(t, Fold(<<>>)) /\ t.base = m.net /\ t.spec = m.spec
    <3>1. Current(t) /\ t.log = <<>> /\ t.base = m.net /\ t.spec = m.spec BY NewInv
    <3> QED BY <3>1 DEF Current, Solved
  <2>5. /\ net \in Networks /\ net.located = study.base.located
        /\ \A b \in Buses : Demand(net, b) = Demand(study.base, b) + Moved(log, b)
        /\ \A l \in Branches : Limit(net, l) = Limit(study.base, l) + Moved(log, l)
    BY <2>1, <2>2, MaterializedMoves DEF Typed
  <2>6. \A e \in Elements : none[e] = 0 /\ delta[e] = Moved(log, e) /\ Moved(log, e) \in Int
    BY <2>1, EmptyMoves, AggregateMoves
  <2>7. /\ point.demand = [b \in Buses |-> Demand(study.base, b) + delta[b]]
        /\ point.limit = [l \in Branches |-> Limit(study.base, l) + delta[l]]
        /\ point.injection = [b \in Buses \ {Reference} |-> NetInjection(study, b) - delta[b]]
    <3>1. Fielded(study, Fold(log), point) BY <2>3, PointFacts
    <3> QED BY <3>1 DEF Fielded
  <2>8. /\ again.demand = [b \in Buses |-> Demand(net, b) + none[b]]
        /\ again.limit = [l \in Branches |-> Limit(net, l) + none[l]]
        /\ again.injection = [b \in Buses \ {Reference} |-> NetInjection(t, b) - none[b]]
    <3>1. Fielded(t, Fold(<<>>), again) BY <2>4, PointFacts
    <3> QED BY <2>2, <2>4, <3>1 DEF Fielded
  <2>9. /\ \A b \in Buses : Demand(net, b) \in Int /\ Demand(study.base, b) \in Int
        /\ \A l \in Branches : Limit(net, l) \in Int
    BY <2>1, <2>5, NetworkNumbers DEF Typed
  <2> HIDE DEF t, again, point, net, none, delta, log
  <2>10. again.demand = point.demand
    <3>1. \A b \in Buses : Demand(net, b) + none[b] = Demand(study.base, b) + delta[b]
      BY <2>5, <2>6, <2>9 DEF Elements
    <3> QED BY <2>7, <2>8, <3>1
  <2>11. again.limit = point.limit
    <3>1. \A l \in Branches : Limit(net, l) + none[l] = Limit(study.base, l) + delta[l]
      BY <2>5, <2>6, <2>9 DEF Elements
    <3> QED BY <2>7, <2>8, <3>1
  <2>12. ASSUME study.formulation = "acpf", study.spec = None \/ m.kind # "network"
         PROVE  again.injection = point.injection
    <3>1. ASSUME NEW b \in Buses \ {Reference}
          PROVE  NetInjection(t, b) - none[b] = NetInjection(study, b) - delta[b]
      <4>1. b \in Elements /\ b \in Buses BY DEF Elements
      <4>2. Generation[b] \in Int BY <4>1, StudyAssumption
      <4>3. CASE m.kind = "network"
        <5>1. NetInjection(study, b) = Generation[b] - Demand(study.base, b)
          BY <2>12, <4>3 DEF NetInjection
        <5>2. NetInjection(t, b) = Generation[b] - Demand(net, b)
          BY <2>2, <2>4, <4>3 DEF NetInjection
        <5>3. \A p, q, r \in Int : (p - (q + r)) - 0 = (p - q) - r OBVIOUS
        <5>4. Demand(net, b) = Demand(study.base, b) + Moved(log, b)
              /\ Demand(study.base, b) \in Int
          BY <2>5, <2>9, <4>1
        <5>5. none[b] = 0 /\ delta[b] = Moved(log, b) /\ Moved(log, b) \in Int BY <2>6, <4>1
        <5> QED BY <4>2, <5>1, <5>2, <5>3, <5>4, <5>5
      <4>4. CASE m.kind # "network"
        <5>1. m.spec = Specification(study, net) BY <2>2, <2>12, <4>4
        <5>2. /\ Specification(study, net) \in [Buses -> Int]
              /\ Specification(study, net)[b] = NetInjection(study, b) - Moved(log, b)
          BY <2>1, <2>2, SpecificationFacts DEF net, log
        <5>3. m.spec # None /\ m.spec[b] \in Int BY <4>1, <5>1, <5>2, StudyAssumption
        <5>4. NetInjection(t, b) = m.spec[b] BY <2>4, <5>3 DEF NetInjection
        <5>5. none[b] = 0 /\ delta[b] = Moved(log, b) BY <2>6, <4>1
        <5>6. m.spec[b] - 0 = m.spec[b] BY <5>3
        <5> QED BY <5>1, <5>2, <5>4, <5>5, <5>6
      <4> QED BY <4>3, <4>4
    <3> QED BY <2>7, <2>8, <3>1
  <2>13. m.net.located = study.base.located /\ IsInjective(m.history)
    BY <2>2, <2>5 DEF Typed
  <2>14. m.kind # "network" => study.solved.rows = {} BY <2>2, <2>3
  <2> QED BY <2>10, <2>11, <2>12, <2>13, <2>14 DEF again, point, t
<1> QED BY Invariance, <1>1, PTL
==============================================================================
