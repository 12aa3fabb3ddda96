----------------------------- MODULE FoldProofs -----------------------------
(***************************************************************************)
(* What the folds that the model uses compute, for arguments of any size:    *)
(* the sum of a function over a finite set (the tokens of a chat's clients), *)
(* and sequences put together (the messages of a request).  Both are         *)
(* recursive functions, each chosen as one that satisfies its equation; so   *)
(* that there is one has to be shown first.                                  *)
(***************************************************************************)
EXTENDS SequencesExt, FiniteSetTheorems, WellFoundedInduction, TLAPS

\* A set of sets has a smallest one, if they are subsets of a finite set.
LEMMA SmallestSet ==
    ASSUME NEW S, IsFiniteSet(S), NEW T \in SUBSET SUBSET S, T # {}
    PROVE  \E t \in T : \A u \in T : u \subseteq t => u = t
<1>1. IsWellFoundedOn(StrictSubsetOrdering(S), FiniteSubsetsOf(S))
  BY FS_StrictSubsetOrderingWellFounded
<1>2. T \subseteq FiniteSubsetsOf(S)
  BY FS_FiniteSubsetsOfFinite
<1>3. PICK t \in T : \A u \in T : <<u, t>> \notin StrictSubsetOrdering(S)
  BY <1>1, <1>2, WFMin
<1>4. ASSUME NEW u \in T, u \subseteq t PROVE u = t
  <2>1. u \in SUBSET S /\ t \in SUBSET S
    OBVIOUS
  <2> QED BY <1>3, <1>4, <2>1 DEF StrictSubsetOrdering
<1> QED BY <1>4

----------------------------------------------------------------------------
(* Sums.  What a sum of naturals counts: the units of each summand.           *)

Pick(t) == CHOOSE x \in t : TRUE

Units(f, t) == {u \in t \X Nat : 1 <= u[2] /\ u[2] <= f[u[1]]}

SumEquation(g, f, S) ==
    g = [t \in SUBSET S |-> IF t = {} THEN 0 ELSE f[Pick(t)] + g[t \ {Pick(t)}]]

LEMMA SumUnfolds ==
    ASSUME NEW f, NEW S
    PROVE  SumFunctionOnSet(f, S) = (CHOOSE g : SumEquation(g, f, S))[S]
  BY DEF SumFunctionOnSet, FoldFunctionOnSet, MapThenFoldSet, Pick, SumEquation

LEMMA PickIn ==
    ASSUME NEW t, t # {}
    PROVE  Pick(t) \in t /\ t \ {Pick(t)} \subseteq t /\ t \ {Pick(t)} # t
  BY DEF Pick

\* One summand more.
LEMMA UnitsOfOne ==
    ASSUME NEW S, NEW f \in [S -> Nat], NEW t \in SUBSET S, NEW x \in t,
           IsFiniteSet(Units(f, t \ {x}))
    PROVE  /\ IsFiniteSet(Units(f, t))
           /\ Cardinality(Units(f, t)) = f[x] + Cardinality(Units(f, t \ {x}))
<1> DEFINE rest == Units(f, t \ {x})
           mine == {x} \X (1 .. f[x])
<1>1. f[x] \in Nat
  OBVIOUS
<1>2. Units(f, t) = rest \cup mine
  <2>1. ASSUME NEW u \in Units(f, t) PROVE u \in rest \cup mine
    <3>1. u \in t \X Nat /\ 1 <= u[2] /\ u[2] <= f[u[1]]
      BY DEF Units
    <3>2. PICK y \in t, k \in Nat : u = <<y, k>>
      BY <3>1
    <3>3. 1 <= k /\ k <= f[y]
      BY <3>1, <3>2
    <3>4. CASE y = x
      BY <1>1, <3>2, <3>3, <3>4
    <3>5. CASE y # x
      BY <3>2, <3>3, <3>5 DEF Units
    <3> QED BY <3>4, <3>5
  <2>2. ASSUME NEW u \in rest PROVE u \in Units(f, t)
    BY DEF Units
  <2>3. ASSUME NEW u \in mine PROVE u \in Units(f, t)
    <3>1. PICK k \in 1 .. f[x] : u = <<x, k>>
      OBVIOUS
    <3> QED BY <1>1, <3>1 DEF Units
  <2> HIDE DEF rest, mine
  <2> QED BY <2>1, <2>2, <2>3
<1>3. rest \cap mine = {}
  BY DEF Units
<1>4. IsFiniteSet(mine) /\ Cardinality(mine) = f[x]
  <2>1. IsFiniteSet({x}) /\ Cardinality({x}) = 1
    BY FS_Singleton
  <2>2. IsFiniteSet(1 .. f[x]) /\ Cardinality(1 .. f[x]) = f[x]
    BY <1>1, FS_Interval
  <2>3. IsFiniteSet(mine) /\ Cardinality(mine) = 1 * f[x]
    BY <2>1, <2>2, FS_Product
  <2> QED BY <1>1, <2>3
<1> HIDE DEF rest, mine
<1>5. /\ IsFiniteSet(rest \cup mine)
      /\ Cardinality(rest \cup mine) =
            Cardinality(rest) + Cardinality(mine) - Cardinality(rest \cap mine)
  BY <1>4, FS_Union DEF rest
<1>6. Cardinality(rest \cap mine) = 0 /\ Cardinality(rest) \in Nat
  BY <1>3, FS_EmptySet, FS_CardinalityType DEF rest
<1> QED BY <1>1, <1>2, <1>4, <1>5, <1>6 DEF rest

LEMMA UnitsFinite ==
    ASSUME NEW S, IsFiniteSet(S), NEW f \in [S -> Nat], NEW t \in SUBSET S
    PROVE  IsFiniteSet(Units(f, t)) /\ Cardinality(Units(f, t)) \in Nat
<1> DEFINE T == {u \in SUBSET S : ~IsFiniteSet(Units(f, u))}
<1>1. T = {}
  <2> SUFFICES ASSUME T # {} PROVE FALSE
    OBVIOUS
  <2>1. T \in SUBSET SUBSET S
    OBVIOUS
  <2>2. PICK u \in T : \A v \in T : v \subseteq u => v = u
    <3> HIDE DEF T
    <3> QED BY <2>1, SmallestSet
  <2>3. CASE u = {}
    <3>1. Units(f, u) = {}
      BY <2>3 DEF Units
    <3> QED BY <3>1, FS_EmptySet
  <2>4. CASE u # {}
    <3>1. Pick(u) \in u /\ u \ {Pick(u)} \in SUBSET S /\ u \ {Pick(u)} # u
      BY <2>4, PickIn
    <3>2. IsFiniteSet(Units(f, u \ {Pick(u)}))
      BY <2>2, <3>1
    <3> QED BY <3>1, <3>2, UnitsOfOne
  <2> QED BY <2>3, <2>4
<1> QED BY <1>1, FS_CardinalityType

\* The equation has a solution ...
LEMMA SumSolved ==
    ASSUME NEW S, IsFiniteSet(S), NEW f \in [S -> Nat]
    PROVE  SumEquation([t \in SUBSET S |-> Cardinality(Units(f, t))], f, S)
<1> DEFINE g == [t \in SUBSET S |-> Cardinality(Units(f, t))]
<1>1. ASSUME NEW t \in SUBSET S
      PROVE  g[t] = IF t = {} THEN 0 ELSE f[Pick(t)] + g[t \ {Pick(t)}]
  <2>1. CASE t = {}
    <3>1. Units(f, t) = {}
      BY <2>1 DEF Units
    <3> QED BY <2>1, <3>1, FS_EmptySet
  <2>2. CASE t # {}
    <3>1. Pick(t) \in t /\ t \ {Pick(t)} \in SUBSET S
      BY <2>2, PickIn
    <3>2. IsFiniteSet(Units(f, t \ {Pick(t)}))
      BY <3>1, UnitsFinite
    <3> QED BY <2>2, <3>1, <3>2, UnitsOfOne
  <2> QED BY <2>1, <2>2
<1> HIDE DEF g
<1>2. SumEquation(g, f, S)
  BY <1>1 DEF SumEquation, g
<1> QED BY <1>2 DEF g

\* ... and no other.
LEMMA SumCounts ==
    ASSUME NEW S, IsFiniteSet(S), NEW f \in [S -> Nat]
    PROVE  SumFunctionOnSet(f, S) = Cardinality(Units(f, S))
<1> DEFINE h == CHOOSE g : SumEquation(g, f, S)
           T == {t \in SUBSET S : h[t] # Cardinality(Units(f, t))}
<1>1. SumEquation(h, f, S)
  BY SumSolved
<1> HIDE DEF h
<1>2. ASSUME NEW t \in SUBSET S
      PROVE  h[t] = IF t = {} THEN 0 ELSE f[Pick(t)] + h[t \ {Pick(t)}]
  BY <1>1 DEF SumEquation
<1>3. T = {}
  <2> SUFFICES ASSUME T # {} PROVE FALSE
    OBVIOUS
  <2>1. T \in SUBSET SUBSET S
    OBVIOUS
  <2>2. PICK t \in T : \A v \in T : v \subseteq t => v = t
    <3> HIDE DEF T
    <3> QED BY <2>1, SmallestSet
  <2>3. CASE t = {}
    <3>1. Units(f, t) = {}
      BY <2>3 DEF Units
    <3> QED BY <1>2, <2>3, <3>1, FS_EmptySet
  <2>4. CASE t # {}
    <3>1. Pick(t) \in t /\ t \ {Pick(t)} \in SUBSET S /\ t \ {Pick(t)} # t
      BY <2>4, PickIn
    <3>2. h[t \ {Pick(t)}] = Cardinality(Units(f, t \ {Pick(t)}))
      BY <2>2, <3>1
    <3>3. IsFiniteSet(Units(f, t \ {Pick(t)}))
      BY <3>1, UnitsFinite
    <3>4. Cardinality(Units(f, t)) = f[Pick(t)] + Cardinality(Units(f, t \ {Pick(t)}))
      BY <3>1, <3>3, UnitsOfOne
    <3>5. h[t] = f[Pick(t)] + h[t \ {Pick(t)}]
      BY <1>2, <2>4
    <3> QED BY <3>2, <3>4, <3>5
  <2> QED BY <2>3, <2>4
<1>4. h[S] = Cardinality(Units(f, S))
  BY <1>3
<1> QED BY <1>4, SumUnfolds DEF h

LEMMA SumOfNothing ==
    ASSUME NEW S, IsFiniteSet(S)
    PROVE  SumFunctionOnSet([x \in S |-> 0], S) = 0
<1>1. Units([x \in S |-> 0], S) = {}
  BY DEF Units
<1> QED BY <1>1, SumCounts, FS_EmptySet

LEMMA SumOfOneMore ==
    ASSUME NEW S, IsFiniteSet(S), NEW f \in [S -> Nat], NEW x \in S
    PROVE  /\ SumFunctionOnSet(f, S) \in Nat
           /\ SumFunctionOnSet([f EXCEPT ![x] = @ + 1], S) = SumFunctionOnSet(f, S) + 1
<1> DEFINE g == [f EXCEPT ![x] = @ + 1]
<1>1. g \in [S -> Nat] /\ g[x] = f[x] + 1 /\ f[x] \in Nat
  OBVIOUS
<1>2. Units(g, S \ {x}) = Units(f, S \ {x})
  BY DEF Units
<1>3. S \in SUBSET S /\ S \ {x} \in SUBSET S
  OBVIOUS
<1>4. IsFiniteSet(Units(f, S \ {x})) /\ Cardinality(Units(f, S \ {x})) \in Nat
  BY <1>3, UnitsFinite
<1> HIDE DEF g
<1>5. Cardinality(Units(f, S)) = f[x] + Cardinality(Units(f, S \ {x}))
  BY <1>3, <1>4, UnitsOfOne
<1>6. Cardinality(Units(g, S)) = g[x] + Cardinality(Units(g, S \ {x}))
  BY <1>1, <1>2, <1>3, <1>4, UnitsOfOne
<1>7. Cardinality(Units(g, S)) = Cardinality(Units(f, S)) + 1 /\ Cardinality(Units(f, S)) \in Nat
  BY <1>1, <1>2, <1>4, <1>5, <1>6
<1>8. /\ SumFunctionOnSet(g, S) = Cardinality(Units(g, S))
      /\ SumFunctionOnSet(f, S) = Cardinality(Units(f, S))
  BY <1>1, SumCounts
<1> QED BY <1>7, <1>8 DEF g
----------------------------------------------------------------------------
(* Sequences put together (FlattenSeq): where each of their elements is.      *)

\* A bounded set of numbers has a least one.
LEMMA LeastNumber ==
    ASSUME NEW n \in Nat, NEW T \in SUBSET (1 .. n), T # {}
    PROVE  \E i \in T : \A k \in T : i <= k
<1> DEFINE Upto == {1 .. i : i \in T}
           N == 1 .. n
<1>1. IsFiniteSet(N)
  BY FS_Interval
<1>2. \A i \in T : i \in Nat /\ 1 <= i /\ 1 .. i \in SUBSET (1 .. n)
  OBVIOUS
<1>3. Upto \in SUBSET SUBSET N /\ Upto # {}
  BY <1>2
<1>4. PICK u \in Upto : \A v \in Upto : v \subseteq u => v = u
  <2> HIDE DEF Upto, N
  <2> QED BY <1>1, <1>3, SmallestSet
<1>5. PICK i \in T : u = 1 .. i
  OBVIOUS
<1>6. ASSUME NEW k \in T, k < i PROVE FALSE
  <2>1. 1 .. k \in Upto
    OBVIOUS
  <2>2. k \in Nat /\ i \in Nat /\ 1 <= i
    BY <1>2
  <2>3. 1 .. k \subseteq 1 .. i /\ i \in 1 .. i /\ i \notin 1 .. k
    BY <1>6, <2>2
  <2> QED BY <1>4, <1>5, <2>1, <2>3
<1> QED BY <1>2, <1>6

\* The equation of the first m sequences of s, one after the other.
Flattens(g, s, m) == g = [i \in 1 .. m |-> IF i = 1 THEN s[i] ELSE g[i - 1] \o s[i]]

LEMMA FlattenUnfolds ==
    ASSUME NEW s, Len(s) # 0
    PROVE  FlattenSeq(s) = (CHOOSE g : Flattens(g, s, Len(s)))[Len(s)]
  BY DEF FlattenSeq, Flattens

\* It has a solution ...
LEMMA FlattenSolved ==
    ASSUME NEW s, NEW n \in Nat, n # 0
    PROVE  \E g : Flattens(g, s, n)
<1> DEFINE T == {m \in 1 .. n : ~ \E g : Flattens(g, s, m)}
<1>1. T = {}
  <2> SUFFICES ASSUME T # {} PROVE FALSE
    OBVIOUS
  <2>1. T \in SUBSET (1 .. n)
    OBVIOUS
  <2>2. PICK m \in T : \A k \in T : m <= k
    <3> HIDE DEF T
    <3> QED BY <2>1, LeastNumber
  <2>3. m \in 1 .. n /\ ~ \E g : Flattens(g, s, m)
    OBVIOUS
  <2>4. CASE m = 1
    <3> DEFINE g == [i \in 1 .. 1 |-> s[1]]
    <3>1. g = [i \in 1 .. 1 |-> IF i = 1 THEN s[i] ELSE g[i - 1] \o s[i]]
      OBVIOUS
    <3> QED BY <2>3, <2>4, <3>1 DEF Flattens
  <2>5. CASE m # 1
    <3>1. m - 1 \in 1 .. n /\ m - 1 \notin T
      BY <2>2, <2>3, <2>5
    <3>2. PICK h : Flattens(h, s, m - 1)
      BY <3>1
    <3> DEFINE last == h[m - 1] \o s[m]
    <3> HIDE DEF last
    <3> DEFINE g == [i \in 1 .. m |-> IF i = m THEN last ELSE h[i]]
    <3>3. ASSUME NEW i \in 1 .. m
          PROVE  g[i] = IF i = 1 THEN s[i] ELSE g[i - 1] \o s[i]
      <4>1. CASE i = m
        <5>1. m - 1 \in 1 .. m /\ m - 1 # m
          BY <2>3, <2>5
        <5>2. g[m - 1] = h[m - 1] /\ g[m] = last
          BY <2>3, <5>1
        <5> HIDE DEF g
        <5> QED BY <2>5, <4>1, <5>2 DEF last
      <4>2. CASE i # m
        <5>1. i \in 1 .. m - 1
          BY <2>3, <4>2
        <5>2. h[i] = IF i = 1 THEN s[i] ELSE h[i - 1] \o s[i]
          BY <3>2, <5>1 DEF Flattens
        <5>3. i # 1 => i - 1 \in 1 .. m /\ i - 1 # m
          BY <2>3, <5>1
        <5> QED BY <4>2, <5>2, <5>3
      <4> QED BY <4>1, <4>2
    <3>4. g = [i \in 1 .. m |-> g[i]]
      OBVIOUS
    <3> HIDE DEF g
    <3>5. g = [i \in 1 .. m |-> IF i = 1 THEN s[i] ELSE g[i - 1] \o s[i]]
      BY <3>3, <3>4
    <3> QED BY <2>3, <3>5 DEF Flattens
  <2> QED BY <2>4, <2>5
<1>2. n \in 1 .. n /\ n \notin T
  BY <1>1
<1> QED BY <1>2

\* ... whose values are sequences.
Parts(h, s, S) ==
    \A i \in 1 .. Len(s) :
        h[i] \in Seq(S) /\ h[i] = IF i = 1 THEN s[i] ELSE h[i - 1] \o s[i]

LEMMA Joined ==
    ASSUME NEW S, NEW a \in Seq(S), NEW b \in Seq(S)
    PROVE  /\ a \o b \in Seq(S) /\ Len(a) \in Nat /\ Len(b) \in Nat
           /\ Len(a \o b) = Len(a) + Len(b)
           /\ \A q \in 1 .. Len(a) : (a \o b)[q] = a[q]
           /\ \A k \in 1 .. Len(b) : (a \o b)[Len(a) + k] = b[k]
  OBVIOUS

LEMMA FlattenParts ==
    ASSUME NEW S, NEW s \in Seq(Seq(S)), Len(s) # 0
    PROVE  \E h : FlattenSeq(s) = h[Len(s)] /\ Parts(h, s, S)
<1> DEFINE n == Len(s)
           h == CHOOSE g : Flattens(g, s, n)
           T == {i \in 1 .. n : h[i] \notin Seq(S)}
<1>1. n \in Nat /\ n # 0 /\ \A i \in 1 .. n : s[i] \in Seq(S)
  OBVIOUS
<1>2. FlattenSeq(s) = h[n]
  BY FlattenUnfolds
<1> HIDE DEF n
<1>3. Flattens(h, s, n)
  BY <1>1, FlattenSolved
<1> HIDE DEF h
<1>4. ASSUME NEW i \in 1 .. n
      PROVE  h[i] = IF i = 1 THEN s[i] ELSE h[i - 1] \o s[i]
  BY <1>3 DEF Flattens
<1>5. T = {}
  <2> SUFFICES ASSUME T # {} PROVE FALSE
    OBVIOUS
  <2>1. T \in SUBSET (1 .. n)
    OBVIOUS
  <2>2. PICK i \in T : \A k \in T : i <= k
    <3> HIDE DEF T
    <3> QED BY <1>1, <2>1, LeastNumber
  <2>3. i # 1 /\ i \in 1 .. n
    BY <1>1, <1>4
  <2>4. i - 1 \in 1 .. n /\ i - 1 \notin T
    BY <1>1, <2>2, <2>3
  <2>5. h[i - 1] \in Seq(S) /\ s[i] \in Seq(S) /\ h[i] = h[i - 1] \o s[i]
    BY <1>1, <1>4, <2>3, <2>4
  <2>6. h[i] \in Seq(S)
    BY <2>5
  <2> QED BY <2>3, <2>6
<1>6. \A i \in 1 .. n : h[i] \in Seq(S)
  BY <1>5
<1> QED BY <1>2, <1>4, <1>6 DEF n, Parts

\* A later part begins with the earlier one.
LEMMA FlattenGrows ==
    ASSUME NEW S, NEW s \in Seq(Seq(S)), NEW h, Parts(h, s, S),
           NEW i \in 1 .. Len(s), NEW j \in 1 .. Len(s), i <= j
    PROVE  Len(h[i]) <= Len(h[j]) /\ \A q \in 1 .. Len(h[i]) : h[j][q] = h[i][q]
<1> DEFINE n == Len(s)
           Grown(k) == Len(h[i]) <= Len(h[k]) /\ \A q \in 1 .. Len(h[i]) : h[k][q] = h[i][q]
           T == {k \in 1 .. n : i <= k /\ ~Grown(k)}
<1>1. n \in Nat /\ \A k \in 1 .. n : s[k] \in Seq(S) /\ h[k] \in Seq(S)
  BY DEF Parts
<1>2. \A k \in 1 .. n : k # 1 => h[k] = h[k - 1] \o s[k]
  BY DEF Parts
<1>3. i \in 1 .. n /\ j \in 1 .. n /\ Grown(i)
  BY <1>1
<1> HIDE DEF n
<1>4. T = {}
  <2> SUFFICES ASSUME T # {} PROVE FALSE
    OBVIOUS
  <2>1. T \in SUBSET (1 .. n)
    OBVIOUS
  <2>2. PICK k \in T : \A m \in T : k <= m
    <3> HIDE DEF T
    <3> QED BY <1>1, <2>1, LeastNumber
  <2>3. k \in 1 .. n /\ i <= k /\ ~Grown(k) /\ k # i
    BY <1>3
  <2>4. k - 1 \in 1 .. n /\ i <= k - 1 /\ k # 1
    <3> HIDE DEF T, Grown
    <3>1. n \in Nat
      BY <1>1
    <3> QED BY <1>3, <2>3, <3>1
  <2>5. Grown(k - 1)
    <3> HIDE DEF Grown
    <3>1. k - 1 \notin T
      <4> HIDE DEF T
      <4>1. k \in Int
        BY <2>3
      <4>2. ~(k <= k - 1)
        BY <4>1
      <4> QED BY <2>2, <4>2
    <3> QED BY <2>4, <3>1
  <2>6. /\ h[i] \in Seq(S) /\ h[k - 1] \in Seq(S) /\ s[k] \in Seq(S)
        /\ h[k] = h[k - 1] \o s[k]
    BY <1>1, <1>2, <1>3, <2>3, <2>4
  <2> DEFINE a == h[i]
             b == h[k - 1]
             c == h[k]
             d == s[k]
  <2>7. a \in Seq(S) /\ b \in Seq(S) /\ d \in Seq(S) /\ c = b \o d
    BY <2>6
  <2>8. Len(a) <= Len(b) /\ \A q \in 1 .. Len(a) : b[q] = a[q]
    BY <2>5
  <2> HIDE DEF a, b, c, d
  <2>9. /\ Len(a) \in Nat /\ Len(b) \in Nat /\ Len(d) \in Nat
        /\ Len(c) = Len(b) + Len(d) /\ \A q \in 1 .. Len(b) : c[q] = b[q]
    BY <2>7, Joined
  <2>10. Len(a) <= Len(c) /\ \A q \in 1 .. Len(a) : c[q] = a[q]
    BY <2>8, <2>9
  <2>11. Grown(k)
    BY <2>10 DEF a, c
  <2> QED BY <2>3, <2>11
<1>5. Grown(j)
  BY <1>3, <1>4
<1> QED BY <1>5

\* The places of the elements of the sequences in s: at[i] elements come before
\* the i-th of them in f.
Places(at, s, f) ==
    /\ at \in [1 .. Len(s) + 1 -> Nat]
    /\ \A i \in 1 .. Len(s) : at[i + 1] = at[i] + Len(s[i])
    /\ \A i, j \in 1 .. Len(s) + 1 : i <= j => at[i] <= at[j]
    /\ \A i \in 1 .. Len(s) : \A k \in 1 .. Len(s[i]) :
         at[i] + k \in 1 .. Len(f) /\ f[at[i] + k] = s[i][k]
    /\ \A q \in 1 .. Len(f) : \E i \in 1 .. Len(s) : \E k \in 1 .. Len(s[i]) : q = at[i] + k

LEMMA FlattenPlaces ==
    ASSUME NEW S, NEW s \in Seq(Seq(S)), Len(s) # 0
    PROVE  FlattenSeq(s) \in Seq(S) /\ \E at : Places(at, s, FlattenSeq(s))
<1> DEFINE n == Len(s)
           f == FlattenSeq(s)
<1>0. PICK h : f = h[n] /\ Parts(h, s, S)
  BY FlattenParts
<1>1. /\ f = h[n]
      /\ \A i \in 1 .. n :
           h[i] \in Seq(S) /\ h[i] = IF i = 1 THEN s[i] ELSE h[i - 1] \o s[i]
  BY <1>0 DEF Parts
<1>2. n \in Nat /\ n # 0 /\ n \in 1 .. n /\ \A i \in 1 .. n : s[i] \in Seq(S) /\ Len(s[i]) \in Nat
  OBVIOUS
<1>3. \A i \in 1 .. n : Len(h[i]) \in Nat
  BY <1>1
<1>4. \A i, j \in 1 .. n : i <= j =>
        Len(h[i]) <= Len(h[j]) /\ \A q \in 1 .. Len(h[i]) : h[j][q] = h[i][q]
  BY <1>0, FlattenGrows
<1> HIDE DEF n, f
<1> DEFINE at == [i \in 1 .. n + 1 |-> IF i = 1 THEN 0 ELSE Len(h[i - 1])]
<1>5. at \in [1 .. n + 1 -> Nat]
  <2>1. ASSUME NEW i \in 1 .. n + 1, i # 1 PROVE Len(h[i - 1]) \in Nat
    <3>1. i - 1 \in 1 .. n
      BY <1>2, <2>1
    <3> QED BY <1>3, <3>1
  <2> QED BY <2>1
<1>6. at[1] = 0 /\ \A i \in 1 .. n : at[i + 1] = Len(h[i])
  BY <1>2
<1> HIDE DEF at
<1>7. ASSUME NEW i \in 1 .. n
      PROVE  /\ at[i + 1] = at[i] + Len(s[i])
             /\ \A k \in 1 .. Len(s[i]) : h[i][at[i] + k] = s[i][k]
  <2>1. CASE i = 1
    BY <1>1, <1>2, <1>6, <2>1
  <2>2. CASE i # 1
    <3>1. i - 1 \in 1 .. n /\ (i - 1) + 1 = i
      BY <1>2, <2>2
    <3>2. at[i] = Len(h[i - 1])
      BY <1>6, <3>1
    <3> DEFINE a == h[i - 1]
               b == s[i]
               c == h[i]
    <3>3. c = a \o b /\ a \in Seq(S) /\ b \in Seq(S)
      BY <1>1, <1>2, <2>2, <3>1
    <3>4. at[i] = Len(a) /\ at[i + 1] = Len(c)
      BY <1>6, <3>2
    <3> HIDE DEF a, b, c
    <3>5. at[i + 1] = at[i] + Len(b) /\ \A k \in 1 .. Len(b) : c[at[i] + k] = b[k]
      BY <3>3, <3>4, Joined
    <3> QED BY <3>5 DEF b, c
  <2> QED BY <2>1, <2>2
<1>8. ASSUME NEW i \in 1 .. n + 1, NEW j \in 1 .. n + 1, i <= j
      PROVE  at[i] <= at[j]
  <2>1. CASE i = 1
    BY <1>5, <1>6, <2>1
  <2>2. CASE i # 1
    <3>1. i - 1 \in 1 .. n /\ j - 1 \in 1 .. n /\ i - 1 <= j - 1
          /\ (i - 1) + 1 = i /\ (j - 1) + 1 = j
      BY <1>2, <1>8, <2>2
    <3>2. at[i] = Len(h[i - 1]) /\ at[j] = Len(h[j - 1])
      BY <1>6, <3>1
    <3> QED BY <1>4, <3>1, <3>2
  <2> QED BY <2>1, <2>2
<1>9. ASSUME NEW i \in 1 .. n, NEW k \in 1 .. Len(s[i])
      PROVE  at[i] + k \in 1 .. Len(f) /\ f[at[i] + k] = s[i][k]
  <2>0. at[i] \in Nat /\ Len(s[i]) \in Nat
    BY <1>2, <1>5
  <2>1. Len(h[i]) = at[i] + Len(s[i]) /\ at[i] + k \in 1 .. Len(h[i])
    <3>1. Len(h[i]) = at[i] + Len(s[i])
      BY <1>6, <1>7
    <3> QED BY <2>0, <3>1
  <2>2. Len(h[i]) <= Len(f) /\ \A q \in 1 .. Len(h[i]) : f[q] = h[i][q]
    BY <1>1, <1>2, <1>4
  <2>3. Len(h[i]) \in Nat /\ Len(f) \in Nat
    BY <1>1, <1>2, <1>3
  <2>4. h[i][at[i] + k] = s[i][k]
    BY <1>7
  <2>5. f[at[i] + k] = s[i][k]
    BY <2>1, <2>2, <2>4
  <2> QED BY <2>0, <2>1, <2>2, <2>3, <2>5
<1>10. ASSUME NEW q \in 1 .. Len(f)
       PROVE  \E i \in 1 .. n : \E k \in 1 .. Len(s[i]) : q = at[i] + k
  <2> DEFINE T == {i \in 1 .. n : q <= Len(h[i])}
  <2>1. T \in SUBSET (1 .. n) /\ T # {}
    BY <1>1, <1>2, <1>3
  <2>2. PICK i \in T : \A k \in T : i <= k
    <3> HIDE DEF T
    <3> QED BY <1>2, <2>1, LeastNumber
  <2>3. i \in 1 .. n /\ q <= at[i + 1] /\ at[i + 1] = at[i] + Len(s[i]) /\ at[i] \in Nat
        /\ Len(s[i]) \in Nat /\ q \in Nat /\ 1 <= q
    BY <1>1, <1>2, <1>3, <1>5, <1>6, <1>7
  <2>4. at[i] < q
    <3>1. CASE i = 1
      BY <1>6, <2>3, <3>1
    <3>2. CASE i # 1
      <4>1. i - 1 \in 1 .. n /\ i - 1 \notin T /\ (i - 1) + 1 = i
        BY <1>2, <2>2, <2>3, <3>2
      <4>2. ~(q <= Len(h[i - 1])) /\ at[i] = Len(h[i - 1])
        BY <1>6, <4>1
      <4> QED BY <2>3, <4>2
    <3> QED BY <3>1, <3>2
  <2>5. q - at[i] \in 1 .. Len(s[i]) /\ q = at[i] + (q - at[i])
    BY <2>3, <2>4
  <2> QED BY <2>3, <2>5
<1>11. Places(at, s, f)
  BY <1>5, <1>7, <1>8, <1>9, <1>10 DEF Places, n
<1> QED BY <1>1, <1>2, <1>11 DEF f, n

LEMMA BlocksInOrder ==
    ASSUME NEW S, NEW s \in Seq(Seq(S)), NEW f, NEW at, Places(at, s, f),
           NEW i \in 1 .. Len(s), NEW j \in 1 .. Len(s), i < j,
           NEW x \in 1 .. Len(s[i]), NEW y \in 1 .. Len(s[j])
    PROVE  at[i] + x < at[j] + y
<1> DEFINE n == Len(s)
           b == at[i]
           d == at[j]
           k == Len(s[i])
<1>1. n \in Nat
  OBVIOUS
<1>2. i + 1 \in 1 .. n + 1 /\ j \in 1 .. n + 1 /\ i \in 1 .. n + 1 /\ i + 1 <= j
  BY <1>1
<1>3. b \in Nat /\ d \in Nat /\ k \in Nat
  <2>1. at \in [1 .. n + 1 -> Nat]
    BY DEF Places
  <2>2. Len(s[i]) \in Nat
    OBVIOUS
  <2>3. b \in Nat /\ d \in Nat
    BY <1>2, <2>1
  <2> QED BY <2>2, <2>3
<1>4. at[i + 1] <= d /\ at[i + 1] = b + k
  BY <1>2 DEF Places
<1>5. x \in 1 .. k /\ y \in Nat /\ 1 <= y
  OBVIOUS
<1> HIDE DEF n, b, d, k
<1>6. b + x < d + y
  BY <1>3, <1>4, <1>5
<1> QED BY <1>6 DEF b, d
=============================================================================
