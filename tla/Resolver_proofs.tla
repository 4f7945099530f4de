-------------------------- MODULE Resolver_proofs --------------------------
(***************************************************************************)
(* What a resolution keeps (Resolver), for every manifest, registry, range    *)
(* and number of workers: ResolutionIsSound.                                 *)
(***************************************************************************)
EXTENDS Resolver, TLAPS, FiniteSetTheorems, WellFoundedInduction

-----------------------------------------------------------------------------
(* Induction, from the order of the naturals.                                 *)

LEMMA Least ==
  ASSUME NEW T \in SUBSET Nat, T # {}
  PROVE  \E x \in T : \A y \in T : x <= y
<1>1. PICK x \in T : \A y \in T : ~(<<y, x>> \in OpToRel(<, Nat))
  BY WFMin, NatLessThanWellFounded, Zenon
<1>2. \A y \in T : ~(y < x)
  BY <1>1 DEF OpToRel
<1> QED BY <1>2

LEMMA SetInduction ==
  ASSUME NEW S \in SUBSET Nat, 0 \in S, \A n \in S : n + 1 \in S
  PROVE  S = Nat
<1> SUFFICES ASSUME S # Nat PROVE FALSE
  OBVIOUS
<1>1. PICK x \in Nat \ S : \A y \in Nat \ S : x <= y
  BY Least
<1>2. x # 0 /\ x - 1 \in Nat
  OBVIOUS
<1>3. x - 1 \in S
  BY <1>1, <1>2
<1> QED BY <1>1, <1>3

(* A set of naturals with a bound has a greatest element.                       *)
LEMMA Greatest ==
  ASSUME NEW S \in SUBSET Nat, S # {}, NEW b \in Nat, \A x \in S : x <= b
  PROVE  \E x \in S : \A y \in S : y <= x
<1> DEFINE T == {n \in Nat : \A x \in S : x <= n}
<1>1. T \in SUBSET Nat /\ T # {}
  OBVIOUS
<1>2. PICK n \in T : \A m \in T : n <= m
  <2> HIDE DEF T
  <2> QED BY <1>1, Least
<1>3. n \in S
  <2> SUFFICES ASSUME n \notin S PROVE FALSE
    OBVIOUS
  <2>1. n \in Nat /\ \A x \in S : x <= n /\ x # n /\ x \in Nat
    OBVIOUS
  <2>2. n # 0
    <3>1. PICK x \in S : TRUE
      OBVIOUS
    <3> QED BY <2>1, <3>1
  <2>3. n - 1 \in T
    BY <2>1, <2>2
  <2>4. n <= n - 1
    BY <1>2, <2>3
  <2> QED BY <2>1, <2>4
<1> QED BY <1>3

(* A finite set of naturals has a bound.                                        *)
LEMMA FiniteIsBounded ==
  ASSUME NEW S \in SUBSET Nat, IsFiniteSet(S)
  PROVE  \E b \in Nat : \A x \in S : x <= b
<1> DEFINE Has(X) == \E b \in Nat : \A x \in X : x <= b
           T == {n \in Nat : \A X \in SUBSET S : Cardinality(X) = n => Has(X)}
<1>0. \A X \in SUBSET S : IsFiniteSet(X) /\ Cardinality(X) \in Nat
  BY FS_Subset, FS_CardinalityType
<1>1. 0 \in T
  BY <1>0, FS_EmptySet
<1>2. ASSUME NEW n \in T PROVE n + 1 \in T
  <2>0. n \in Nat /\ \A X \in SUBSET S : Cardinality(X) = n => Has(X)
    OBVIOUS
  <2>1. SUFFICES ASSUME NEW X \in SUBSET S, Cardinality(X) = n + 1 PROVE Has(X)
    <3> HIDE DEF Has
    <3> QED BY <2>0
  <2>2. SUFFICES ASSUME X # {} PROVE Has(X)
    OBVIOUS
  <2>3. PICK z \in X : TRUE
    BY <2>2
  <2>4. Cardinality(X \ {z}) = n
    <3>1. IsFiniteSet(X) /\ n \in Nat
      BY <1>0
    <3>2. Cardinality(X \ {z}) = Cardinality(X) - 1
      BY <2>3, <3>1, FS_RemoveElement, Zenon
    <3> QED BY <2>1, <3>1, <3>2
  <2>5. PICK b \in Nat : \A x \in X \ {z} : x <= b
    BY <2>1, <2>4
  <2>6. z \in Nat /\ X \subseteq Nat
    BY <2>1
  <2>7. \A x \in X : x <= b + z
    BY <2>5, <2>6
  <2> QED BY <2>6, <2>7
<1>3. T = Nat
  <2> HIDE DEF T
  <2>1. T \in SUBSET Nat
    BY DEF T
  <2> QED BY <1>1, <1>2, <2>1, SetInduction
<1> QED BY <1>0, <1>3

-----------------------------------------------------------------------------
(* Sequences and finite sets.                                                *)

(* A sequence lists a set: every element once.                                  *)
Lists(s, S) ==
  /\ s \in Seq(S)
  /\ \A x \in S : \E j \in DOMAIN s : s[j] = x
  /\ \A j, k \in DOMAIN s : s[j] = s[k] => j = k

LEMMA ImageIsFinite ==
  ASSUME NEW f, IsFiniteSet(DOMAIN f)
  PROVE  IsFiniteSet({f[x] : x \in DOMAIN f})
<1> DEFINE T == {f[x] : x \in DOMAIN f}
           g == [x \in DOMAIN f |-> f[x]]
<1>1. g \in Surjection(DOMAIN f, T)
  BY DEF Surjection
<1> HIDE DEF g, T
<1>2. IsFiniteSet(T)
  BY <1>1, FS_Surjection
<1> QED BY <1>2 DEF T

LEMMA SequenceIsFinite ==
  ASSUME NEW A, NEW s \in Seq(A)
  PROVE  IsFiniteSet(DOMAIN s) /\ IsFiniteSet(ToSet(s)) /\ s \in Seq(ToSet(s)) /\ ToSet(s) \subseteq A
<1>1. DOMAIN s = 1 .. Len(s) /\ Len(s) \in Nat
  OBVIOUS
<1>2. IsFiniteSet(DOMAIN s)
  BY <1>1, FS_Interval
<1>3. ToSet(s) = {s[x] : x \in DOMAIN s}
  BY DEF ToSet
<1>4. IsFiniteSet(ToSet(s))
  BY <1>2, <1>3, ImageIsFinite
<1>5. s \in Seq(ToSet(s)) /\ ToSet(s) \subseteq A
  BY <1>1 DEF ToSet
<1> QED BY <1>2, <1>4, <1>5

(* SetToSeq lists the set.                                                      *)
LEMMA SetToSeqLists ==
  ASSUME NEW S, IsFiniteSet(S)
  PROVE  Lists(SetToSeq(S), S) /\ ToSet(SetToSeq(S)) = S
<1> DEFINE n == Cardinality(S)
           s == SetToSeq(S)
<1>1. n \in Nat /\ ExistsBijection(1 .. n, S)
  BY FS_CardinalityType
<1>2. PICK b : b \in Bijection(1 .. n, S)
  BY <1>1 DEF ExistsBijection
<1>3. b \in [1 .. n -> S] /\ IsInjective(b)
  BY <1>2 DEF Bijection, Injection, IsInjective
<1>4. s \in [1 .. n -> S] /\ IsInjective(s)
  BY <1>3 DEF SetToSeq
<1> HIDE DEF s
<1>5. s \in Injection(1 .. n, S)
  BY <1>4 DEF IsInjective, Injection
<1>6. IsFiniteSet(1 .. n) /\ Cardinality(1 .. n) = n
  BY <1>1, FS_Interval
<1>7. s \in Surjection(1 .. n, S)
  BY <1>5, <1>6, FS_Injection
<1> HIDE DEF n
<1>8. s \in Seq(S) /\ DOMAIN s = 1 .. n
  BY <1>1, <1>4
<1>9. \A x \in S : \E j \in DOMAIN s : s[j] = x
  BY <1>7, <1>8 DEF Surjection
<1>10. \A j, k \in DOMAIN s : s[j] = s[k] => j = k
  BY <1>4, <1>8 DEF IsInjective
<1>11. ToSet(s) = S
  BY <1>4, <1>8, <1>9 DEF ToSet
<1> QED BY <1>8, <1>9, <1>10, <1>11 DEF s, Lists

(* Only keeps the elements it is given, and nothing else.                        *)
LEMMA OnlyKeeps ==
  ASSUME NEW A, NEW s \in Seq(A), NEW S
  PROVE  Only(s, S) \in Seq(A) /\ ToSet(Only(s, S)) = ToSet(s) \cap S
<1> DEFINE N == Len(s)
           Step(i, earlier) == IF s[i] \in S THEN Append(earlier, s[i]) ELSE earlier
           Is(g) == g = [i \in 0 .. N |-> IF i = 0 THEN <<>> ELSE IF s[i] \in S THEN Append(g[i - 1], s[i]) ELSE g[i - 1]]
           Upto(m, g) == /\ g \in [0 .. m -> Seq(A)]
                         /\ \A i \in 0 .. m : g[i] = IF i = 0 THEN <<>> ELSE Step(i, g[i - 1])
           T == {m \in Nat : m <= N => \E g : Upto(m, g)}
<1>0. N \in Nat /\ DOMAIN s = 1 .. N /\ \A i \in 1 .. N : s[i] \in A
  OBVIOUS
<1> HIDE DEF N
<1>a. ASSUME NEW i \in 1 .. N, NEW earlier \in Seq(A) PROVE Step(i, earlier) \in Seq(A)
  BY <1>0
<1>1. 0 \in T
  <2> DEFINE g == [i \in 0 .. 0 |-> <<>>]
  <2>1. g \in [0 .. 0 -> Seq(A)] /\ \A i \in 0 .. 0 : i = 0 /\ g[i] = <<>>
    OBVIOUS
  <2> HIDE DEF g, Step
  <2>2. Upto(0, g)
    BY <2>1
  <2> QED BY <2>2
<1>2. ASSUME NEW m \in T PROVE m + 1 \in T
  <2>0. m \in Nat
    OBVIOUS
  <2> SUFFICES ASSUME m + 1 <= N PROVE \E h : Upto(m + 1, h)
    <3> HIDE DEF Upto
    <3> QED BY <2>0
  <2>1. PICK g : Upto(m, g)
    BY <1>0, <2>0
  <2> HIDE DEF Step
  <2> DEFINE h == [i \in 0 .. m + 1 |-> IF i <= m THEN g[i] ELSE Step(i, g[m])]
  <2>2. \A i \in 0 .. m : i \in 0 .. m + 1 /\ h[i] = g[i] /\ g[i] \in Seq(A)
    BY <2>0, <2>1
  <2>3. m + 1 \in 0 .. m + 1 /\ h[m + 1] = Step(m + 1, g[m]) /\ g[m] \in Seq(A) /\ DOMAIN h = 0 .. m + 1
    BY <2>0, <2>1
  <2> HIDE DEF h
  <2>4. ASSUME NEW i \in 0 .. m + 1 PROVE h[i] \in Seq(A) /\ h[i] = IF i = 0 THEN <<>> ELSE Step(i, h[i - 1])
    <3>1. CASE i <= m
      <4>1. i \in 0 .. m /\ (i # 0 => i - 1 \in 0 .. m)
        BY <2>0, <3>1
      <4> QED BY <2>1, <2>2, <4>1
    <3>2. CASE i = m + 1
      <4>1. i # 0 /\ i - 1 = m /\ i \in 1 .. N /\ m \in 0 .. m
        BY <1>0, <2>0, <3>2
      <4> QED BY <1>a, <2>2, <2>3, <3>2, <4>1
    <3> QED BY <2>0, <3>1, <3>2
  <2>5. h = [i \in 0 .. m + 1 |-> h[i]]
    BY <2>3 DEF h
  <2>6. h \in [0 .. m + 1 -> Seq(A)]
    BY <2>4, <2>5
  <2>7. Upto(m + 1, h)
    BY <2>4, <2>6
  <2> QED BY <2>7
<1>3. \E g : Is(g)
  <2>1. T = Nat
    <3> HIDE DEF T
    <3>1. T \in SUBSET Nat
      BY DEF T
    <3> QED BY <1>1, <1>2, <3>1, SetInduction
  <2>2. PICK g : Upto(N, g)
    <3> HIDE DEF Upto
    <3>1. N \in T /\ N <= N
      <4> HIDE DEF T
      <4> QED BY <1>0, <2>1
    <3> QED BY <3>1
  <2>3. g = [i \in 0 .. N |-> g[i]]
    BY <2>2
  <2>4. Is(g)
    BY <2>2, <2>3
  <2> QED BY <2>4
<1> DEFINE upTo == CHOOSE g : Is(g)
<1>4. Is(upTo)
  BY <1>3
<1>5. Only(s, S) = upTo[N]
  BY DEF Only, N
<1> HIDE DEF upTo
<1>6. \A i \in 0 .. N : upTo[i] = IF i = 0 THEN <<>> ELSE Step(i, upTo[i - 1])
  BY <1>4
<1> HIDE DEF Is
<1> DEFINE Kept(m) == upTo[m] \in Seq(A) /\ \A e : e \in ToSet(upTo[m]) <=> e \in S /\ \E i \in 1 .. m : s[i] = e
           K == {m \in Nat : m <= N => Kept(m)}
<1>7. 0 \in K
  <2>1. upTo[0] = <<>>
    BY <1>0, <1>6
  <2>2. Kept(0)
    BY <2>1 DEF ToSet
  <2> QED BY <2>2
<1>8. ASSUME NEW m \in K PROVE m + 1 \in K
  <2>0. m \in Nat
    OBVIOUS
  <2> SUFFICES ASSUME m + 1 <= N PROVE Kept(m + 1)
    BY <2>0
  <2>1. upTo[m] \in Seq(A) /\ \A e : e \in ToSet(upTo[m]) <=> e \in S /\ \E i \in 1 .. m : s[i] = e
    BY <1>0, <2>0
  <2>2. m + 1 \in 1 .. N /\ upTo[m + 1] = IF s[m + 1] \in S THEN Append(upTo[m], s[m + 1]) ELSE upTo[m]
    BY <1>0, <1>6, <2>0
  <2>3. s[m + 1] \in A
    BY <1>0, <2>2
  <2>4. \A e : (\E i \in 1 .. m + 1 : s[i] = e) <=> (e = s[m + 1] \/ \E i \in 1 .. m : s[i] = e)
    BY <2>0
  <2> HIDE DEF upTo, Step, K
  <2>5. CASE s[m + 1] \in S
    <3>1. upTo[m + 1] = Append(upTo[m], s[m + 1])
      BY <2>2, <2>5
    <3>2. upTo[m + 1] \in Seq(A) /\ ToSet(upTo[m + 1]) = ToSet(upTo[m]) \cup {s[m + 1]}
      <4> DEFINE u == upTo[m]
                 x == s[m + 1]
      <4>1. u \in Seq(A) /\ x \in A
        BY <2>1, <2>3
      <4> HIDE DEF u, x
      <4>2. /\ Append(u, x) \in Seq(A) /\ Len(u) \in Nat /\ DOMAIN u = 1 .. Len(u) /\ DOMAIN Append(u, x) = 1 .. Len(u) + 1
            /\ \A i \in 1 .. Len(u) : Append(u, x)[i] = u[i]
            /\ Append(u, x)[Len(u) + 1] = x
        BY <4>1
      <4>3. ToSet(Append(u, x)) = ToSet(u) \cup {x}
        BY <4>2 DEF ToSet
      <4> QED BY <3>1, <4>2, <4>3 DEF u, x
    <3> QED BY <2>1, <2>4, <2>5, <3>2
  <2>6. CASE s[m + 1] \notin S
    <3>1. upTo[m + 1] = upTo[m]
      BY <2>2, <2>6
    <3> QED BY <2>1, <2>4, <2>6, <3>1
  <2> QED BY <2>5, <2>6
<1>9. K = Nat
  <2> HIDE DEF K
  <2>1. K \in SUBSET Nat
    BY DEF K
  <2> QED BY <1>7, <1>8, <2>1, SetInduction
<1>10. Kept(N)
  <2> HIDE DEF Kept
  <2>1. N \in K /\ N <= N
    BY <1>0, <1>9
  <2> QED BY <2>1
<1> QED BY <1>0, <1>5, <1>10 DEF ToSet

(* The groups in their order: every group once.                                 *)
LEMMA InOrderLists ==
  ASSUME NEW S \in SUBSET (Int \X Int), IsFiniteSet(S)
  PROVE  Lists(InOrder(S), S)
<1> DEFINE n == Cardinality(S)
           Under(g) == {h \in S : Before(h, g)}
           rank == [g \in S |-> Cardinality(Under(g)) + 1]
           s == InOrder(S)
<1>0. n \in Nat /\ \A g \in S : IsFiniteSet(Under(g)) /\ Cardinality(Under(g)) \in Nat
  BY FS_CardinalityType, FS_Subset
<1>1. ASSUME NEW g \in S PROVE Cardinality(Under(g)) < n
  <2>1. IsFiniteSet(S \ {g}) /\ Cardinality(S \ {g}) = n - 1
    BY FS_RemoveElement
  <2>2. Under(g) \in SUBSET (S \ {g})
    BY DEF Before
  <2>3. Cardinality(Under(g)) <= n - 1
    <3> HIDE DEF Under, n
    <3> QED BY <2>1, <2>2, FS_Subset
  <2> QED BY <1>0, <2>3
<1>2. ASSUME NEW g \in S, NEW h \in S, Before(g, h) PROVE Cardinality(Under(g)) < Cardinality(Under(h))
  <2>1. g \notin Under(g) /\ g \in Under(h) /\ Under(g) \in SUBSET Under(h)
    BY <1>2 DEF Before
  <2> HIDE DEF Under
  <2>2. Cardinality(Under(g)) <= Cardinality(Under(h)) /\ Cardinality(Under(g)) # Cardinality(Under(h))
    BY <1>0, <2>1, FS_Subset
  <2> QED BY <1>0, <2>2
<1>3. \A g, h \in S : g # h => Before(g, h) \/ Before(h, g)
  BY DEF Before
<1> HIDE DEF Under
<1>4. rank \in [S -> 1 .. n]
  BY <1>0, <1>1
<1>5. \A g, h \in S : rank[g] = rank[h] => g = h
  <2> SUFFICES ASSUME NEW g \in S, NEW h \in S, rank[g] = rank[h], g # h PROVE FALSE
    OBVIOUS
  <2>1. Cardinality(Under(g)) = Cardinality(Under(h))
    BY <1>0
  <2> QED BY <1>0, <1>2, <1>3, <2>1
<1>6. rank \in Injection(S, 1 .. n)
  <2> HIDE DEF rank, n
  <2> QED BY <1>4, <1>5 DEF Injection, IsInjective
<1>7. IsFiniteSet(1 .. n) /\ Cardinality(1 .. n) = n
  BY <1>0, FS_Interval
<1>8. rank \in Surjection(S, 1 .. n)
  <2> HIDE DEF rank
  <2> QED BY <1>6, <1>7, FS_Injection
<1>9. ASSUME NEW i \in 1 .. n PROVE s[i] \in S /\ rank[s[i]] = i
  <2>1. s[i] = CHOOSE g \in S : Cardinality(Under(g)) = i - 1
    BY DEF InOrder, Under
  <2>2. PICK g \in S : rank[g] = i
    BY <1>8 DEF Surjection
  <2>3. Cardinality(Under(g)) = i - 1
    BY <1>0, <2>2
  <2>4. s[i] \in S /\ Cardinality(Under(s[i])) = i - 1
    <3> HIDE DEF s
    <3> QED BY <2>1, <2>3
  <2> QED BY <2>4
<1>10. DOMAIN s = 1 .. n /\ s = [i \in 1 .. n |-> s[i]]
  BY DEF InOrder
<1> HIDE DEF s, n
<1>11. s \in Seq(S)
  <2> HIDE DEF rank
  <2>1. \A i \in 1 .. n : s[i] \in S
    BY <1>9
  <2>2. s \in [1 .. n -> S]
    BY <1>10, <2>1
  <2> QED BY <1>0, <2>2
<1>12. ASSUME NEW x \in S PROVE \E j \in DOMAIN s : s[j] = x
  <2>1. rank[x] \in 1 .. n
    BY <1>4
  <2>2. s[rank[x]] \in S /\ rank[s[rank[x]]] = rank[x]
    BY <1>9, <2>1
  <2> HIDE DEF rank
  <2> QED BY <1>5, <1>10, <2>1, <2>2
<1>13. ASSUME NEW j \in DOMAIN s, NEW k \in DOMAIN s, s[j] = s[k] PROVE j = k
  <2> HIDE DEF rank
  <2> QED BY <1>9, <1>10, <1>13
<1> QED BY <1>11, <1>12, <1>13 DEF s, Lists

-----------------------------------------------------------------------------
(* The parts of a resolution.                                                *)

(* selectRegistryVersion finds the highest version of those that are admitted.   *)
LEMMA SelectedIs ==
  ASSUME NEW g, g[1] \in Names, Candidates(g) # {}
  PROVE  /\ VersionOf(Selected(g)) \in DOMAIN Published[g[1]] /\ VersionOf(Selected(g)) # 0
         /\ Admits(g[2], VersionOf(Selected(g)))
         /\ \A u \in Candidates(g) : u <= VersionOf(Selected(g))
         /\ NameOf(Selected(g)) = g[1] /\ Selected(g) \in Ids /\ Selected(g)[1] = "pkg"
         /\ Selected(g) = IdOf(g[1], VersionOf(Selected(g)))
<1> DEFINE best == CHOOSE v \in Candidates(g) : \A u \in Candidates(g) : u <= v
<1>1. DOMAIN Published[g[1]] \subseteq Nat \ {0} /\ IsFiniteSet(DOMAIN Published[g[1]])
  BY ResolverAssumption
<1>2. Candidates(g) \in SUBSET DOMAIN Published[g[1]]
  BY DEF Candidates
<1>3. Candidates(g) \in SUBSET Nat /\ IsFiniteSet(Candidates(g))
  BY <1>1, <1>2, FS_Subset
<1>4. PICK b \in Nat : \A x \in Candidates(g) : x <= b
  BY <1>3, FiniteIsBounded
<1>5. \E v \in Candidates(g) : \A u \in Candidates(g) : u <= v
  BY <1>3, <1>4, Greatest
<1>6. best \in Candidates(g) /\ \A u \in Candidates(g) : u <= best
  <2> DEFINE C == Candidates(g)
  <2> HIDE DEF C
  <2>1. \E v \in C : \A u \in C : u <= v
    BY <1>5 DEF C
  <2> QED BY <2>1 DEF C
<1>7. Selected(g) = <<"pkg", g[1], best>>
  BY DEF Selected, IdOf
<1> HIDE DEF best
<1>8. best \in DOMAIN Published[g[1]] /\ Admits(g[2], best)
  BY <1>6 DEF Candidates
<1>9. Selected(g) \in Ids
  <2>1. best \in UNION {DOMAIN Published[m] : m \in Names}
    BY <1>8
  <2> QED BY <1>7, <2>1 DEF Ids
<1> QED BY <1>1, <1>6, <1>7, <1>8, <1>9 DEF VersionOf, NameOf, IdOf

(* What is reachable is closed, and in every closed set.                         *)
LEMMA ReachableIs ==
  ASSUME NEW es, NEW ps
  PROVE  /\ Reachable(es, ps) \subseteq ps /\ ClosedUnder(es, ps, Reachable(es, ps))
         /\ \A S \in SUBSET ps : ClosedUnder(es, ps, S) => Reachable(es, ps) \subseteq S
<1> DEFINE R == Reachable(es, ps)
<1>1. \A id : id \in R <=> id \in ps /\ \A S \in SUBSET ps : ClosedUnder(es, ps, S) => id \in S
  BY DEF Reachable
<1> HIDE DEF R
<1>2. ClosedUnder(es, ps, R)
  <2> SUFFICES ASSUME NEW i \in DOMAIN es, es[i].to \in ps, es[i].from \in ps => es[i].from \in R
               PROVE  es[i].to \in R
    BY DEF ClosedUnder
  <2> SUFFICES ASSUME NEW S \in SUBSET ps, ClosedUnder(es, ps, S) PROVE es[i].to \in S
    BY <1>1
  <2>1. es[i].from \in ps => es[i].from \in S
    BY <1>1
  <2> QED BY <2>1 DEF ClosedUnder
<1> QED BY <1>1, <1>2 DEF R

(* pruneUnreachablePackages leaves what is reachable, and it stays so.           *)
LEMMA PrunedIsReachable ==
  ASSUME NEW A, NEW es \in Seq(A), NEW ps,
         NEW R, R = Reachable(es, ps), NEW kept, kept = Pruned(es, ps, R)
  PROVE  /\ kept \in Seq(A) /\ R \subseteq ps /\ Reachable(kept, R) = R
         /\ \A e : e \in ToSet(kept) <=> e \in ToSet(es) /\ e.to \in R /\ (e.from \in ps => e.from \in R)
<1>1. /\ R \subseteq ps /\ ClosedUnder(es, ps, R)
      /\ \A S \in SUBSET ps : ClosedUnder(es, ps, S) => R \subseteq S
  BY ReachableIs
<1>2. /\ kept \in Seq(A)
      /\ ToSet(kept) = ToSet(es) \cap {e \in ToSet(es) : e.to \in R /\ (e.from \in ps => e.from \in R)}
  BY OnlyKeeps DEF Pruned
<1>3. \A e : e \in ToSet(kept) <=> e \in ToSet(es) /\ e.to \in R /\ (e.from \in ps => e.from \in R)
  BY <1>2
<1>4. Reachable(kept, R) \subseteq R
  BY ReachableIs
<1>5. R \subseteq Reachable(kept, R)
  <2> SUFFICES ASSUME NEW S \in SUBSET R, ClosedUnder(kept, R, S) PROVE R \subseteq S
    <3>1. Reachable(kept, R) \in SUBSET R /\ ClosedUnder(kept, R, Reachable(kept, R))
      BY ReachableIs
    <3> QED BY <3>1
  <2> SUFFICES ClosedUnder(es, ps, S)
    BY <1>1
  <2> SUFFICES ASSUME NEW i \in DOMAIN es, es[i].to \in ps, es[i].from \in ps => es[i].from \in S PROVE es[i].to \in S
    BY DEF ClosedUnder
  <2>1. es[i].from \in ps => es[i].from \in R
    OBVIOUS
  <2>2. es[i].to \in R
    BY <1>1, <2>1 DEF ClosedUnder
  <2>3. es[i] \in ToSet(kept)
    BY <1>3, <2>1, <2>2 DEF ToSet
  <2>4. PICK j \in DOMAIN kept : kept[j] = es[i]
    BY <2>3 DEF ToSet
  <2>5. kept[j].to \in R /\ (kept[j].from \in R => kept[j].from \in S)
    BY <1>1, <2>2, <2>4
  <2> QED BY <2>4, <2>5 DEF ClosedUnder
<1> QED BY <1>1, <1>2, <1>3, <1>4, <1>5
-----------------------------------------------------------------------------
(* The invariant.  What a required dependency asks for is on its way until an   *)
(* edge answers it; and a resolution that has an error, or that commits a       *)
(* group that will be one, owes nothing.                                       *)
Kinds == {"peer", "target-explicit", "project-explicit"}
NoId == <<"pkg", 0, 0>>
Codes == {"", "METADATA_ERROR", "INVALID_RANGE", "VERSION_NOT_FOUND", "ARTIFACT_ERROR", "TRUST_FAILED",
          "UNSUPPORTED_INTEGRITY", "ARTIFACT_INTEGRITY_FAILED", "ARTIFACT_PACKAGE_JSON_MISSING",
          "ARTIFACT_METADATA_MISMATCH", "ARTIFACT_CAPTURE_FAILED"}
AnyResult == [kind : {"none", "pending", "package", "failure"}, id : Ids \cup {NoId}, code : Codes]
WorkerAt == {"idle", "metadata", "fetchMetadata", "fetchArtifact", "await"}

FactsAre(fs) ==
  /\ fs \in Seq(ToSet(fs))
  /\ \A i \in DOMAIN fs : /\ fs[i].name \in Names /\ fs[i].range \in Int /\ fs[i].optional \in BOOLEAN
                          /\ fs[i].kind \in Kinds

IsItem(r) ==
  /\ r = [name |-> r.name, range |-> r.range, ref |-> r.ref, from |-> r.from, edge |-> r.edge,
          optional |-> r.optional, slot |-> r.slot]
  /\ r.name \in Names /\ r.range \in Int /\ r.optional \in BOOLEAN
  /\ r.from[1] = "pkg" => r.from \in packages

Items(rs) == IsFiniteSet(rs) /\ \A r \in rs : IsItem(r)

ResolverTypes ==
  /\ manifest \in Manifests /\ packages \subseteq Ids /\ recorded \subseteq Ids
  /\ edges \in Seq(ToSet(edges)) /\ FactsAre(facts)
  /\ pc \in {"enqueue", "frontier", "prepare", "commit", "peers", "reconcile", "prune", "recompute", "finalize", "done"}
  /\ next \in Nat \ {0} /\ stopped \in BOOLEAN /\ offered \in BOOLEAN
  /\ worker \in [Workers -> [at : WorkerAt, group : Int \X Int, id : Ids \cup {NoId}]]
  /\ meta \in [Names -> {"none", "pending", "ready", "failed"}]
  /\ prep \in [Ids -> AnyResult] /\ asked \in [Ids -> Nat] /\ failures \in 0 .. MaxFailures
  /\ pc \in {"enqueue", "frontier", "prepare", "commit"} => Items(frontier)
  /\ pc = "commit" => Items(committing)

(* A package was asked for once, and then the memo says so.                      *)
Memoized(id) ==
  IF VersionOf(id) = 0 THEN NameOf(id) \in Names /\ meta[NameOf(id)] # "none" ELSE prep[id].kind # "none"

FlightIsSingle ==
  /\ \A id \in Ids : asked[id] = 0 \/ (asked[id] = 1 /\ Memoized(id))
  /\ \A id \in Ids : prep[id].kind = "package" => prep[id].id = id

(* The groups are prepared each once, and by what they select.                   *)
Busy(w) == worker[w].at # "idle"
Answers(g, result) ==
  /\ result.kind \in {"package", "failure"}
  /\ result.kind = "package" => Candidates(g) # {} /\ result.id = Selected(g)
Fails(g) == g \in DOMAIN results /\ results[g].kind = "failure" /\ HasRequired(g)
AllGroups == {GroupOf(r) : r \in frontier}

Grouped ==
  pc \in {"prepare", "commit"} =>
    /\ Lists(groups, AllGroups)
    /\ \A g \in DOMAIN results : Answers(g, results[g]) /\ g \in AllGroups

AtWork ==
  pc = "prepare" =>
    /\ next <= Len(groups) + 1 /\ (offered => next <= Len(groups))
    /\ \A w \in Workers : Busy(w) =>
         /\ Group(w) \notin DOMAIN results
         /\ \E k \in DOMAIN groups : k < next /\ groups[k] = Group(w)
    /\ \A w, v \in Workers : Busy(w) /\ Busy(v) /\ Group(w) = Group(v) => w = v
    /\ \A w \in Workers : worker[w].at \in {"fetchArtifact", "await"} =>
         Candidates(Group(w)) # {} /\ worker[w].id = Selected(Group(w))
    /\ \A g \in DOMAIN results : \E k \in DOMAIN groups : k < next /\ groups[k] = g
    /\ \A k \in DOMAIN groups : k < next =>
         groups[k] \in DOMAIN results \/ \E w \in Workers : Busy(w) /\ Group(w) = groups[k]
    /\ stopped => \E g \in DOMAIN results : Fails(g)

WillFail == \E k \in DOMAIN groups : k >= next /\ Fails(groups[k])
Escaped == Errors # {} \/ (pc = "commit" /\ WillFail)

Settled ==
  /\ pc # "prepare" => \A w \in Workers : ~Busy(w)
  /\ pc = "commit" =>
       /\ stopped => Escaped
       /\ ~stopped => \A k \in DOMAIN groups : groups[k] \in DOMAIN results
       /\ fatal => Errors # {}

(* What is owed.                                                               *)
Need(id, i) == Item(DepsOf(id)[i], id, "runtime")
Required(k) == k \in DOMAIN Direct /\ Direct[k].name \notin DOMAIN Local
DirectItem(k) == [Item(Direct[k], Direct[k].from, Direct[k].edge) EXCEPT !.slot = SlotKey(SharedFact(Direct[k]))]
Asked(k) == Controlled(DirectItem(k))

Served(r) == \E e \in ToSet(edges) : e.from = r.from /\ Leads(e, r)
Pending(r) ==
  \/ pc \in {"enqueue", "frontier", "prepare"} /\ r \in frontier
  \/ pc = "commit" /\ r \in committing
  \/ pc = "commit" /\ r \in frontier /\ \E k \in DOMAIN groups : k >= next /\ groups[k] = GroupOf(r)

NeedsAreServed ==
  Escaped \/ \A id \in packages : \A i \in DOMAIN DepsOf(id) :
               ~DepsOf(id)[i].optional => Served(Need(id, i)) \/ Pending(Need(id, i))

AsksAreServed ==
  /\ pc = "enqueue" =>
       /\ next <= Len(Direct) + 1
       /\ \A k \in DOMAIN Direct : Required(k) /\ k < next => DirectItem(k) \in frontier
       /\ \A r \in frontier : r.slot # NoSlot => \E j \in DOMAIN facts : SlotKey(facts[j]) = r.slot
  /\ \A k \in DOMAIN Direct : Required(k) /\ (pc = "enqueue" => k < next) =>
       \E j \in DOMAIN facts : facts[j] = SharedFact(Direct[k])
  /\ pc # "enqueue" =>
       Escaped \/ \A k \in DOMAIN Direct : Required(k) /\ ~Direct[k].optional => Served(Asked(k)) \/ Pending(Asked(k))

EdgesAreInside == \A e \in ToSet(edges) : e.to \in packages /\ (e.from[1] = "pkg" => e.from \in packages)

IsPruned ==
  pc \in {"recompute", "finalize", "done"} => Errors # {} \/ packages = Reachable(edges, packages)

ResolverInv ==
  /\ ResolverTypes /\ FlightIsSingle /\ Grouped /\ AtWork /\ Settled
  /\ NeedsAreServed /\ AsksAreServed /\ EdgesAreInside /\ IsPruned

-----------------------------------------------------------------------------
(* The controller of a slot.                                                  *)

Weight(f) ==
  IF f.kind = "peer" THEN (IF f.optional THEN 0 ELSE 1) ELSE IF f.kind = "target-explicit" THEN 2 ELSE 3

(* A slot that a fact is about has a controller.                                 *)
LEMMA ControllerExists ==
  ASSUME NEW fs, FactsAre(fs), NEW slot, NEW one \in DOMAIN fs, SlotKey(fs[one]) = slot
  PROVE  Controller(fs, slot) \in ControllersOf(fs, slot) /\ Controller(fs, slot) \in DOMAIN fs
<1> DEFINE S == {j \in DOMAIN fs : SlotKey(fs[j]) = slot}
           Ws == {n \in 0 .. 3 : \E j \in S : Weight(fs[j]) = n}
<1>0. DOMAIN fs = 1 .. Len(fs) /\ Len(fs) \in Nat
  BY DEF FactsAre
<1>1. \A j \in DOMAIN fs : Weight(fs[j]) \in 0 .. 3 /\ fs[j].kind \in Kinds /\ fs[j].optional \in BOOLEAN
  BY DEF FactsAre, Weight
<1>2. \E w \in Ws : \A n \in Ws : n <= w
  <2>1. Ws \in SUBSET Nat /\ Ws # {} /\ \A n \in Ws : n <= 3
    BY <1>1
  <2> HIDE DEF Ws
  <2> QED BY <2>1, Greatest
<1>3. PICK w \in Ws : \A n \in Ws : n <= w
  BY <1>2
<1> DEFINE Tops == {j \in S : Weight(fs[j]) = w}
<1>4. \E i \in Tops : \A j \in Tops : j <= i
  <2>1. Tops \in SUBSET Nat /\ Tops # {} /\ \A j \in Tops : j <= Len(fs)
    BY <1>0, <1>3
  <2> HIDE DEF Tops
  <2> QED BY <1>0, <2>1, Greatest
<1>5. PICK i \in Tops : \A j \in Tops : j <= i
  BY <1>4
<1>6. \A j \in S : Weight(fs[j]) <= w
  BY <1>1, <1>3
<1>7. ASSUME NEW j \in DOMAIN fs, j # i, SlotKey(fs[j]) = SlotKey(fs[i]) PROVE Above(fs, i, j)
  <2>1. j \in S /\ i \in DOMAIN fs /\ Weight(fs[i]) = w
    BY <1>5, <1>7
  <2>2. Weight(fs[j]) < Weight(fs[i]) \/ (Weight(fs[j]) = Weight(fs[i]) /\ i > j)
    <3>1. CASE Weight(fs[j]) = w
      BY <1>0, <1>5, <1>7, <2>1, <3>1
    <3>2. CASE Weight(fs[j]) # w
      BY <1>1, <1>6, <2>1, <3>2
    <3> QED BY <3>1, <3>2
  <2>3. fs[i].kind \in Kinds /\ fs[j].kind \in Kinds /\ fs[i].optional \in BOOLEAN /\ fs[j].optional \in BOOLEAN
    BY <1>1, <2>1
  <2> QED BY <2>2, <2>3 DEF Above, Weight, KindRank, Kinds
<1>8. i \in ControllersOf(fs, slot)
  BY <1>5, <1>7 DEF ControllersOf, Controllers, Controls
<1> QED BY <1>8 DEF Controller, ControllersOf, Controllers

(* Peers never control a slot that something asks for directly.                   *)
LEMMA ControllersStay ==
  ASSUME NEW fs, FactsAre(fs), NEW more, FactsAre(more), \A i \in DOMAIN more : more[i].kind = "peer",
         NEW slot, NEW one \in DOMAIN fs, SlotKey(fs[one]) = slot, fs[one].kind # "peer"
  PROVE  /\ Controller(fs \o more, slot) = Controller(fs, slot)
         /\ (fs \o more)[Controller(fs, slot)] = fs[Controller(fs, slot)]
<1> DEFINE all == fs \o more
<1>0. /\ DOMAIN fs = 1 .. Len(fs) /\ Len(fs) \in Nat /\ DOMAIN more = 1 .. Len(more) /\ Len(more) \in Nat
      /\ fs \in Seq(ToSet(fs)) /\ more \in Seq(ToSet(more))
  BY DEF FactsAre
<1>1. /\ DOMAIN all = 1 .. Len(fs) + Len(more)
      /\ \A i \in DOMAIN fs : all[i] = fs[i]
      /\ \A i \in DOMAIN all \ DOMAIN fs : all[i].kind = "peer"
  <2> HIDE DEF all
  <2>1. all \in Seq(ToSet(fs) \cup ToSet(more)) /\ Len(all) = Len(fs) + Len(more)
    BY <1>0 DEF all
  <2>2. \A i \in 1 .. Len(fs) + Len(more) : all[i] = IF i <= Len(fs) THEN fs[i] ELSE more[i - Len(fs)]
    BY <1>0 DEF all
  <2>3. DOMAIN all = 1 .. Len(fs) + Len(more)
    BY <2>1
  <2>4. \A i \in DOMAIN all \ DOMAIN fs : i - Len(fs) \in DOMAIN more /\ all[i] = more[i - Len(fs)]
    BY <1>0, <2>2, <2>3
  <2> QED BY <1>0, <2>2, <2>3, <2>4
<1>k. \A i \in DOMAIN all : all[i].kind \in Kinds
  BY <1>0, <1>1 DEF FactsAre, Kinds
<1> HIDE DEF all
<1>2. ASSUME NEW i \in ControllersOf(fs, slot) PROVE i \in DOMAIN fs /\ i \in ControllersOf(all, slot)
  <2>1. i \in DOMAIN fs /\ SlotKey(fs[i]) = slot /\ all[i] = fs[i] /\ i \in DOMAIN all
    BY <1>0, <1>1 DEF ControllersOf, Controllers
  <2>2. \A j \in DOMAIN fs : j # i /\ SlotKey(fs[j]) = slot => Above(fs, i, j)
    BY <2>1 DEF ControllersOf, Controllers, Controls
  <2>3. fs[i].kind # "peer" /\ fs[i].kind \in Kinds
    <3>1. one = i \/ Above(fs, i, one)
      BY <2>2
    <3> QED BY <1>1, <1>k, <2>1, <3>1 DEF Above, KindRank, Kinds, FactsAre
  <2>4. ASSUME NEW j \in DOMAIN all, j # i, SlotKey(all[j]) = slot PROVE Above(all, i, j)
    <3>1. CASE j \in DOMAIN fs
      <4>1. all[j] = fs[j]
        BY <1>1, <3>1
      <4>2. Above(fs, i, j)
        BY <2>2, <2>4, <3>1, <4>1
      <4> QED BY <2>1, <4>1, <4>2 DEF Above
    <3>2. CASE j \notin DOMAIN fs
      <4>1. all[j].kind = "peer"
        BY <1>1, <3>2
      <4> QED BY <2>1, <2>3, <4>1 DEF Above, KindRank, Kinds
    <3> QED BY <3>1, <3>2
  <2> QED BY <2>1, <2>4 DEF ControllersOf, Controllers, Controls
<1>3. ASSUME NEW i \in ControllersOf(all, slot) PROVE i \in ControllersOf(fs, slot)
  <2>1. i \in DOMAIN all /\ SlotKey(all[i]) = slot /\ one \in DOMAIN all /\ all[one] = fs[one]
    BY <1>0, <1>1 DEF ControllersOf, Controllers
  <2>2. \A j \in DOMAIN all : j # i /\ SlotKey(all[j]) = slot => Above(all, i, j)
    BY <2>1 DEF ControllersOf, Controllers, Controls
  <2>3. i \in DOMAIN fs
    <3> SUFFICES ASSUME i \notin DOMAIN fs PROVE FALSE
      OBVIOUS
    <3>1. all[i].kind = "peer" /\ one # i /\ all[one].kind # "peer" /\ all[one].kind \in Kinds
      BY <1>1, <1>k, <2>1
    <3>2. Above(all, i, one)
      BY <2>1, <2>2, <3>1
    <3> QED BY <3>1, <3>2 DEF Above, KindRank, Kinds
  <2>4. all[i] = fs[i]
    BY <1>1, <2>3
  <2>5. ASSUME NEW j \in DOMAIN fs, j # i, SlotKey(fs[j]) = slot PROVE Above(fs, i, j)
    <3>1. j \in DOMAIN all /\ all[j] = fs[j]
      BY <1>0, <1>1
    <3>2. Above(all, i, j)
      BY <2>2, <2>5, <3>1
    <3> QED BY <2>4, <3>1, <3>2 DEF Above
  <2> QED BY <2>1, <2>3, <2>4, <2>5 DEF ControllersOf, Controllers, Controls
<1>4. ControllersOf(all, slot) = ControllersOf(fs, slot)
  BY <1>2, <1>3
<1>5. Controller(all, slot) = Controller(fs, slot)
  BY <1>4 DEF Controller
<1>6. Controller(fs, slot) \in DOMAIN fs
  BY ControllerExists
<1> QED BY <1>1, <1>5, <1>6 DEF all

-----------------------------------------------------------------------------
(* What is owed, over a step.                                                  *)

Duty(r) == r.from[1] # "peer" /\ ~r.optional

(* The facts that a step adds are about peers.                                   *)
Longer ==
  \/ facts' = facts
  \/ \E more : FactsAre(more) /\ (\A i \in DOMAIN more : more[i].kind = "peer") /\ facts' = facts \o more

LEMMA FactsStay ==
  ASSUME FactsAre(facts), Longer
  PROVE  /\ \A j \in DOMAIN facts : j \in DOMAIN facts' /\ facts'[j] = facts[j]
         /\ FactsAre(facts)'
<1>1. CASE facts' = facts
  BY <1>1 DEF FactsAre
<1>2. CASE facts' # facts
  <2>1. PICK more : FactsAre(more) /\ facts' = facts \o more
    BY <1>2 DEF Longer
  <2>2. /\ facts \in Seq(ToSet(facts)) /\ more \in Seq(ToSet(more)) /\ Len(facts) \in Nat /\ Len(more) \in Nat
        /\ DOMAIN facts = 1 .. Len(facts) /\ DOMAIN more = 1 .. Len(more)
    BY <2>1 DEF FactsAre
  <2>3. facts' \in Seq(ToSet(facts) \cup ToSet(more)) /\ Len(facts') = Len(facts) + Len(more)
    BY <2>1, <2>2
  <2>4. \A i \in 1 .. Len(facts) + Len(more) : facts'[i] = IF i <= Len(facts) THEN facts[i] ELSE more[i - Len(facts)]
    BY <2>1, <2>2
  <2>5. DOMAIN facts' = 1 .. Len(facts) + Len(more) /\ facts' \in Seq(ToSet(facts'))
    BY <2>3 DEF ToSet
  <2>6. \A j \in DOMAIN facts : j \in DOMAIN facts' /\ facts'[j] = facts[j]
    BY <2>2, <2>4, <2>5
  <2>7. ASSUME NEW i \in DOMAIN facts'
        PROVE (i \in DOMAIN facts /\ facts'[i] = facts[i]) \/ (\E j \in DOMAIN more : facts'[i] = more[j])
    <3>1. CASE i <= Len(facts)
      BY <2>2, <2>4, <2>5, <3>1
    <3>2. CASE i > Len(facts)
      <4>1. i - Len(facts) \in DOMAIN more /\ facts'[i] = more[i - Len(facts)]
        BY <2>2, <2>4, <2>5, <3>2
      <4> QED BY <4>1
    <3> QED BY <2>2, <2>5, <3>1, <3>2
  <2>8. FactsAre(facts)'
    <3> SUFFICES ASSUME NEW i \in DOMAIN facts'
                 PROVE /\ facts'[i].name \in Names /\ facts'[i].range \in Int
                       /\ facts'[i].optional \in BOOLEAN /\ facts'[i].kind \in Kinds
      BY <2>5 DEF FactsAre
    <3> QED BY <2>1, <2>7 DEF FactsAre
  <2> QED BY <2>6, <2>8
<1> QED BY <1>1, <1>2

(* What a direct dependency asks for.                                           *)
LEMMA AskedIs ==
  ASSUME NEW fs, FactsAre(fs), manifest \in Manifests, NEW k, Required(k),
         NEW one \in DOMAIN fs, fs[one] = SharedFact(Direct[k]),
         NEW c, c = Controller(fs, SlotKey(SharedFact(Direct[k])))
  PROVE  /\ c \in DOMAIN fs
         /\ DirectItem(k).slot = SlotKey(SharedFact(Direct[k])) /\ DirectItem(k).slot # NoSlot
         /\ [DirectItem(k) EXCEPT !.range = fs[c].range] =
              [name |-> Direct[k].name, range |-> fs[c].range, ref |-> Direct[k].ref, from |-> Direct[k].from,
               edge |-> Direct[k].edge, optional |-> Direct[k].optional, slot |-> <<Direct[k].scope, Direct[k].name>>]
         /\ Direct[k].from[1] = "root" /\ Direct[k].name \in Names /\ fs[c].range \in Int
         /\ Direct[k].optional \in BOOLEAN /\ Direct[k].kind \in Kinds /\ Direct[k].kind # "peer"
         /\ SharedFact(Direct[k]).kind = Direct[k].kind
<1>1. DirectRequest(Direct[k]) /\ Direct[k].name \in Names
  BY ResolverAssumption DEF Required, Direct, DirectRequest
<1>2. c \in DOMAIN fs
  BY ControllerExists
<1>3. fs[c].range \in Int
  BY <1>2 DEF FactsAre
<1>4. SlotKey(SharedFact(Direct[k])) = <<Direct[k].scope, Direct[k].name>>
  BY DEF SlotKey, SharedFact
<1>5. DirectItem(k) = [name |-> Direct[k].name, range |-> Direct[k].range, ref |-> Direct[k].ref, from |-> Direct[k].from,
               edge |-> Direct[k].edge, optional |-> Direct[k].optional, slot |-> <<Direct[k].scope, Direct[k].name>>]
  BY <1>4 DEF DirectItem, Item
<1>6. <<Direct[k].scope, Direct[k].name>> # NoSlot
  BY DEF NoSlot
<1> HIDE DEF DirectItem, NoSlot
<1> QED BY <1>1, <1>2, <1>3, <1>4, <1>5, <1>6 DEF DirectRequest, Kinds, SharedFact

LEMMA AskedStays ==
  ASSUME ResolverInv, manifest' = manifest, Longer, pc # "enqueue", NEW k, Required(k)
  PROVE  /\ Asked(k)' = Asked(k) /\ Required(k)'
         /\ Asked(k).from[1] = "root" /\ Asked(k).optional = Direct[k].optional /\ Direct' = Direct
         /\ \E j \in DOMAIN facts' : facts'[j] = SharedFact(Direct[k])
<1>1. FactsAre(facts) /\ manifest \in Manifests /\ Direct' = Direct
  BY DEF ResolverInv, ResolverTypes, Direct
<1>2. PICK one \in DOMAIN facts : facts[one] = SharedFact(Direct[k])
  BY DEF ResolverInv, AsksAreServed, Required
<1> DEFINE slot == SlotKey(SharedFact(Direct[k]))
           c == Controller(facts, slot)
<1>3. /\ DirectItem(k).slot = slot /\ DirectItem(k).slot # NoSlot /\ Direct[k].from[1] = "root" /\ c \in DOMAIN facts
      /\ [DirectItem(k) EXCEPT !.range = facts[c].range] =
              [name |-> Direct[k].name, range |-> facts[c].range, ref |-> Direct[k].ref, from |-> Direct[k].from,
               edge |-> Direct[k].edge, optional |-> Direct[k].optional, slot |-> <<Direct[k].scope, Direct[k].name>>]
      /\ SharedFact(Direct[k]).kind # "peer"
  BY <1>1, <1>2, AskedIs
<1>4. Controller(facts', slot) = c /\ facts'[c] = facts[c]
  <2>1. CASE facts' = facts
    BY <2>1
  <2>2. CASE facts' # facts
    <3>1. PICK more : FactsAre(more) /\ (\A i \in DOMAIN more : more[i].kind = "peer") /\ facts' = facts \o more
      BY <2>2 DEF Longer
    <3> HIDE DEF slot
    <3>2. SlotKey(facts[one]) = slot /\ facts[one].kind # "peer"
      BY <1>2, <1>3 DEF slot
    <3> QED BY <1>1, <3>1, <3>2, ControllersStay
  <2> QED BY <2>1, <2>2
<1>5. DirectItem(k)' = DirectItem(k) /\ Required(k)'
  BY <1>1 DEF DirectItem, Required
<1>6. Asked(k) = [DirectItem(k) EXCEPT !.range = facts[c].range]
  BY <1>3 DEF Asked, Controlled
<1>7. Asked(k)' = [DirectItem(k) EXCEPT !.range = facts'[Controller(facts', slot)].range]
  <2> HIDE DEF slot
  <2>1. DirectItem(k)'.slot = slot /\ DirectItem(k)'.slot # NoSlot
    BY <1>3, <1>5 DEF NoSlot
  <2>2. DirectItem(k)'.slot # NoSlot'
    BY <2>1 DEF NoSlot
  <2> HIDE DEF NoSlot, DirectItem
  <2> QED BY <1>5, <2>1, <2>2 DEF Asked, Controlled
<1>8. \E j \in DOMAIN facts' : facts'[j] = SharedFact(Direct[k])
  BY <1>1, <1>2, FactsStay
<1> HIDE DEF slot, c, DirectItem
<1> QED BY <1>1, <1>3, <1>4, <1>5, <1>6, <1>7, <1>8

LEMMA DutiesStay ==
  ASSUME ResolverInv, pc # "enqueue", pc' # "enqueue", manifest' = manifest, packages' \subseteq Ids, Longer,
         Escaped => Escaped',
         \/ Escaped'
         \/ /\ \A id \in packages' \ packages : \A i \in DOMAIN DepsOf(id) : Pending(Need(id, i))'
            /\ \A r : Duty(r) /\ (r.from[1] = "pkg" => r.from \in packages') /\ (Served(r) \/ Pending(r))
                        => Served(r)' \/ Pending(r)'
  PROVE  NeedsAreServed' /\ AsksAreServed'
<1>1. NeedsAreServed'
  <2> SUFFICES ASSUME ~Escaped', NEW id \in packages', NEW i \in DOMAIN DepsOf(id), ~DepsOf(id)[i].optional
               PROVE  Served(Need(id, i))' \/ Pending(Need(id, i))'
    BY DEF NeedsAreServed, Need, DepsOf
  <2>1. CASE id \notin packages
    BY <2>1
  <2>2. CASE id \in packages
    <3>1. Served(Need(id, i)) \/ Pending(Need(id, i))
      BY <2>2 DEF ResolverInv, NeedsAreServed
    <3> PICK r : r = Need(id, i)
      OBVIOUS
    <3>2. id[1] = "pkg"
      BY DEF Ids
    <3>3. Duty(r) /\ r.from \in packages'
      BY <3>2 DEF Duty, Need, Item
    <3>4. Served(r)' \/ Pending(r)'
      BY <3>1, <3>3
    <3>5. r = Need(id, i)'
      BY DEF Need, DepsOf
    <3> QED BY <3>4, <3>5
  <2> QED BY <2>1, <2>2
<1>2. AsksAreServed'
  <2>1. ASSUME NEW k, Required(k)
        PROVE \E j \in DOMAIN facts' : facts'[j] = SharedFact(Direct[k])
    BY <2>1, AskedStays
  <2>2. ASSUME NEW k, Required(k), ~Direct[k].optional, ~Escaped'
        PROVE  Served(Asked(k))' \/ Pending(Asked(k))'
    <3>1. k \in DOMAIN Direct
      BY <2>2 DEF Required
    <3>2. Served(Asked(k)) \/ Pending(Asked(k))
      BY <2>2, <3>1 DEF ResolverInv, AsksAreServed
    <3> PICK r : r = Asked(k)
      OBVIOUS
    <3>3. r = Asked(k)' /\ r.from[1] = "root" /\ ~r.optional
      BY <2>2, AskedStays
    <3>4. Duty(r) /\ (r.from[1] = "pkg" => r.from \in packages')
      BY <3>3 DEF Duty
    <3>5. Served(r)' \/ Pending(r)'
      BY <2>2, <3>2, <3>4
    <3> QED BY <3>3, <3>5
  <2>3. Direct' = Direct /\ \A k : Required(k)' = Required(k)
    BY DEF Direct, Required
  <2> HIDE DEF Direct, Required
  <2> QED BY <2>1, <2>2, <2>3 DEF AsksAreServed
<1> QED BY <1>1, <1>2

-----------------------------------------------------------------------------
(* The steps of the workers: what is owed does not change.                      *)
LEMMA QuietKeeps ==
  ASSUME ResolverInv, UNCHANGED <<manifest, lock, flow>>, pc # "commit", pc # "enqueue"
  PROVE  NeedsAreServed' /\ AsksAreServed' /\ EdgesAreInside' /\ IsPruned'
<1>1. packages' \subseteq Ids /\ Longer /\ pc' # "enqueue"
  BY DEF ResolverInv, ResolverTypes, Longer, lock, flow
<1>2. Escaped => Escaped'
  BY DEF Escaped, Errors, lock, flow
<1>3. ASSUME NEW r PROVE Served(r) \/ Pending(r) => Served(r)' \/ Pending(r)'
  <2>1. Served(r) = Served(r)'
    BY DEF Served, Leads, lock
  <2>2. Pending(r) = Pending(r)'
    BY DEF Pending, flow
  <2> QED BY <2>1, <2>2
<1>4. NeedsAreServed' /\ AsksAreServed'
  <2>1. packages' \ packages = {}
    BY DEF lock
  <2> QED BY <1>1, <1>2, <1>3, <2>1, DutiesStay
<1>5. EdgesAreInside' /\ IsPruned'
  BY DEF ResolverInv, EdgesAreInside, IsPruned, Errors, lock, flow
<1> QED BY <1>4, <1>5

(* A worker that takes a step keeps its group and what it stands for.              *)
LEMMA WorkerMoves ==
  ASSUME ResolverInv, NEW w \in Workers, pc = "prepare", worker[w].at # "idle",
         NEW at \in WorkerAt \ {"idle"}, NEW id \in Ids \cup {NoId},
         worker' = [worker EXCEPT ![w] = [at |-> at, group |-> Group(w), id |-> id]],
         at \in {"fetchArtifact", "await"} => Candidates(Group(w)) # {} /\ id = Selected(Group(w)),
         UNCHANGED <<manifest, lock, groups, next, stopped, offered, results, flow>>
  PROVE  /\ Grouped' /\ AtWork' /\ Settled'
         /\ worker' \in [Workers -> [at : WorkerAt, group : Int \X Int, id : Ids \cup {NoId}]]
<1>1. worker \in [Workers -> [at : WorkerAt, group : Int \X Int, id : Ids \cup {NoId}]]
  BY DEF ResolverInv, ResolverTypes
<1>2. /\ \A v \in Workers : v # w => worker'[v] = worker[v]
      /\ worker'[w].at = at /\ worker'[w].group = Group(w) /\ worker'[w].id = id
  BY <1>1
<1>3. \A v \in Workers : Busy(v)' = Busy(v) /\ Group(v)' = Group(v)
  BY <1>2 DEF Busy, Group
<1>4. Grouped'
  BY DEF ResolverInv, Grouped, AllGroups, flow, Lists
<1>5. Settled'
  BY DEF Settled, flow
<1>6. AtWork'
  <2>1. \A v \in Workers : worker'[v].at \in {"fetchArtifact", "await"} =>
          Candidates(Group(v)) # {} /\ worker'[v].id = Selected(Group(v))
    BY <1>2 DEF ResolverInv, AtWork
  <2>2. \A g \in DOMAIN results : Fails(g) => Fails(g)'
    BY DEF Fails, HasRequired, Requests, flow
  <2> HIDE DEF Busy, Group, Fails, Candidates, Selected
  <2>3. \A v \in Workers : (Candidates(Group(v)) = Candidates(Group(v)'))  /\ (Selected(Group(v)) = Selected(Group(v)'))
    BY <1>3
  <2>4. \A v \in Workers : worker'[v].at \in {"fetchArtifact", "await"} =>
          Candidates(Group(v))' # {} /\ worker'[v].id = Selected(Group(v))'
    BY <2>1, <2>3 DEF Candidates, Selected
  <2> QED BY <1>3, <2>2, <2>4 DEF ResolverInv, AtWork, flow
<1>7. worker' \in [Workers -> [at : WorkerAt, group : Int \X Int, id : Ids \cup {NoId}]]
  BY <1>1 DEF Group
<1> QED BY <1>4, <1>5, <1>6, <1>7

(* What a worker hands in is an answer to its group.                              *)
LEMMA WorkerDelivers ==
  ASSUME ResolverInv, NEW w \in Workers, pc = "prepare", worker[w].at # "idle",
         NEW result \in AnyResult, Answers(Group(w), result), Deliver(w, result),
         UNCHANGED <<manifest, lock, groups, next, offered, flow>>
  PROVE  /\ Grouped' /\ AtWork' /\ Settled' /\ stopped' \in BOOLEAN
         /\ worker' \in [Workers -> [at : WorkerAt, group : Int \X Int, id : Ids \cup {NoId}]]
<1>1. worker \in [Workers -> [at : WorkerAt, group : Int \X Int, id : Ids \cup {NoId}]] /\ stopped \in BOOLEAN
  BY DEF ResolverInv, ResolverTypes
<1>2. /\ \A v \in Workers : v # w => worker'[v] = worker[v]
      /\ worker'[w] = Idle
      /\ worker' \in [Workers -> [at : WorkerAt, group : Int \X Int, id : Ids \cup {NoId}]]
  BY <1>1 DEF Deliver, Idle, WorkerAt, NoId
<1>3. /\ \A v \in Workers : Busy(v)' => v # w /\ Busy(v) /\ Group(v)' = Group(v)
      /\ \A v \in Workers : v # w => Busy(v)' = Busy(v) /\ Group(v)' = Group(v)
      /\ Busy(w)
  BY <1>2 DEF Busy, Group, Idle
<1>g. PICK g0 : g0 = Group(w)
  OBVIOUS
<1>4. /\ DOMAIN results' = DOMAIN results \cup {g0} /\ results'[g0] = result
      /\ \A g \in DOMAIN results : g # g0 => results'[g] = results[g]
  BY <1>g DEF Deliver
<1>5. \E k \in DOMAIN groups : k < next /\ groups[k] = g0
  BY <1>g DEF ResolverInv, AtWork, Busy
<1>6. g0 \notin DOMAIN results /\ \A v \in Workers : v # w /\ Busy(v) => Group(v) # g0
  BY <1>3, <1>g DEF ResolverInv, AtWork
<1>s. stopped' = (stopped \/ (Jobs # 1 /\ result.kind = "failure" /\ HasRequired(g0)))
  BY <1>g DEF Deliver
<1>7. Grouped'
  <2>1. Lists(groups, AllGroups) /\ \A g \in DOMAIN results : Answers(g, results[g]) /\ g \in AllGroups
    BY DEF ResolverInv, Grouped
  <2>2. AllGroups' = AllGroups
    BY DEF AllGroups, flow
  <2>3. g0 \in AllGroups
    BY <1>5, <2>1 DEF Lists
  <2>4. \A g \in DOMAIN results' : Answers(g, results'[g]) /\ g \in AllGroups
    BY <1>4, <1>g, <2>1, <2>3
  <2>5. Lists(groups, AllGroups)'
    BY <2>1, <2>2 DEF Lists
  <2>6. (\A g \in DOMAIN results : Answers(g, results[g]) /\ g \in AllGroups)'
    BY <2>2, <2>4 DEF Answers
  <2> QED BY <2>5, <2>6 DEF Grouped
<1>8. Settled'
  BY DEF Settled, flow
<1>9. AtWork'
  <2>0. /\ next <= Len(groups) + 1 /\ (offered => next <= Len(groups))
        /\ \A v \in Workers : Busy(v) =>
             Group(v) \notin DOMAIN results /\ \E k \in DOMAIN groups : k < next /\ groups[k] = Group(v)
        /\ \A v, u \in Workers : Busy(v) /\ Busy(u) /\ Group(v) = Group(u) => v = u
        /\ \A v \in Workers : worker[v].at \in {"fetchArtifact", "await"} =>
             Candidates(Group(v)) # {} /\ worker[v].id = Selected(Group(v))
        /\ \A g \in DOMAIN results : \E k \in DOMAIN groups : k < next /\ groups[k] = g
        /\ \A k \in DOMAIN groups : k < next =>
             groups[k] \in DOMAIN results \/ \E v \in Workers : Busy(v) /\ Group(v) = groups[k]
        /\ stopped => \E g \in DOMAIN results : Fails(g)
    BY DEF ResolverInv, AtWork
  <2>1. /\ groups' = groups /\ next' = next /\ offered' = offered /\ pc' = "prepare"
    BY DEF flow
  <2>2. \A g \in DOMAIN results : Fails(g) => Fails(g)'
    BY <1>4, <1>6 DEF Fails, HasRequired, Requests, flow
  <2>3. HasRequired(g0) /\ result.kind = "failure" => Fails(g0)'
    BY <1>4 DEF Fails, HasRequired, Requests, flow
  <2>a. \A v \in Workers : Busy(v)' =>
             Group(v)' \notin DOMAIN results' /\ \E k \in DOMAIN groups' : k < next' /\ groups'[k] = Group(v)'
    BY <1>3, <1>4, <1>6, <2>0, <2>1
  <2>b. \A v, u \in Workers : Busy(v)' /\ Busy(u)' /\ Group(v)' = Group(u)' => v = u
    BY <1>3, <2>0
  <2>c. \A v \in Workers : worker'[v].at \in {"fetchArtifact", "await"} =>
             Candidates(Group(v))' # {} /\ worker'[v].id = Selected(Group(v))'
    <3> SUFFICES ASSUME NEW v \in Workers, worker'[v].at \in {"fetchArtifact", "await"}
                 PROVE  Candidates(Group(v))' # {} /\ worker'[v].id = Selected(Group(v))'
      OBVIOUS
    <3>1. v # w
      BY <1>2 DEF Idle
    <3>2. worker'[v] = worker[v]
      BY <1>2, <3>1
    <3> QED BY <2>0, <3>2 DEF Candidates, Selected, Group
  <2>d. \A g \in DOMAIN results' : \E k \in DOMAIN groups' : k < next' /\ groups'[k] = g
    BY <1>4, <1>5, <2>0, <2>1
  <2>e. \A k \in DOMAIN groups' : k < next' =>
             groups'[k] \in DOMAIN results' \/ \E v \in Workers : Busy(v)' /\ Group(v)' = groups'[k]
    <3> SUFFICES ASSUME NEW k \in DOMAIN groups, k < next, groups[k] \notin DOMAIN results'
                 PROVE  \E v \in Workers : Busy(v)' /\ Group(v)' = groups[k]
      BY <2>1
    <3>1. PICK v \in Workers : Busy(v) /\ Group(v) = groups[k]
      BY <1>4, <2>0
    <3>2. v # w
      BY <1>4, <1>g, <3>1
    <3> QED BY <1>3, <3>1, <3>2
  <2>f. stopped' => \E g \in DOMAIN results' : Fails(g)'
    BY <1>4, <1>s, <2>0, <2>2, <2>3
  <2> HIDE DEF Busy, Group, Fails, Candidates, Selected
  <2> QED BY <2>0, <2>1, <2>a, <2>b, <2>c, <2>d, <2>e, <2>f DEF AtWork
<1>10. stopped' \in BOOLEAN
  <2> HIDE DEF HasRequired, Jobs
  <2> QED BY <1>1, <1>s, Zenon
<1> QED BY <1>2, <1>7, <1>8, <1>9, <1>10

LEMMA QuietTypes ==
  ASSUME ResolverInv, UNCHANGED <<manifest, lock, flow>>,
         next' \in Nat \ {0}, stopped' \in BOOLEAN, offered' \in BOOLEAN,
         worker' \in [Workers -> [at : WorkerAt, group : Int \X Int, id : Ids \cup {NoId}]],
         meta' \in [Names -> {"none", "pending", "ready", "failed"}],
         prep' \in [Ids -> AnyResult], asked' \in [Ids -> Nat], failures' \in 0 .. MaxFailures
  PROVE  ResolverTypes'
<1>1. Items(frontier)' = Items(frontier) /\ Items(committing)' = Items(committing)
  BY DEF Items, IsItem, lock, flow
<1>2. FactsAre(facts)' = FactsAre(facts)
  BY DEF FactsAre, lock
<1>3. /\ manifest' \in Manifests /\ packages' \subseteq Ids /\ recorded' \subseteq Ids
      /\ edges' \in Seq(ToSet(edges'))
      /\ pc' = pc
  BY DEF ResolverInv, ResolverTypes, lock, flow
<1> HIDE DEF Items, FactsAre
<1> QED BY <1>1, <1>2, <1>3 DEF ResolverInv, ResolverTypes

(* A result, handed in.                                                         *)
LEMMA DeliveryKeepsIt ==
  ASSUME ResolverInv, NEW w \in Workers, pc = "prepare", worker[w].at # "idle",
         NEW result \in AnyResult, Answers(Group(w), result), Deliver(w, result),
         UNCHANGED <<manifest, lock, groups, next, offered, memo, flow>>
  PROVE  ResolverInv'
<1>1. /\ Grouped' /\ AtWork' /\ Settled' /\ stopped' \in BOOLEAN
      /\ worker' \in [Workers -> [at : WorkerAt, group : Int \X Int, id : Ids \cup {NoId}]]
  BY WorkerDelivers
<1>2. NeedsAreServed' /\ AsksAreServed' /\ EdgesAreInside' /\ IsPruned'
  BY QuietKeeps
<1>3. FlightIsSingle'
  BY DEF ResolverInv, FlightIsSingle, Memoized, memo
<1>4. ResolverTypes'
  <2>1. /\ next' \in Nat \ {0} /\ offered' \in BOOLEAN
        /\ meta' \in [Names -> {"none", "pending", "ready", "failed"}]
        /\ prep' \in [Ids -> AnyResult] /\ asked' \in [Ids -> Nat] /\ failures' \in 0 .. MaxFailures
    BY DEF ResolverInv, ResolverTypes, memo
  <2> QED BY <1>1, <2>1, QuietTypes
<1> QED BY <1>1, <1>2, <1>3, <1>4 DEF ResolverInv

LEMMA GroupIsKnown ==
  ASSUME ResolverInv, NEW w \in Workers, pc = "prepare", worker[w].at # "idle"
  PROVE  Group(w) \in AllGroups /\ Group(w)[1] \in Names /\ IdOf(Group(w)[1], 0) \in Ids
<1>1. Lists(groups, AllGroups)
  BY DEF ResolverInv, Grouped
<1>2. PICK k \in DOMAIN groups : groups[k] = Group(w)
  BY DEF ResolverInv, AtWork, Busy
<1>3. Group(w) \in AllGroups
  BY <1>1, <1>2 DEF Lists
<1>4. PICK r \in frontier : Group(w) = GroupOf(r)
  BY <1>3 DEF AllGroups
<1>5. r.name \in Names
  BY DEF ResolverInv, ResolverTypes, Items, IsItem
<1>6. IdOf(r.name, 0) \in Ids
  BY <1>5 DEF Ids, IdOf
<1> QED BY <1>3, <1>4, <1>5, <1>6 DEF GroupOf

LEMMA LookupMetadataKeepsIt == ASSUME ResolverInv, NEW w \in Workers, LookupMetadata(w) PROVE ResolverInv'
<1>0. /\ worker \in [Workers -> [at : WorkerAt, group : Int \X Int, id : Ids \cup {NoId}]]
      /\ meta \in [Names -> {"none", "pending", "ready", "failed"}] /\ asked \in [Ids -> Nat]
      /\ next \in Nat \ {0} /\ stopped \in BOOLEAN /\ offered \in BOOLEAN
      /\ prep \in [Ids -> AnyResult] /\ failures \in 0 .. MaxFailures
  BY DEF ResolverInv, ResolverTypes
<1>1. /\ pc = "prepare" /\ worker[w].at = "metadata" /\ meta[Group(w)[1]] = "none"
      /\ meta' = [meta EXCEPT ![Group(w)[1]] = "pending"]
      /\ asked' = [asked EXCEPT ![IdOf(Group(w)[1], 0)] = @ + 1]
      /\ UNCHANGED <<manifest, lock, groups, next, stopped, offered, results, prep, failures, flow>>
  BY DEF LookupMetadata, At, Ask
<1>2. Group(w)[1] \in Names /\ IdOf(Group(w)[1], 0) \in Ids
  BY <1>1, GroupIsKnown
<1>3. worker' = [worker EXCEPT ![w] = [at |-> "fetchMetadata", group |-> Group(w), id |-> worker[w].id]]
  BY DEF LookupMetadata, Moves
<1>4. /\ Grouped' /\ AtWork' /\ Settled'
      /\ worker' \in [Workers -> [at : WorkerAt, group : Int \X Int, id : Ids \cup {NoId}]]
  BY <1>0, <1>1, <1>3, WorkerMoves DEF WorkerAt
<1>5. NeedsAreServed' /\ AsksAreServed' /\ EdgesAreInside' /\ IsPruned'
  BY <1>1, QuietKeeps
<1>6. FlightIsSingle'
  <2> PICK n : n = Group(w)[1]
    OBVIOUS
  <2>1. ASSUME NEW id \in Ids PROVE asked'[id] = 0 \/ (asked'[id] = 1 /\ Memoized(id)')
    <3>1. asked[id] = 0 \/ (asked[id] = 1 /\ Memoized(id))
      BY DEF ResolverInv, FlightIsSingle
    <3>2. CASE id = IdOf(n, 0)
      <4>1. VersionOf(id) = 0 /\ NameOf(id) = n
        BY <3>2 DEF IdOf, VersionOf, NameOf
      <4>2. ~Memoized(id)
        BY <1>1, <4>1 DEF Memoized
      <4>3. asked'[id] = 1
        BY <1>0, <1>1, <3>1, <3>2, <4>2
      <4>4. meta'[n] = "pending"
        BY <1>0, <1>1, <1>2
      <4> QED BY <1>2, <4>1, <4>3, <4>4 DEF Memoized
    <3>3. CASE id # IdOf(n, 0)
      <4>1. asked'[id] = asked[id]
        BY <1>0, <1>1, <3>3
      <4>2. \A m \in Names : meta[m] # "none" => meta'[m] # "none"
        BY <1>0, <1>1
      <4>3. Memoized(id) => Memoized(id)'
        BY <1>1, <4>2 DEF Memoized
      <4> QED BY <3>1, <4>1, <4>3
    <3> QED BY <3>2, <3>3
  <2> QED BY <1>1, <2>1 DEF ResolverInv, FlightIsSingle
<1>7. ResolverTypes'
  <2>1. meta' \in [Names -> {"none", "pending", "ready", "failed"}] /\ asked' \in [Ids -> Nat]
    BY <1>0, <1>1, <1>2
  <2> QED BY <1>0, <1>1, <1>4, <2>1, QuietTypes
<1> QED BY <1>4, <1>5, <1>6, <1>7 DEF ResolverInv

LEMMA MetadataArrivesKeepsIt == ASSUME ResolverInv, NEW w \in Workers, MetadataArrives(w) PROVE ResolverInv'
<1>0. /\ worker \in [Workers -> [at : WorkerAt, group : Int \X Int, id : Ids \cup {NoId}]]
      /\ meta \in [Names -> {"none", "pending", "ready", "failed"}] /\ asked \in [Ids -> Nat]
      /\ next \in Nat \ {0} /\ stopped \in BOOLEAN /\ offered \in BOOLEAN
      /\ prep \in [Ids -> AnyResult] /\ failures \in 0 .. MaxFailures /\ MaxFailures \in Nat
  BY ResolverAssumption DEF ResolverInv, ResolverTypes
<1>1. /\ pc = "prepare" /\ worker[w].at = "fetchMetadata"
      /\ \E how \in {"ready", "failed"} : meta' = [meta EXCEPT ![Group(w)[1]] = how]
      /\ failures' \in 0 .. MaxFailures
      /\ UNCHANGED <<manifest, lock, groups, next, stopped, offered, results, prep, asked, flow>>
  BY <1>0 DEF MetadataArrives, At
<1>3. worker' = [worker EXCEPT ![w] = [at |-> "metadata", group |-> Group(w), id |-> worker[w].id]]
  BY DEF MetadataArrives, Moves
<1>4. /\ Grouped' /\ AtWork' /\ Settled'
      /\ worker' \in [Workers -> [at : WorkerAt, group : Int \X Int, id : Ids \cup {NoId}]]
  BY <1>0, <1>1, <1>3, WorkerMoves DEF WorkerAt
<1>5. NeedsAreServed' /\ AsksAreServed' /\ EdgesAreInside' /\ IsPruned'
  BY <1>1, QuietKeeps
<1>6. /\ meta' \in [Names -> {"none", "pending", "ready", "failed"}]
      /\ \A m \in Names : meta[m] # "none" => meta'[m] # "none"
  BY <1>0, <1>1
<1>7. FlightIsSingle'
  BY <1>1, <1>6 DEF ResolverInv, FlightIsSingle, Memoized
<1>8. ResolverTypes'
  BY <1>0, <1>1, <1>4, <1>6, QuietTypes
<1> QED BY <1>4, <1>5, <1>7, <1>8 DEF ResolverInv

LEMMA MetadataFailsKeepsIt == ASSUME ResolverInv, NEW w \in Workers, MetadataFails(w) PROVE ResolverInv'
<1> DEFINE result == Failure("METADATA_ERROR")
<1>1. /\ pc = "prepare" /\ worker[w].at # "idle" /\ Deliver(w, result)
      /\ UNCHANGED <<manifest, lock, groups, next, offered, memo, flow>>
  BY DEF MetadataFails, At
<1>2. result \in AnyResult /\ Answers(Group(w), result)
  BY DEF Failure, AnyResult, NoId, Answers, Codes
<1> HIDE DEF result
<1> QED BY <1>1, <1>2, DeliveryKeepsIt

LEMMA NoVersionKeepsIt == ASSUME ResolverInv, NEW w \in Workers, NoVersion(w) PROVE ResolverInv'
<1> DEFINE result == Failure(IF Valid(Group(w)[2]) THEN "VERSION_NOT_FOUND" ELSE "INVALID_RANGE")
<1>1. /\ pc = "prepare" /\ worker[w].at # "idle" /\ Deliver(w, result)
      /\ UNCHANGED <<manifest, lock, groups, next, offered, memo, flow>>
  BY DEF NoVersion, At
<1>2. result \in AnyResult /\ Answers(Group(w), result)
  BY DEF Failure, AnyResult, NoId, Answers, Codes
<1> HIDE DEF result
<1> QED BY <1>1, <1>2, DeliveryKeepsIt

LEMMA AlreadySeenKeepsIt == ASSUME ResolverInv, NEW w \in Workers, AlreadySeen(w) PROVE ResolverInv'
<1> DEFINE result == Prepared(Selected(Group(w)))
<1>1. /\ pc = "prepare" /\ worker[w].at # "idle" /\ Deliver(w, result) /\ Candidates(Group(w)) # {}
      /\ UNCHANGED <<manifest, lock, groups, next, offered, memo, flow>>
  BY DEF AlreadySeen, At
<1>2. Group(w)[1] \in Names
  BY <1>1, GroupIsKnown
<1>3. Selected(Group(w)) \in Ids
  BY <1>1, <1>2, SelectedIs
<1>4. result \in AnyResult /\ Answers(Group(w), result)
  <2> HIDE DEF Selected, Candidates
  <2> QED BY <1>1, <1>3 DEF Prepared, AnyResult, Answers, Codes
<1> HIDE DEF result
<1> QED BY <1>1, <1>4, DeliveryKeepsIt

LEMMA LookupPackageKeepsIt == ASSUME ResolverInv, NEW w \in Workers, LookupPackage(w) PROVE ResolverInv'
<1>0. /\ worker \in [Workers -> [at : WorkerAt, group : Int \X Int, id : Ids \cup {NoId}]]
      /\ meta \in [Names -> {"none", "pending", "ready", "failed"}] /\ asked \in [Ids -> Nat]
      /\ next \in Nat \ {0} /\ stopped \in BOOLEAN /\ offered \in BOOLEAN
      /\ prep \in [Ids -> AnyResult] /\ failures \in 0 .. MaxFailures
  BY DEF ResolverInv, ResolverTypes
<1> PICK id : id = Selected(Group(w))
  OBVIOUS
<1>1. /\ pc = "prepare" /\ worker[w].at = "metadata" /\ Candidates(Group(w)) # {}
      /\ \E at \in {"fetchArtifact", "await"} :
           /\ worker' = [worker EXCEPT ![w] = [at |-> at, group |-> Group(w), id |-> id]]
           /\ at = "fetchArtifact" => /\ prep[id].kind = "none" /\ prep' = [prep EXCEPT ![id] = InFlight]
                                      /\ asked' = [asked EXCEPT ![id] = @ + 1]
           /\ at = "await" => prep' = prep /\ asked' = asked
      /\ UNCHANGED <<manifest, lock, groups, next, stopped, offered, results, meta, failures, flow>>
  BY DEF LookupPackage, At, Ask, Moves
<1>2. Group(w)[1] \in Names
  BY <1>1, GroupIsKnown
<1>3. id \in Ids /\ VersionOf(id) # 0
  BY <1>1, <1>2, SelectedIs
<1>4. PICK at \in {"fetchArtifact", "await"} :
           /\ worker' = [worker EXCEPT ![w] = [at |-> at, group |-> Group(w), id |-> id]]
           /\ at = "fetchArtifact" => /\ prep[id].kind = "none" /\ prep' = [prep EXCEPT ![id] = InFlight]
                                      /\ asked' = [asked EXCEPT ![id] = @ + 1]
           /\ at = "await" => prep' = prep /\ asked' = asked
  BY <1>1
<1>5. /\ Grouped' /\ AtWork' /\ Settled'
      /\ worker' \in [Workers -> [at : WorkerAt, group : Int \X Int, id : Ids \cup {NoId}]]
  <2> HIDE DEF Candidates, Selected
  <2> QED BY <1>1, <1>3, <1>4, WorkerMoves DEF WorkerAt
<1>6. NeedsAreServed' /\ AsksAreServed' /\ EdgesAreInside' /\ IsPruned'
  BY <1>1, QuietKeeps
<1>7. /\ prep' \in [Ids -> AnyResult] /\ asked' \in [Ids -> Nat]
      /\ \A x \in Ids : x # id => prep'[x] = prep[x] /\ asked'[x] = asked[x]
      /\ at = "fetchArtifact" => prep'[id].kind = "pending" /\ asked'[id] = asked[id] + 1
      /\ at = "await" => prep'[id] = prep[id] /\ asked'[id] = asked[id]
  <2>1. InFlight \in AnyResult /\ InFlight.kind = "pending"
    BY DEF AnyResult, InFlight, NoId, Codes
  <2> HIDE DEF AnyResult, InFlight
  <2>2. CASE at = "fetchArtifact"
    BY <1>0, <1>3, <1>4, <2>1, <2>2
  <2>3. CASE at = "await"
    BY <1>0, <1>4, <2>3
  <2> QED BY <2>2, <2>3
<1>8. FlightIsSingle'
  <2>1. ASSUME NEW x \in Ids PROVE asked'[x] = 0 \/ (asked'[x] = 1 /\ Memoized(x)')
    <3>1. asked[x] = 0 \/ (asked[x] = 1 /\ Memoized(x))
      BY DEF ResolverInv, FlightIsSingle
    <3>2. CASE x = id /\ at = "fetchArtifact"
      <4>1. ~Memoized(x)
        BY <1>3, <1>4, <3>2 DEF Memoized
      <4> QED BY <1>0, <1>3, <1>7, <3>1, <3>2, <4>1 DEF Memoized
    <3>3. CASE ~(x = id /\ at = "fetchArtifact")
      <4>1. asked'[x] = asked[x] /\ prep'[x] = prep[x]
        BY <1>7, <3>3
      <4> QED BY <1>1, <3>1, <4>1 DEF Memoized
    <3> QED BY <3>2, <3>3
  <2>2. ASSUME NEW x \in Ids, prep'[x].kind = "package" PROVE prep'[x].id = x
    <3>1. prep'[x] = prep[x]
      BY <1>7, <2>2
    <3> QED BY <2>2, <3>1 DEF ResolverInv, FlightIsSingle
  <2> QED BY <2>1, <2>2 DEF FlightIsSingle
<1>9. ResolverTypes'
  BY <1>0, <1>1, <1>5, <1>7, QuietTypes
<1> QED BY <1>5, <1>6, <1>8, <1>9 DEF ResolverInv

LEMMA ArtifactArrivesKeepsIt == ASSUME ResolverInv, NEW w \in Workers, ArtifactArrives(w) PROVE ResolverInv'
<1>0. /\ worker \in [Workers -> [at : WorkerAt, group : Int \X Int, id : Ids \cup {NoId}]]
      /\ meta \in [Names -> {"none", "pending", "ready", "failed"}] /\ asked \in [Ids -> Nat]
      /\ next \in Nat \ {0} /\ offered \in BOOLEAN /\ MaxFailures \in Nat
      /\ prep \in [Ids -> AnyResult] /\ failures \in 0 .. MaxFailures
  BY ResolverAssumption DEF ResolverInv, ResolverTypes
<1>a. PICK a \in Artifacts :
        /\ \/ Verdict(worker[w].id, a).kind = "package" /\ UNCHANGED failures
           \/ Verdict(worker[w].id, a).kind = "failure" /\ failures < MaxFailures /\ failures' = failures + 1
        /\ prep' = [prep EXCEPT ![worker[w].id] = Verdict(worker[w].id, a)]
        /\ Deliver(w, Verdict(worker[w].id, a))
  BY DEF ArtifactArrives
<1> PICK id : id = worker[w].id
  OBVIOUS
<1>v. PICK verdict : verdict = Verdict(id, a)
  OBVIOUS
<1>1. /\ pc = "prepare" /\ worker[w].at = "fetchArtifact"
      /\ UNCHANGED <<manifest, lock, groups, next, offered, meta, asked, flow>>
  BY DEF ArtifactArrives, At
<1>2. /\ verdict.kind \in {"package", "failure"} /\ failures' \in 0 .. MaxFailures
      /\ prep' = [prep EXCEPT ![id] = verdict]
      /\ Deliver(w, verdict)
  BY <1>0, <1>a, <1>v DEF Deliver
<1>3. Candidates(Group(w)) # {} /\ id = Selected(Group(w)) /\ Group(w)[1] \in Names
  BY <1>1, GroupIsKnown DEF ResolverInv, AtWork
<1>4. id \in Ids /\ VersionOf(id) # 0
  BY <1>3, SelectedIs
<1>5. verdict \in AnyResult /\ (verdict.kind = "package" => verdict.id = id)
  <2>1. a.integrity \in {"none", "unsupported", "wrong", "right"}
    BY ResolverAssumption
  <2>2. verdict = Prepared(id) \/ \E code \in Codes : verdict = Failure(code)
    BY <1>v, <2>1 DEF Verdict, Codes
  <2>3. CASE verdict = Prepared(id)
    <3>1. verdict = [kind |-> "package", id |-> id, code |-> ""]
      BY <2>3 DEF Prepared
    <3>2. id \in Ids \cup {NoId} /\ "" \in Codes
      BY <1>4 DEF Codes
    <3>3. verdict \in AnyResult
      BY <3>1, <3>2 DEF AnyResult
    <3>4. verdict.id = id
      BY <3>1
    <3> QED BY <3>3, <3>4
  <2>4. CASE \E code \in Codes : verdict = Failure(code)
    BY <2>4 DEF Failure, AnyResult, NoId
  <2> QED BY <2>2, <2>3, <2>4
<1>6. Answers(Group(w), verdict)
  BY <1>2, <1>3, <1>5 DEF Answers
<1>7. /\ Grouped' /\ AtWork' /\ Settled' /\ stopped' \in BOOLEAN
      /\ worker' \in [Workers -> [at : WorkerAt, group : Int \X Int, id : Ids \cup {NoId}]]
  BY <1>1, <1>2, <1>5, <1>6, WorkerDelivers
<1>8. NeedsAreServed' /\ AsksAreServed' /\ EdgesAreInside' /\ IsPruned'
  BY <1>1, QuietKeeps
<1>9. prep' = [prep EXCEPT ![id] = verdict] /\ prep' \in [Ids -> AnyResult]
  BY <1>0, <1>2, <1>4, <1>5
<1>10. FlightIsSingle'
  <2>1. /\ \A x \in Ids : x # id => prep'[x] = prep[x]
        /\ prep'[id].kind \in {"package", "failure"} /\ (prep'[id].kind = "package" => prep'[id].id = id)
    BY <1>0, <1>2, <1>4, <1>5, <1>9
  <2> QED BY <1>1, <2>1 DEF ResolverInv, FlightIsSingle, Memoized
<1>11. ResolverTypes'
  <2>1. failures' \in 0 .. MaxFailures
    BY <1>2
  <2> QED BY <1>0, <1>1, <1>7, <1>9, <2>1, QuietTypes
<1> QED BY <1>7, <1>8, <1>10, <1>11 DEF ResolverInv

LEMMA AwaitKeepsIt == ASSUME ResolverInv, NEW w \in Workers, Await(w) PROVE ResolverInv'
<1> PICK id : id = worker[w].id
  OBVIOUS
<1>1. /\ pc = "prepare" /\ worker[w].at = "await" /\ prep[id].kind \in {"package", "failure"} /\ Deliver(w, prep[id])
      /\ UNCHANGED <<manifest, lock, groups, next, offered, memo, flow>>
  BY DEF Await, At
<1>2. Candidates(Group(w)) # {} /\ id = Selected(Group(w)) /\ Group(w)[1] \in Names
  BY <1>1, GroupIsKnown DEF ResolverInv, AtWork
<1>3. id \in Ids
  BY <1>2, SelectedIs
<1>4. prep[id] \in AnyResult /\ (prep[id].kind = "package" => prep[id].id = id)
  BY <1>3 DEF ResolverInv, ResolverTypes, FlightIsSingle
<1>5. Answers(Group(w), prep[id])
  <2> HIDE DEF Candidates, Selected
  <2> QED BY <1>1, <1>2, <1>4 DEF Answers
<1> HIDE DEF Deliver, Answers
<1> QED BY <1>1, <1>4, <1>5, DeliveryKeepsIt

(* The submitter looks again, and a worker takes the group.                        *)
LEMMA OfferKeepsIt == ASSUME ResolverInv, Offer PROVE ResolverInv'
<1>1. /\ pc = "prepare" /\ next <= Len(groups) /\ offered' = TRUE
      /\ UNCHANGED <<manifest, lock, groups, next, stopped, worker, results, memo, flow>>
  BY DEF Offer
<1>2. NeedsAreServed' /\ AsksAreServed' /\ EdgesAreInside' /\ IsPruned'
  BY <1>1, QuietKeeps
<1>3. Grouped' /\ Settled' /\ FlightIsSingle'
  BY <1>1 DEF ResolverInv, Grouped, AllGroups, Settled, FlightIsSingle, Memoized, flow, memo, Lists
<1>4. AtWork'
  <2>1. \A g : Fails(g)' = Fails(g)
    BY <1>1 DEF Fails, HasRequired, Requests, flow
  <2>2. \A v \in Workers : Busy(v)' = Busy(v) /\ Group(v)' = Group(v)
    BY <1>1 DEF Busy, Group
  <2>3. \A v \in Workers : Candidates(Group(v))' = Candidates(Group(v)) /\ Selected(Group(v))' = Selected(Group(v))
    BY <1>1 DEF Candidates, Selected, Group
  <2> HIDE DEF Busy, Group, Fails, Candidates, Selected
  <2> QED BY <1>1, <2>1, <2>2, <2>3 DEF ResolverInv, AtWork, flow
<1>5. ResolverTypes'
  <2>1. /\ next' \in Nat \ {0} /\ offered' \in BOOLEAN /\ stopped' \in BOOLEAN
        /\ meta' \in [Names -> {"none", "pending", "ready", "failed"}]
        /\ prep' \in [Ids -> AnyResult] /\ asked' \in [Ids -> Nat] /\ failures' \in 0 .. MaxFailures
        /\ worker' \in [Workers -> [at : WorkerAt, group : Int \X Int, id : Ids \cup {NoId}]]
    BY <1>1 DEF ResolverInv, ResolverTypes, memo
  <2> QED BY <1>1, <2>1, QuietTypes
<1> QED BY <1>2, <1>3, <1>4, <1>5 DEF ResolverInv

LEMMA TakeKeepsIt == ASSUME ResolverInv, NEW w \in Workers, Take(w) PROVE ResolverInv'
<1>0. /\ worker \in [Workers -> [at : WorkerAt, group : Int \X Int, id : Ids \cup {NoId}]]
      /\ next \in Nat \ {0} /\ Items(frontier)
      /\ Lists(groups, AllGroups) /\ (\A g \in DOMAIN results : Answers(g, results[g]) /\ g \in AllGroups)
      /\ next <= Len(groups)
  BY DEF ResolverInv, ResolverTypes, Grouped, AtWork, Take
<1>g. PICK g0 : g0 = groups[next]
  OBVIOUS
<1>1. /\ pc = "prepare" /\ offered /\ worker[w].at = "idle" /\ offered' = FALSE /\ next' = next + 1
      /\ worker' = [worker EXCEPT ![w] = [at |-> "metadata", group |-> g0, id |-> NoId]]
      /\ UNCHANGED <<manifest, lock, groups, stopped, results, memo, flow>>
  BY <1>g DEF Take, Idle, NoId, Moves
<1>2. g0 \in AllGroups /\ next \in DOMAIN groups /\ DOMAIN groups = 1 .. Len(groups) /\ Len(groups) \in Nat
  BY <1>0, <1>g DEF Lists
<1>3. g0 \in Int \X Int
  BY <1>0, <1>2, ResolverAssumption DEF AllGroups, GroupOf, Items, IsItem
<1>4. /\ \A v \in Workers : v # w => worker'[v] = worker[v]
      /\ worker'[w].at = "metadata" /\ worker'[w].group = g0
      /\ worker' \in [Workers -> [at : WorkerAt, group : Int \X Int, id : Ids \cup {NoId}]]
  BY <1>0, <1>1, <1>3 DEF WorkerAt
<1>5. /\ \A v \in Workers : v # w => Busy(v)' = Busy(v) /\ Group(v)' = Group(v)
      /\ ~Busy(w) /\ Busy(w)' /\ Group(w)' = g0
  BY <1>1, <1>4 DEF Busy, Group
<1>6. NeedsAreServed' /\ AsksAreServed' /\ EdgesAreInside' /\ IsPruned'
  BY <1>1, QuietKeeps
<1>7. Grouped' /\ Settled' /\ FlightIsSingle'
  BY <1>1 DEF ResolverInv, Grouped, AllGroups, Settled, FlightIsSingle, Memoized, flow, memo, Lists
<1>8. AtWork'
  <2>0. /\ \A v \in Workers : Busy(v) =>
             Group(v) \notin DOMAIN results /\ \E k \in DOMAIN groups : k < next /\ groups[k] = Group(v)
        /\ \A v, u \in Workers : Busy(v) /\ Busy(u) /\ Group(v) = Group(u) => v = u
        /\ \A v \in Workers : worker[v].at \in {"fetchArtifact", "await"} =>
             Candidates(Group(v)) # {} /\ worker[v].id = Selected(Group(v))
        /\ \A g \in DOMAIN results : \E k \in DOMAIN groups : k < next /\ groups[k] = g
        /\ \A k \in DOMAIN groups : k < next =>
             groups[k] \in DOMAIN results \/ \E v \in Workers : Busy(v) /\ Group(v) = groups[k]
        /\ stopped => \E g \in DOMAIN results : Fails(g)
    BY <1>1 DEF ResolverInv, AtWork
  <2>1. \A k \in DOMAIN groups : k < next => groups[k] # g0
    BY <1>0, <1>2, <1>g DEF Lists
  <2>2. g0 \notin DOMAIN results /\ \A v \in Workers : Busy(v) => Group(v) # g0
    BY <2>0, <2>1
  <2>3. groups' = groups /\ results' = results /\ stopped' = stopped /\ ~offered' /\ next' <= Len(groups) + 1
    BY <1>0, <1>1, <1>2
  <2>4. \A g : Fails(g)' = Fails(g)
    BY <1>1 DEF Fails, HasRequired, Requests, flow
  <2>a. \A v \in Workers : Busy(v)' =>
             Group(v)' \notin DOMAIN results /\ \E k \in DOMAIN groups : k < next' /\ groups[k] = Group(v)'
    <3> SUFFICES ASSUME NEW v \in Workers, Busy(v)'
                 PROVE  Group(v)' \notin DOMAIN results /\ \E k \in DOMAIN groups : k < next' /\ groups[k] = Group(v)'
      OBVIOUS
    <3>1. CASE v = w
      BY <1>0, <1>1, <1>2, <1>5, <1>g, <2>2, <3>1
    <3>2. CASE v # w
      <4>1. PICK k \in DOMAIN groups : k < next /\ groups[k] = Group(v)
        BY <1>5, <2>0, <3>2
      <4> QED BY <1>0, <1>1, <1>2, <1>5, <2>0, <3>2, <4>1
    <3> QED BY <3>1, <3>2
  <2>b. \A v, u \in Workers : Busy(v)' /\ Busy(u)' /\ Group(v)' = Group(u)' => v = u
    BY <1>5, <2>0, <2>2
  <2>c. \A v \in Workers : worker'[v].at \in {"fetchArtifact", "await"} =>
             Candidates(Group(v))' # {} /\ worker'[v].id = Selected(Group(v))'
    <3> SUFFICES ASSUME NEW v \in Workers, worker'[v].at \in {"fetchArtifact", "await"}
                 PROVE  Candidates(Group(v))' # {} /\ worker'[v].id = Selected(Group(v))'
      OBVIOUS
    <3>1. worker'[v] = worker[v]
      BY <1>4
    <3>2. PICK g : g = Group(v)
      OBVIOUS
    <3>3. Candidates(g) # {} /\ worker[v].id = Selected(g) /\ Group(v)' = g
      BY <2>0, <3>1, <3>2 DEF Group
    <3>4. Candidates(Group(v)') # {} /\ worker'[v].id = Selected(Group(v)')
      BY <3>1, <3>3
    <3> QED BY <3>4 DEF Candidates, Selected
  <2>d. \A g \in DOMAIN results : \E k \in DOMAIN groups : k < next' /\ groups[k] = g
    <3> SUFFICES ASSUME NEW g \in DOMAIN results PROVE \E k \in DOMAIN groups : k < next' /\ groups[k] = g
      OBVIOUS
    <3>1. PICK k \in DOMAIN groups : k < next /\ groups[k] = g
      BY <2>0
    <3> QED BY <1>0, <1>1, <1>2, <3>1
  <2>e. \A k \in DOMAIN groups : k < next' =>
             groups[k] \in DOMAIN results \/ \E v \in Workers : Busy(v)' /\ Group(v)' = groups[k]
    <3> SUFFICES ASSUME NEW k \in DOMAIN groups, k < next', groups[k] \notin DOMAIN results
                 PROVE  \E v \in Workers : Busy(v)' /\ Group(v)' = groups[k]
      OBVIOUS
    <3>1. CASE k = next
      BY <1>5, <1>g, <3>1
    <3>2. CASE k # next
      <4>1. k < next
        BY <1>0, <1>1, <1>2, <3>2
      <4>2. PICK v \in Workers : Busy(v) /\ Group(v) = groups[k]
        BY <2>0, <4>1
      <4> QED BY <1>5, <4>2
    <3> QED BY <3>1, <3>2
  <2> HIDE DEF Busy, Group, Fails, Candidates, Selected
  <2> QED BY <2>0, <2>3, <2>4, <2>a, <2>b, <2>c, <2>d, <2>e DEF AtWork
<1>9. ResolverTypes'
  <2>1. next' \in Nat \ {0} /\ offered' \in BOOLEAN
    <3>1. next' = next + 1 /\ offered' = FALSE
      BY <1>1
    <3>2. next \in Nat \ {0}
      BY <1>0
    <3>3. next' \in Nat \ {0}
      BY <3>1, <3>2
    <3>4. offered' \in BOOLEAN
      BY <3>1
    <3> QED BY <3>3, <3>4
  <2>2. /\ stopped' \in BOOLEAN /\ meta' \in [Names -> {"none", "pending", "ready", "failed"}]
        /\ prep' \in [Ids -> AnyResult] /\ asked' \in [Ids -> Nat] /\ failures' \in 0 .. MaxFailures
    BY <1>1 DEF ResolverInv, ResolverTypes, memo
  <2> QED BY <1>1, <1>4, <2>1, <2>2, QuietTypes
<1> QED BY <1>6, <1>7, <1>8, <1>9 DEF ResolverInv

LEMMA WorkersKeepIt == ASSUME ResolverInv, NEW w \in Workers, Work(w) PROVE ResolverInv'
BY TakeKeepsIt, LookupMetadataKeepsIt, MetadataArrivesKeepsIt, MetadataFailsKeepsIt, NoVersionKeepsIt,
   AlreadySeenKeepsIt, LookupPackageKeepsIt, ArtifactArrivesKeepsIt, AwaitKeepsIt DEF Work

-----------------------------------------------------------------------------
(* The steps of the coordinator.                                               *)
LEMMA CoordinatorFrame ==
  ASSUME ResolverInv, pc # "prepare", UNCHANGED <<worker, memo>>, pc' \notin {"prepare", "commit"}
  PROVE  FlightIsSingle' /\ Grouped' /\ AtWork' /\ Settled'
<1>1. FlightIsSingle'
  BY DEF ResolverInv, FlightIsSingle, Memoized, memo
<1>2. Settled'
  BY DEF ResolverInv, Settled, Busy
<1> QED BY <1>1, <1>2 DEF Grouped, AtWork

LEMMA TypesStay ==
  ASSUME ResolverInv, UNCHANGED <<manifest, worker, memo>>, packages' \subseteq Ids, recorded' \subseteq Ids,
         edges' \in Seq(ToSet(edges')), FactsAre(facts)', next' \in Nat \ {0}, stopped' \in BOOLEAN, offered' \in BOOLEAN,
         pc' \in {"enqueue", "frontier", "prepare", "commit", "peers", "reconcile", "prune", "recompute", "finalize", "done"},
         pc' \in {"enqueue", "frontier", "prepare", "commit"} => Items(frontier)',
         pc' = "commit" => Items(committing)'
  PROVE  ResolverTypes'
<1>1. /\ manifest' \in Manifests
      /\ worker' \in [Workers -> [at : WorkerAt, group : Int \X Int, id : Ids \cup {NoId}]]
      /\ meta' \in [Names -> {"none", "pending", "ready", "failed"}]
      /\ prep' \in [Ids -> AnyResult] /\ asked' \in [Ids -> Nat] /\ failures' \in 0 .. MaxFailures
  BY DEF ResolverInv, ResolverTypes, memo
<1> QED BY <1>1 DEF ResolverTypes

(* Where the frontiers end: only an error makes it forget what the roots need.        *)
LEMMA FrontiersEnd ==
  ASSUME ResolverInv, pc \in {"frontier", "commit"}, NEW broken \in BOOLEAN, EndOfFrontiers(broken),
         broken => Errors' # {}, UNCHANGED <<manifest, packages, edges, recorded, worker, memo, stopped, offered>>,
         next' \in Nat \ {0}, Escaped => Errors' # {}, Longer,
         Errors' # {} \/ \A r : Duty(r) => ~Pending(r)
  PROVE  ResolverInv'
<1>1. pc' \in {"finalize", "peers", "reconcile"} /\ (pc' = "finalize" => Errors' # {})
  BY DEF EndOfFrontiers, Errors
<1>2. FactsAre(facts) /\ packages' \subseteq Ids /\ recorded' \subseteq Ids /\ edges' \in Seq(ToSet(edges'))
      /\ stopped' \in BOOLEAN /\ offered' \in BOOLEAN
  BY DEF ResolverInv, ResolverTypes
<1>3. ResolverTypes'
  BY <1>1, <1>2, FactsStay, TypesStay
<1>4. FlightIsSingle' /\ Grouped' /\ AtWork' /\ Settled'
  BY <1>1, CoordinatorFrame
<1>5. NeedsAreServed' /\ AsksAreServed'
  <2>1. Errors' # {} => Escaped'
    BY DEF Escaped
  <2>2. \A r : Served(r) => Served(r)'
    BY DEF Served, Leads
  <2>3. packages' \ packages = {}
    OBVIOUS
  <2>4. ASSUME ~Escaped'
        PROVE  \A r : Duty(r) /\ (Served(r) \/ Pending(r)) => Served(r)' \/ Pending(r)'
    BY <2>1, <2>2, <2>4
  <2> HIDE DEF Escaped
  <2> QED BY <1>1, <1>2, <2>1, <2>3, <2>4, DutiesStay
<1>6. EdgesAreInside' /\ IsPruned'
  BY <1>1 DEF ResolverInv, EdgesAreInside, IsPruned
<1> QED BY <1>3, <1>4, <1>5, <1>6 DEF ResolverInv

LEMMA RefuseFrontierKeepsIt == ASSUME ResolverInv, RefuseFrontier PROVE ResolverInv'
<1>1. /\ pc = "frontier" /\ EndOfFrontiers(TRUE) /\ facts' = facts
      /\ UNCHANGED <<manifest, packages, edges, recorded, worker, memo, stopped, offered, next>>
  BY DEF RefuseFrontier, pool
<1>2. PICK r : diags' = diags \cup {Diagnostic("SOURCE_POLICY_DENIED", FALSE, r.name)}
  BY DEF RefuseFrontier
<1>3. Errors' # {}
  <2>1. Diagnostic("SOURCE_POLICY_DENIED", FALSE, r.name).severity = "error"
    BY DEF Diagnostic
  <2> QED BY <1>2, <2>1 DEF Errors
<1>4. next' \in Nat \ {0} /\ Longer
  BY <1>1 DEF ResolverInv, ResolverTypes, Longer
<1> QED BY <1>1, <1>3, <1>4, FrontiersEnd

LEMMA LeaveFrontiersKeepsIt == ASSUME ResolverInv, LeaveFrontiers PROVE ResolverInv'
<1>1. /\ pc = "frontier" /\ frontier = {} /\ EndOfFrontiers(FALSE) /\ facts' = facts /\ diags' = diags
      /\ UNCHANGED <<manifest, packages, edges, recorded, worker, memo, stopped, offered, next>>
  BY DEF LeaveFrontiers, pool
<1>2. next' \in Nat \ {0} /\ Longer
  BY <1>1 DEF ResolverInv, ResolverTypes, Longer
<1>3. (Escaped => Errors' # {}) /\ \A r : ~Pending(r)
  BY <1>1 DEF Escaped, Errors, Pending
<1> QED BY <1>1, <1>2, <1>3, FrontiersEnd

LEMMA EndCommitKeepsIt == ASSUME ResolverInv, EndCommit PROVE ResolverInv'
<1>1. /\ pc = "commit" /\ next > Len(groups) /\ frontier' = committing /\ facts' = facts /\ diags' = diags
      /\ UNCHANGED <<manifest, packages, edges, recorded, worker, memo, stopped, offered, next>>
      /\ IF fatal THEN EndOfFrontiers(TRUE) ELSE pc' = "frontier"
  BY DEF EndCommit, pool
<1>2. next \in Nat \ {0} /\ DOMAIN groups = 1 .. Len(groups) /\ Len(groups) \in Nat
  BY <1>1 DEF ResolverInv, ResolverTypes, Grouped, Lists
<1>3. next' \in Nat \ {0} /\ Longer /\ Errors' = Errors
  BY <1>1, <1>2 DEF Longer, Errors
<1>4. ~WillFail /\ (Escaped => Errors # {}) /\ \A r : Pending(r) => r \in committing
  <2>1. \A k \in DOMAIN groups : ~(k >= next)
    BY <1>1, <1>2
  <2> QED BY <1>1, <2>1 DEF WillFail, Escaped, Pending
<1>5. fatal => Errors # {}
  BY <1>1 DEF ResolverInv, Settled
<1>6. CASE fatal
  <2>1. EndOfFrontiers(TRUE) /\ Errors' # {}
    BY <1>1, <1>3, <1>5, <1>6
  <2> QED BY <1>1, <1>3, <2>1, FrontiersEnd
<1>7. CASE ~fatal
  <2>1. pc' = "frontier"
    BY <1>1, <1>7
  <2>2. FlightIsSingle' /\ Grouped' /\ AtWork' /\ Settled'
    BY <1>1, <2>1, CoordinatorFrame
  <2>3. Items(frontier)'
    <3>1. Items(committing)
      BY <1>1 DEF ResolverInv, ResolverTypes
    <3> QED BY <1>1, <3>1 DEF Items, IsItem
  <2>4. ResolverTypes'
    <3>1. FactsAre(facts)' /\ packages' \subseteq Ids /\ recorded' \subseteq Ids /\ edges' \in Seq(ToSet(edges'))
          /\ stopped' \in BOOLEAN /\ offered' \in BOOLEAN
      BY <1>1 DEF ResolverInv, ResolverTypes, FactsAre
    <3> QED BY <1>1, <1>3, <2>1, <2>3, <3>1, TypesStay
  <2>5. NeedsAreServed' /\ AsksAreServed'
    <3>1. \A r : (Served(r) => Served(r)') /\ (Pending(r) => Pending(r)')
      BY <1>1, <1>4, <2>1 DEF Served, Leads, Pending
    <3>2. Escaped => Escaped'
      BY <1>3, <1>4 DEF Escaped
    <3>3. packages' \subseteq Ids /\ packages' \ packages = {}
      BY <1>1 DEF ResolverInv, ResolverTypes
    <3> QED BY <1>1, <1>3, <2>1, <3>1, <3>2, <3>3, DutiesStay
  <2>6. EdgesAreInside' /\ IsPruned'
    BY <1>1, <2>1 DEF ResolverInv, EdgesAreInside, IsPruned
  <2> QED BY <2>2, <2>4, <2>5, <2>6 DEF ResolverInv
<1> QED BY <1>6, <1>7

(* The steps that leave the frontiers behind.                                    *)
LEMMA AfterFrontiers ==
  ASSUME ResolverInv, pc \notin {"enqueue", "frontier", "prepare", "commit"},
         pc' \in {"frontier", "reconcile", "prune", "recompute", "finalize", "done"},
         UNCHANGED <<manifest, facts, recorded, worker, memo, stopped, offered, next>>,
         packages' \subseteq packages, edges' \in Seq(ToSet(edges')), Errors \subseteq Errors',
         pc' = "frontier" => Items(frontier)',
         \A r : Duty(r) /\ (r.from[1] = "pkg" => r.from \in packages') /\ Served(r) => Served(r)',
         EdgesAreInside', IsPruned'
  PROVE  ResolverInv'
<1>1. FlightIsSingle' /\ Grouped' /\ AtWork' /\ Settled'
  BY CoordinatorFrame
<1>2. ResolverTypes'
  <2>1. FactsAre(facts)' /\ packages' \subseteq Ids /\ recorded' \subseteq Ids
        /\ stopped' \in BOOLEAN /\ offered' \in BOOLEAN /\ next' \in Nat \ {0}
    BY DEF ResolverInv, ResolverTypes, FactsAre
  <2> QED BY <2>1, TypesStay
<1>3. NeedsAreServed' /\ AsksAreServed'
  <2>1. \A r : ~Pending(r)
    BY DEF Pending
  <2>2. Escaped => Escaped'
    BY DEF Escaped
  <2>3. packages' \subseteq Ids /\ packages' \ packages = {} /\ Longer
    BY DEF ResolverInv, ResolverTypes, Longer
  <2> QED BY <2>1, <2>2, <2>3, DutiesStay
<1> QED BY <1>1, <1>2, <1>3 DEF ResolverInv

LEMMA ResolvePeersKeepsIt == ASSUME ResolverInv, ResolvePeers PROVE ResolverInv'
<1>1. /\ pc = "peers" /\ pc' = "frontier" /\ frontier' = Wanted
      /\ UNCHANGED <<manifest, packages, edges, facts, recorded, diags, worker, memo, stopped, offered, next>>
  BY DEF ResolvePeers, lock, pool
<1>2. edges' \in Seq(ToSet(edges')) /\ EdgesAreInside' /\ IsPruned' /\ Errors' = Errors /\ \A r : Served(r) => Served(r)'
  BY <1>1 DEF ResolverInv, ResolverTypes, EdgesAreInside, IsPruned, Errors, Served, Leads
<1>3. Items(frontier)'
  <2> DEFINE I == {j \in Controllers(facts) : Unprovided(j)}
             f == [i \in I |-> PeerItem(facts[i])]
  <2>1. I \subseteq DOMAIN facts /\ IsFiniteSet(DOMAIN facts) /\ FactsAre(facts)
    <3>1. FactsAre(facts)
      BY DEF ResolverInv, ResolverTypes
    <3>2. IsFiniteSet(DOMAIN facts)
      BY <3>1, SequenceIsFinite DEF FactsAre
    <3> QED BY <3>1, <3>2 DEF Controllers
  <2>2. IsFiniteSet(I)
    <3> HIDE DEF I
    <3> QED BY <2>1, FS_Subset
  <2>3. IsFiniteSet({f[x] : x \in DOMAIN f})
    <3>1. DOMAIN f = I
      OBVIOUS
    <3> HIDE DEF f, I
    <3> QED BY <2>2, <3>1, ImageIsFinite
  <2>4. Wanted = {f[x] : x \in DOMAIN f}
    BY DEF Wanted
  <2>5. ASSUME NEW i \in I
        PROVE  /\ f[i] = [name |-> f[i].name, range |-> f[i].range, ref |-> f[i].ref, from |-> f[i].from, edge |-> f[i].edge,
                          optional |-> f[i].optional, slot |-> f[i].slot]
               /\ f[i].name \in Names /\ f[i].range \in Int /\ f[i].optional \in BOOLEAN /\ f[i].from[1] # "pkg"
    <3>1. facts[i].name \in Names /\ facts[i].range \in Int
      BY <2>1 DEF FactsAre
    <3>2. f[i] = PeerItem(facts[i])
      OBVIOUS
    <3> HIDE DEF f, I
    <3> QED BY <3>1, <3>2 DEF PeerItem
  <2>6. IsFiniteSet(frontier') /\ \A r \in frontier' : \E i \in I : r = f[i]
    BY <1>1, <2>3, <2>4
  <2> HIDE DEF f, I
  <2>7. \A r \in frontier' : IsItem(r)'
    BY <2>5, <2>6 DEF IsItem
  <2> QED BY <2>6, <2>7 DEF Items
<1> QED BY <1>1, <1>2, <1>3, AfterFrontiers

LEMMA PeersSettledKeepsIt == ASSUME ResolverInv, PeersSettled PROVE ResolverInv'
<1>1. /\ pc = "peers" /\ pc' = "reconcile"
      /\ UNCHANGED <<manifest, packages, edges, facts, recorded, diags, worker, memo, stopped, offered, next>>
  BY DEF PeersSettled, lock, pool
<1>2. edges' \in Seq(ToSet(edges')) /\ EdgesAreInside' /\ IsPruned' /\ Errors' = Errors /\ \A r : Served(r) => Served(r)'
  BY <1>1 DEF ResolverInv, ResolverTypes, EdgesAreInside, IsPruned, Errors, Served, Leads
<1> QED BY <1>1, <1>2, AfterFrontiers

LEMMA ReconcileKeepsIt == ASSUME ResolverInv, Reconcile PROVE ResolverInv'
<1>1. /\ pc = "reconcile" /\ pc' = "prune"
      /\ edges' = Only(edges, {e \in ToSet(edges) : StillWanted(e)})
      /\ UNCHANGED <<manifest, packages, facts, recorded, diags, worker, memo, stopped, offered, next>>
  BY DEF Reconcile, pool
<1>2. edges \in Seq(ToSet(edges))
  BY DEF ResolverInv, ResolverTypes
<1>3. edges' \in Seq(ToSet(edges)) /\ ToSet(edges') = ToSet(edges) \cap {e \in ToSet(edges) : StillWanted(e)}
  BY <1>1, <1>2, OnlyKeeps
<1>4. edges' \in Seq(ToSet(edges'))
  BY <1>3, SequenceIsFinite
<1>5. /\ \A e \in ToSet(edges') : e \in ToSet(edges)
      /\ \A e \in ToSet(edges) : e.from[1] # "peer" => e \in ToSet(edges')
  BY <1>3 DEF StillWanted
<1>6. ASSUME NEW r, Duty(r), Served(r) PROVE Served(r)'
  <2>1. PICK e \in ToSet(edges) : e.from = r.from /\ Leads(e, r)
    BY <1>6 DEF Served
  <2>2. e \in ToSet(edges')
    BY <1>5, <1>6, <2>1 DEF Duty
  <2>3. Leads(e, r)'
    BY <1>1, <2>1 DEF Leads
  <2> QED BY <2>1, <2>2, <2>3 DEF Served
<1>7. EdgesAreInside' /\ IsPruned' /\ Errors' = Errors
  BY <1>1, <1>5 DEF ResolverInv, EdgesAreInside, IsPruned, Errors
<1> QED BY <1>1, <1>4, <1>6, <1>7, AfterFrontiers

LEMMA PruneKeepsIt == ASSUME ResolverInv, Prune PROVE ResolverInv'
<1>1. /\ pc = "prune" /\ pc' = "recompute"
      /\ packages' = Reachable(edges, packages)
      /\ edges' = Pruned(edges, packages, packages')
      /\ UNCHANGED <<manifest, facts, recorded, diags, worker, memo, stopped, offered, next>>
  BY DEF Prune, pool
<1>2. edges \in Seq(ToSet(edges)) /\ packages \subseteq Ids
  BY DEF ResolverInv, ResolverTypes
<1> PICK R, kept : R = packages' /\ kept = edges'
  OBVIOUS
<1>3. R = Reachable(edges, packages) /\ kept = Pruned(edges, packages, R)
  BY <1>1
<1>4. /\ kept \in Seq(ToSet(edges)) /\ R \subseteq packages /\ Reachable(kept, R) = R
      /\ \A e : e \in ToSet(kept) <=> e \in ToSet(edges) /\ e.to \in R /\ (e.from \in packages => e.from \in R)
  BY <1>2, <1>3, PrunedIsReachable
<1>5. ClosedUnder(edges, packages, R)
  BY <1>3, ReachableIs
<1>6. kept \in Seq(ToSet(kept))
  BY <1>4, SequenceIsFinite
<1>7. ASSUME NEW r, Duty(r), r.from[1] = "pkg" => r.from \in R, Served(r) PROVE Served(r)'
  <2>1. PICK e \in ToSet(edges) : e.from = r.from /\ Leads(e, r)
    BY <1>7 DEF Served
  <2>2. PICK i \in DOMAIN edges : edges[i] = e
    BY <2>1 DEF ToSet
  <2>3. e.from \in packages => e.from \in R
    BY <1>2, <1>7, <2>1 DEF Ids
  <2>4. e.to \in packages
    BY <2>1 DEF Leads
  <2>5. e.to \in R
    BY <1>5, <2>2, <2>3, <2>4 DEF ClosedUnder
  <2>6. e \in ToSet(edges')
    BY <1>4, <2>1, <2>3, <2>5
  <2>7. Leads(e, r)'
    BY <2>1, <2>5 DEF Leads
  <2> QED BY <2>1, <2>6, <2>7 DEF Served
<1>8. EdgesAreInside'
  <2> SUFFICES ASSUME NEW e \in ToSet(kept) PROVE e.to \in R /\ (e.from[1] = "pkg" => e.from \in R)
    BY DEF EdgesAreInside
  <2>1. e \in ToSet(edges) /\ e.to \in R /\ (e.from \in packages => e.from \in R)
    BY <1>4
  <2> QED BY <2>1 DEF ResolverInv, EdgesAreInside
<1>9. IsPruned' /\ Errors' = Errors
  <2>1. packages' = Reachable(edges', packages')
    BY <1>4
  <2>2. Reachable(edges', packages') = Reachable(edges, packages)'
    BY DEF Reachable, ClosedUnder
  <2> QED BY <1>1, <2>1, <2>2 DEF IsPruned, Errors
<1> QED BY <1>1, <1>4, <1>6, <1>7, <1>8, <1>9, AfterFrontiers

LEMMA RecomputeKeepsIt == ASSUME ResolverInv, Recompute PROVE ResolverInv'
<1>1. /\ pc = "recompute" /\ pc' = "finalize"
      /\ UNCHANGED <<manifest, packages, edges, facts, recorded, diags, worker, memo, stopped, offered, next>>
  BY DEF Recompute, pool
<1>2. edges' \in Seq(ToSet(edges')) /\ EdgesAreInside' /\ Errors' = Errors /\ \A r : Served(r) => Served(r)'
  BY <1>1 DEF ResolverInv, ResolverTypes, EdgesAreInside, Errors, Served, Leads
<1>3. IsPruned'
  BY <1>1, <1>2 DEF ResolverInv, IsPruned, Reachable, ClosedUnder
<1> QED BY <1>1, <1>2, <1>3, AfterFrontiers

LEMMA FinalizeKeepsIt == ASSUME ResolverInv, Finalize PROVE ResolverInv'
<1>1. /\ pc = "finalize" /\ pc' = "done" /\ diags \subseteq diags'
      /\ UNCHANGED <<manifest, packages, edges, facts, recorded, worker, memo, stopped, offered, next>>
  BY DEF Finalize, pool
<1>2. edges' \in Seq(ToSet(edges')) /\ EdgesAreInside' /\ Errors \subseteq Errors' /\ \A r : Served(r) => Served(r)'
  BY <1>1 DEF ResolverInv, ResolverTypes, EdgesAreInside, Errors, Served, Leads
<1>3. IsPruned'
  BY <1>1, <1>2 DEF ResolverInv, IsPruned, Reachable, ClosedUnder
<1> QED BY <1>1, <1>2, <1>3, AfterFrontiers

LEMMA GroupsArePairs == ASSUME ResolverInv, Items(frontier) PROVE AllGroups \subseteq Names \X Int /\ IsFiniteSet(AllGroups)
<1> DEFINE f == [r \in frontier |-> GroupOf(r)]
<1>1. AllGroups = {f[x] : x \in DOMAIN f}
  BY DEF AllGroups
<1>2. IsFiniteSet({f[x] : x \in DOMAIN f})
  <2>1. IsFiniteSet(DOMAIN f)
    BY DEF Items
  <2> HIDE DEF f
  <2> QED BY <2>1, ImageIsFinite
<1>3. \A r \in frontier : GroupOf(r) \in Names \X Int
  BY DEF GroupOf, Items, IsItem
<1> QED BY <1>1, <1>2, <1>3 DEF AllGroups

LEMMA PrepareGroupsKeepsIt == ASSUME ResolverInv, PrepareGroups PROVE ResolverInv'
<1>1. /\ pc = "frontier" /\ pc' = "prepare" /\ groups' = InOrder(AllGroups)
      /\ next' = 1 /\ stopped' = FALSE /\ offered' = FALSE /\ DOMAIN results' = {}
      /\ UNCHANGED <<manifest, packages, edges, facts, recorded, diags, worker, memo, frontier, committing>>
  BY DEF PrepareGroups, lock, Groups, AllGroups
<1>2. Items(frontier)
  BY <1>1 DEF ResolverInv, ResolverTypes
<1>3. AllGroups \subseteq Int \X Int /\ IsFiniteSet(AllGroups)
  BY <1>2, GroupsArePairs, ResolverAssumption
<1>4. Lists(groups', AllGroups) /\ AllGroups' = AllGroups
  BY <1>1, <1>3, InOrderLists DEF AllGroups
<1>5. Grouped'
  BY <1>1, <1>4 DEF Grouped, Lists
<1>6. \A w \in Workers : ~Busy(w) /\ ~Busy(w)' /\ worker'[w].at = "idle"
  BY <1>1 DEF ResolverInv, Settled, Busy
<1>7. AtWork'
  <2>1. Len(groups') \in Nat /\ DOMAIN groups' = 1 .. Len(groups')
    BY <1>4 DEF Lists
  <2> QED BY <1>1, <1>6, <2>1 DEF AtWork, Busy
<1>8. Settled' /\ FlightIsSingle' /\ EdgesAreInside' /\ IsPruned'
  BY <1>1 DEF ResolverInv, Settled, FlightIsSingle, Memoized, memo, EdgesAreInside, IsPruned
<1>9. NeedsAreServed' /\ AsksAreServed'
  <2>1. \A r : (Served(r) => Served(r)') /\ (Pending(r) => Pending(r)')
    BY <1>1 DEF Served, Leads, Pending
  <2>2. (Escaped => Escaped') /\ packages' \subseteq Ids /\ packages' \ packages = {} /\ Longer
    BY <1>1 DEF Escaped, Errors, ResolverInv, ResolverTypes, Longer
  <2> QED BY <1>1, <2>1, <2>2, DutiesStay
<1>10. ResolverTypes'
  <2>1. packages' \subseteq Ids /\ recorded' \subseteq Ids /\ edges' \in Seq(ToSet(edges')) /\ FactsAre(facts)'
    BY <1>1 DEF ResolverInv, ResolverTypes, FactsAre
  <2>2. Items(frontier)'
    BY <1>1, <1>2 DEF Items, IsItem
  <2>3. next' \in Nat \ {0} /\ stopped' \in BOOLEAN /\ offered' \in BOOLEAN
    <3>1. next' \in Nat \ {0}
      BY <1>1
    <3>2. stopped' \in BOOLEAN /\ offered' \in BOOLEAN
      BY <1>1, Zenon
    <3> QED BY <3>1, <3>2
  <2>4. pc' = "prepare" /\ UNCHANGED <<manifest, worker, memo>>
    BY <1>1
  <2> QED BY <2>1, <2>2, <2>3, <2>4, TypesStay
<1> QED BY <1>5, <1>7, <1>8, <1>9, <1>10 DEF ResolverInv

LEMMA BeginCommitKeepsIt == ASSUME ResolverInv, BeginCommit PROVE ResolverInv'
<1>1. /\ pc = "prepare" /\ AllHandedIn /\ pc' = "commit" /\ next' = 1 /\ committing' = {} /\ fatal' = FALSE
      /\ UNCHANGED <<manifest, packages, edges, facts, recorded, diags, groups, results, stopped, offered, worker, memo, frontier>>
  BY DEF BeginCommit, lock
<1>2. /\ Lists(groups, AllGroups) /\ DOMAIN groups = 1 .. Len(groups) /\ Len(groups) \in Nat /\ next \in Nat
  BY <1>1 DEF ResolverInv, ResolverTypes, Grouped, Lists
<1>3. \A w \in Workers : ~Busy(w)
  BY <1>1 DEF AllHandedIn, Busy
<1>4. AllGroups' = AllGroups /\ \A g : Fails(g)' = Fails(g)
  BY <1>1 DEF AllGroups, Fails, HasRequired, Requests
<1>5. Grouped'
  <2>1. \A g \in DOMAIN results : Answers(g, results[g]) /\ g \in AllGroups
    BY <1>1 DEF ResolverInv, Grouped
  <2> QED BY <1>1, <1>2, <1>4, <2>1 DEF Grouped, Answers, Lists
<1>6. Settled'
  <2>1. stopped => \E k \in DOMAIN groups : Fails(groups[k])
    <3> SUFFICES ASSUME stopped PROVE \E k \in DOMAIN groups : Fails(groups[k])
      OBVIOUS
    <3>1. PICK g \in DOMAIN results : Fails(g)
      BY <1>1 DEF ResolverInv, AtWork
    <3>2. PICK k \in DOMAIN groups : groups[k] = g
      BY <1>1 DEF ResolverInv, AtWork
    <3> QED BY <3>1, <3>2
  <2>2. ~stopped => \A k \in DOMAIN groups : groups[k] \in DOMAIN results
    <3> SUFFICES ASSUME ~stopped, NEW k \in DOMAIN groups PROVE groups[k] \in DOMAIN results
      OBVIOUS
    <3>1. k < next
      BY <1>1, <1>2 DEF AllHandedIn
    <3> QED BY <1>1, <1>3, <3>1 DEF ResolverInv, AtWork
  <2>3. stopped => WillFail'
    BY <1>1, <1>2, <1>4, <2>1 DEF WillFail
  <2>4. \A w \in Workers : ~Busy(w)'
    BY <1>1, <1>3 DEF Busy
  <2> QED BY <1>1, <2>2, <2>3, <2>4 DEF Settled, Escaped
<1>7. AtWork' /\ FlightIsSingle' /\ EdgesAreInside' /\ IsPruned'
  BY <1>1 DEF ResolverInv, AtWork, FlightIsSingle, Memoized, memo, EdgesAreInside, IsPruned
<1>8. NeedsAreServed' /\ AsksAreServed'
  <2>1. ASSUME NEW r, Pending(r) PROVE Pending(r)'
    <3>1. r \in frontier /\ GroupOf(r) \in AllGroups
      BY <1>1, <2>1 DEF Pending, AllGroups
    <3>2. PICK k \in DOMAIN groups : groups[k] = GroupOf(r)
      BY <1>2, <3>1 DEF Lists
    <3> QED BY <1>1, <1>2, <3>1, <3>2 DEF Pending
  <2>2. \A r : Served(r) => Served(r)'
    BY <1>1 DEF Served, Leads
  <2>3. (Escaped => Escaped') /\ packages' \subseteq Ids /\ packages' \ packages = {} /\ Longer
    BY <1>1 DEF Escaped, Errors, ResolverInv, ResolverTypes, Longer
  <2> QED BY <1>1, <2>1, <2>2, <2>3, DutiesStay
<1>9. ResolverTypes'
  <2>1. packages' \subseteq Ids /\ recorded' \subseteq Ids /\ edges' \in Seq(ToSet(edges')) /\ FactsAre(facts)'
        /\ stopped' \in BOOLEAN /\ offered' \in BOOLEAN
    BY <1>1 DEF ResolverInv, ResolverTypes, FactsAre
  <2>2. Items(frontier)
    BY <1>1 DEF ResolverInv, ResolverTypes
  <2>3. Items(frontier)' /\ Items(committing)'
    BY <1>1, <2>2, FS_EmptySet DEF Items, IsItem
  <2> QED BY <1>1, <2>1, <2>3, TypesStay
<1> QED BY <1>5, <1>6, <1>7, <1>8, <1>9 DEF ResolverInv

(* A turn of the commit.                                                        *)
LEMMA TurnsStay ==
  ASSUME ResolverInv, Committing, pc' = "commit", NextGroup, Longer,
         UNCHANGED <<manifest, groups, results, worker, memo, frontier, stopped, offered>>,
         packages \subseteq packages', packages' \subseteq Ids, recorded' \subseteq Ids,
         edges' \in Seq(ToSet(edges')), Items(committing)', EdgesAreInside',
         Escaped => Escaped', fatal' => Errors' # {},
         \/ Escaped'
         \/ /\ committing \subseteq committing' /\ Turn \in DOMAIN results
            /\ \A id \in packages' \ packages : \A i \in DOMAIN DepsOf(id) : Need(id, i) \in committing'
            /\ \A r : Duty(r) /\ Served(r) => Served(r)'
            /\ \A r \in Requests(Turn) : Duty(r) => Served(r)'
  PROVE  ResolverInv'
<1>1. pc = "commit" /\ next <= Len(groups) /\ next' = next + 1 /\ next \in Nat \ {0}
      /\ DOMAIN groups = 1 .. Len(groups) /\ Len(groups) \in Nat
  BY DEF ResolverInv, ResolverTypes, Grouped, Lists, Committing, NextGroup
<1>2. AllGroups' = AllGroups
  BY DEF AllGroups
<1>3. Grouped' /\ AtWork' /\ FlightIsSingle' /\ IsPruned'
  BY <1>1, <1>2 DEF ResolverInv, Grouped, AtWork, FlightIsSingle, Memoized, memo, IsPruned, Lists, Answers
<1>4. Settled'
  <2> HIDE DEF Escaped
  <2> QED BY <1>1 DEF ResolverInv, Settled, Busy
<1>5. NeedsAreServed' /\ AsksAreServed'
  <2>1. ASSUME ~Escaped', NEW r, Duty(r), Served(r) \/ Pending(r) PROVE Served(r)' \/ Pending(r)'
    <3>1. CASE Served(r)
      BY <2>1, <3>1
    <3>2. CASE r \in committing
      BY <2>1, <3>2 DEF Pending
    <3>3. CASE r \in frontier /\ \E k \in DOMAIN groups : k >= next /\ groups[k] = GroupOf(r)
      <4>1. PICK k \in DOMAIN groups : k >= next /\ groups[k] = GroupOf(r)
        BY <3>3
      <4>2. CASE k = next
        <5>1. r \in Requests(Turn)
          BY <3>3, <4>1, <4>2 DEF Requests, Turn
        <5> QED BY <2>1, <5>1
      <4>3. CASE k # next
        <5>1. k >= next'
          BY <1>1, <4>1, <4>3
        <5> QED BY <3>3, <4>1, <5>1 DEF Pending
      <4> QED BY <4>2, <4>3
    <3> QED BY <1>1, <2>1, <3>1, <3>2, <3>3 DEF Pending
  <2>2. ASSUME ~Escaped', NEW id \in packages' \ packages, NEW i \in DOMAIN DepsOf(id) PROVE Pending(Need(id, i))'
    <3>1. Need(id, i) \in committing'
      BY <2>2
    <3>2. Need(id, i)' = Need(id, i)
      BY DEF Need, DepsOf
    <3> QED BY <3>1, <3>2 DEF Pending
  <2> HIDE DEF Escaped
  <2> QED BY <1>1, <2>1, <2>2, DutiesStay
<1>6. ResolverTypes'
  <2>1. FactsAre(facts)
    BY DEF ResolverInv, ResolverTypes
  <2>2. FactsAre(facts)' /\ stopped' \in BOOLEAN /\ offered' \in BOOLEAN
    BY <2>1, FactsStay DEF ResolverInv, ResolverTypes
  <2>3. Items(frontier)
    BY <1>1 DEF ResolverInv, ResolverTypes
  <2>4. Items(frontier)'
    BY <2>3 DEF Items, IsItem
  <2> QED BY <1>1, <2>2, <2>4, TypesStay
<1> QED BY <1>3, <1>4, <1>5, <1>6 DEF ResolverInv

(* A failure of a later group is still ahead, or its turn makes it an error.           *)
LEMMA StillAhead ==
  ASSUME ResolverInv, Committing, pc' = "commit", NextGroup, UNCHANGED <<groups, results, frontier>>,
         Errors \subseteq Errors', Fails(Turn) => Errors' # {}, Escaped
  PROVE  Escaped'
<1>1. pc = "commit" /\ next' = next + 1 /\ next \in Nat \ {0} /\ DOMAIN groups = 1 .. Len(groups) /\ Len(groups) \in Nat
  BY DEF ResolverInv, ResolverTypes, Grouped, Lists, Committing, NextGroup
<1>2. CASE Errors # {}
  BY <1>2 DEF Escaped
<1>3. CASE WillFail
  <2>1. PICK k \in DOMAIN groups : k >= next /\ Fails(groups[k])
    BY <1>3 DEF WillFail
  <2>2. CASE k = next
    BY <2>1, <2>2 DEF Escaped, Turn
  <2>3. CASE k # next
    <3>1. k >= next' /\ Fails(groups[k])'
      BY <1>1, <2>1, <2>3 DEF Fails, HasRequired, Requests
    <3> QED BY <2>1, <3>1 DEF Escaped, WillFail
  <2> QED BY <2>2, <2>3
<1> QED BY <1>2, <1>3 DEF Escaped

LEMMA PassOverKeepsIt == ASSUME ResolverInv, PassOver PROVE ResolverInv'
<1>1. /\ Committing /\ NextGroup /\ Turn \notin DOMAIN results /\ pc' = "commit" /\ pc = "commit" /\ next <= Len(groups)
      /\ UNCHANGED <<manifest, packages, edges, facts, recorded, diags, groups, results, worker, memo, frontier,
                     stopped, offered, committing, fatal>>
  BY DEF PassOver, lock, flow, Committing
<1>2. Escaped
  <2>1. next \in DOMAIN groups
    BY <1>1 DEF ResolverInv, ResolverTypes, Grouped, Lists
  <2>2. stopped
    BY <1>1, <2>1 DEF ResolverInv, Settled, Turn
  <2> QED BY <1>1, <2>2 DEF ResolverInv, Settled
<1>3. Escaped'
  <2>1. ~Fails(Turn) /\ Errors' = Errors
    BY <1>1 DEF Fails, Errors
  <2> QED BY <1>1, <1>2, <2>1, StillAhead
<1>4. /\ packages \subseteq packages' /\ packages' \subseteq Ids /\ recorded' \subseteq Ids
      /\ edges' \in Seq(ToSet(edges')) /\ EdgesAreInside' /\ Longer /\ (fatal' => Errors' # {})
  BY <1>1 DEF ResolverInv, ResolverTypes, EdgesAreInside, Longer, Settled, Errors
<1>5. Items(committing)'
  <2>1. Items(committing)
    BY <1>1 DEF ResolverInv, ResolverTypes
  <2> QED BY <1>1, <2>1 DEF Items, IsItem
<1> QED BY <1>1, <1>3, <1>4, <1>5, TurnsStay

LEMMA CommitFailureKeepsIt == ASSUME ResolverInv, CommitFailure PROVE ResolverInv'
<1>1. /\ Committing /\ NextGroup /\ Turn \in DOMAIN results /\ results[Turn].kind = "failure"
      /\ pc' = "commit" /\ pc = "commit"
      /\ diags' = diags \cup {Diagnostic(results[Turn].code, r.optional, Turn[1]) : r \in Requests(Turn)}
      /\ fatal' = (fatal \/ HasRequired(Turn))
      /\ UNCHANGED <<manifest, packages, edges, facts, recorded, groups, results, worker, memo, frontier,
                     stopped, offered, committing>>
  BY DEF CommitFailure, Committing
<1>2. Errors \subseteq Errors'
  BY <1>1 DEF Errors
<1>3. HasRequired(Turn) => Errors' # {}
  <2> SUFFICES ASSUME NEW r \in Requests(Turn), ~r.optional PROVE Errors' # {}
    BY DEF HasRequired
  <2>1. Diagnostic(results[Turn].code, r.optional, Turn[1]) \in diags'
    BY <1>1
  <2>2. Diagnostic(results[Turn].code, r.optional, Turn[1]).severity = "error"
    BY DEF Diagnostic
  <2> QED BY <2>1, <2>2 DEF Errors
<1>4. Escaped => Escaped'
  BY <1>1, <1>2, <1>3, StillAhead DEF Fails
<1>5. /\ packages \subseteq packages' /\ packages' \subseteq Ids /\ recorded' \subseteq Ids
      /\ edges' \in Seq(ToSet(edges')) /\ EdgesAreInside' /\ Longer
  BY <1>1 DEF ResolverInv, ResolverTypes, EdgesAreInside, Longer
<1>6. fatal' => Errors' # {}
  <2>1. fatal => Errors # {}
    BY <1>1 DEF ResolverInv, Settled
  <2> QED BY <1>1, <1>2, <1>3, <2>1
<1>7. Items(committing)'
  <2>1. Items(committing)
    BY <1>1 DEF ResolverInv, ResolverTypes
  <2> QED BY <1>1, <2>1 DEF Items, IsItem
<1>8. CASE HasRequired(Turn)
  <2>1. Escaped'
    BY <1>3, <1>8 DEF Escaped
  <2> QED BY <1>1, <1>5, <1>6, <1>7, <2>1, TurnsStay
<1>9. CASE ~HasRequired(Turn)
  <2>1. \A r \in Requests(Turn) : ~Duty(r)
    BY <1>9 DEF HasRequired, Duty
  <2>2. \A r : Served(r) => Served(r)'
    BY <1>1 DEF Served, Leads
  <2>3. packages' \ packages = {} /\ committing \subseteq committing'
    BY <1>1
  <2> QED BY <1>1, <1>4, <1>5, <1>6, <1>7, <2>1, <2>2, <2>3, TurnsStay
<1> QED BY <1>8, <1>9

(* What a package needs, as requests and as facts.                                *)
LEMMA TransitiveIs ==
  ASSUME NEW id, NEW deps, Dependencies(deps)
  PROVE  /\ IsFiniteSet(Transitive(id, deps))
         /\ \A i \in DOMAIN deps : Item(deps[i], id, "runtime") \in Transitive(id, deps)
         /\ \A r \in Transitive(id, deps) :
              /\ r = [name |-> r.name, range |-> r.range, ref |-> r.ref, from |-> r.from, edge |-> r.edge,
                      optional |-> r.optional, slot |-> r.slot]
              /\ r.name \in Names /\ r.range \in Int /\ r.optional \in BOOLEAN /\ r.from = id /\ r.slot = NoSlot
<1> DEFINE f == [i \in DOMAIN deps |-> Item(deps[i], id, "runtime")]
<1>1. Transitive(id, deps) = {f[x] : x \in DOMAIN f}
  BY DEF Transitive
<1>2. IsFiniteSet({f[x] : x \in DOMAIN f})
  <2>1. IsFiniteSet(DOMAIN deps) /\ DOMAIN f = DOMAIN deps
    BY SequenceIsFinite DEF Dependencies
  <2> HIDE DEF f
  <2> QED BY <2>1, ImageIsFinite
<1>3. ASSUME NEW i \in DOMAIN deps, NEW r, r = Item(deps[i], id, "runtime")
      PROVE  /\ r = [name |-> r.name, range |-> r.range, ref |-> r.ref, from |-> r.from, edge |-> r.edge,
                      optional |-> r.optional, slot |-> r.slot]
             /\ r.name \in Names /\ r.range \in Int /\ r.optional \in BOOLEAN /\ r.from = id /\ r.slot = NoSlot
  <2>1. deps[i].name \in Names /\ deps[i].range \in Int /\ deps[i].optional \in BOOLEAN
    BY DEF Dependencies
  <2> HIDE DEF NoSlot
  <2> QED BY <1>3, <2>1 DEF Item
<1> HIDE DEF f
<1>4. \A r \in Transitive(id, deps) : \E i \in DOMAIN deps : r = Item(deps[i], id, "runtime")
  BY DEF Transitive
<1>5. \A i \in DOMAIN deps : Item(deps[i], id, "runtime") \in Transitive(id, deps)
  BY DEF Transitive
<1> QED BY <1>1, <1>2, <1>3, <1>4, <1>5

LEMMA PeersAre ==
  ASSUME NEW id, NEW peers, Dependencies(peers)
  PROVE  /\ FactsAre([i \in DOMAIN peers |-> PeerFact(id, peers[i])])
         /\ \A k \in DOMAIN [i \in DOMAIN peers |-> PeerFact(id, peers[i])] :
              [i \in DOMAIN peers |-> PeerFact(id, peers[i])][k].kind = "peer"
<1> DEFINE fs == [i \in DOMAIN peers |-> PeerFact(id, peers[i])]
<1>1. peers \in Seq(ToSet(peers)) /\ DOMAIN peers = 1 .. Len(peers) /\ Len(peers) \in Nat
  BY DEF Dependencies
<1>2. ASSUME NEW i \in DOMAIN peers
      PROVE  /\ fs[i].name \in Names /\ fs[i].range \in Int /\ fs[i].optional \in BOOLEAN /\ fs[i].kind = "peer"
  <2>1. peers[i].name \in Names /\ peers[i].range \in Int /\ peers[i].optional \in BOOLEAN
    BY DEF Dependencies
  <2>2. fs[i] = PeerFact(id, peers[i])
    OBVIOUS
  <2> HIDE DEF fs
  <2> QED BY <2>1, <2>2 DEF PeerFact
<1>3. DOMAIN fs = DOMAIN peers
  OBVIOUS
<1>4. fs \in Seq(ToSet(fs))
  BY <1>1 DEF ToSet
<1> HIDE DEF fs
<1>5. FactsAre(fs) /\ \A i \in DOMAIN fs : fs[i].kind = "peer"
  BY <1>2, <1>3, <1>4 DEF FactsAre, Kinds
<1> QED BY <1>5 DEF fs

LEMMA ItemsGrow ==
  ASSUME packages \subseteq packages', NEW rs, Items(rs)
  PROVE  IsFiniteSet(rs) /\ \A r \in rs : IsItem(r)'
BY DEF Items, IsItem

LEMMA CommitPackageKeepsIt == ASSUME ResolverInv, CommitPackage PROVE ResolverInv'
<1>1. /\ Committing /\ NextGroup /\ Turn \in DOMAIN results /\ results[Turn].kind = "package"
      /\ pc' = "commit" /\ pc = "commit" /\ next <= Len(groups)
      /\ UNCHANGED <<manifest, diags, groups, results, worker, memo, frontier, stopped, offered, fatal>>
  BY DEF CommitPackage, Committing
<1>2. PICK id, rs, deps, peers :
        /\ id = results[Turn].id /\ rs = Requests(Turn)
        /\ deps = Published[NameOf(id)][VersionOf(id)].deps /\ peers = Published[NameOf(id)][VersionOf(id)].peers
  OBVIOUS
<1>3. PICK released :
        /\ \A x \in released : x[1] = "peer"
        /\ edges' = Only(edges, {e \in ToSet(edges) : e.from \notin released}) \o SetToSeq({EdgeOf(r, id) : r \in rs})
  <2> DEFINE released == {r.from : r \in {q \in rs : FromPeer(q)}}
  <2>1. edges' = Only(edges, {e \in ToSet(edges) : e.from \notin released}) \o SetToSeq({EdgeOf(r, id) : r \in rs})
    BY <1>2 DEF CommitPackage
  <2>2. \A x \in released : x[1] = "peer"
    BY DEF FromPeer
  <2> HIDE DEF released
  <2> QED BY <2>1, <2>2
<1>4. /\ packages' = packages \cup {id}
      /\ IF id \in packages THEN UNCHANGED <<committing, facts, recorded>>
         ELSE /\ committing' = committing \cup Transitive(id, deps)
              /\ facts' = IF id \in recorded THEN facts ELSE facts \o [i \in DOMAIN peers |-> PeerFact(id, peers[i])]
              /\ recorded' = recorded \cup {id}
  BY <1>2 DEF CommitPackage, WithPeers
<1>5. next \in DOMAIN groups /\ Turn \in AllGroups /\ Answers(Turn, results[Turn])
  BY <1>1 DEF ResolverInv, ResolverTypes, Grouped, Lists, Turn
<1>6. /\ Candidates(Turn) # {} /\ id = Selected(Turn)
  BY <1>1, <1>2, <1>5 DEF Answers
<1>7. Items(frontier) /\ Items(committing) /\ FactsAre(facts) /\ edges \in Seq(ToSet(edges))
      /\ packages \subseteq Ids /\ recorded \subseteq Ids
  BY <1>1 DEF ResolverInv, ResolverTypes
<1>8. Turn[1] \in Names
  BY <1>5, <1>7, GroupsArePairs
<1>9. /\ VersionOf(id) \in DOMAIN Published[Turn[1]] /\ Admits(Turn[2], VersionOf(id))
      /\ \A u \in Candidates(Turn) : u <= VersionOf(id)
      /\ NameOf(id) = Turn[1] /\ id \in Ids /\ id[1] = "pkg"
  BY <1>6, <1>8, SelectedIs
<1>10. Dependencies(deps) /\ Dependencies(peers) /\ DepsOf(id) = deps
  <2>1. NameOf(id) \in Names /\ VersionOf(id) \in DOMAIN Published[NameOf(id)] /\ Registry(id)
    BY <1>8, <1>9 DEF Registry, NameOf
  <2> QED BY <1>2, <2>1, ResolverAssumption DEF DepsOf
<1>11. Longer
  <2>1. CASE facts' = facts
    BY <2>1 DEF Longer
  <2>2. CASE facts' # facts
    <3>1. facts' = facts \o [i \in DOMAIN peers |-> PeerFact(id, peers[i])]
      BY <1>4, <2>2
    <3> QED BY <1>10, <3>1, PeersAre DEF Longer
  <2> QED BY <2>1, <2>2
<1>12. rs \subseteq frontier /\ IsFiniteSet({EdgeOf(r, id) : r \in rs})
  <2> DEFINE f == [r \in rs |-> EdgeOf(r, id)]
  <2>1. rs \subseteq frontier /\ IsFiniteSet(rs)
    BY <1>2, <1>7, FS_Subset DEF Requests, Items
  <2>2. {EdgeOf(r, id) : r \in rs} = {f[x] : x \in DOMAIN f} /\ IsFiniteSet(DOMAIN f)
    BY <2>1
  <2> HIDE DEF f
  <2> QED BY <2>1, <2>2, ImageIsFinite
<1>13. /\ edges' \in Seq(ToSet(edges'))
       /\ \A e \in ToSet(edges') : e \in ToSet(edges) \/ \E r \in rs : e = EdgeOf(r, id)
       /\ \A e \in ToSet(edges) : e.from[1] # "peer" => e \in ToSet(edges')
       /\ \A r \in rs : EdgeOf(r, id) \in ToSet(edges')
  <2>1. PICK a, b : /\ a = Only(edges, {e \in ToSet(edges) : e.from \notin released})
                    /\ b = SetToSeq({EdgeOf(r, id) : r \in rs})
    OBVIOUS
  <2>2. a \in Seq(ToSet(edges)) /\ ToSet(a) = ToSet(edges) \cap {e \in ToSet(edges) : e.from \notin released}
    BY <1>7, <2>1, OnlyKeeps
  <2>3. b \in Seq({EdgeOf(r, id) : r \in rs}) /\ ToSet(b) = {EdgeOf(r, id) : r \in rs}
    BY <1>12, <2>1, SetToSeqLists DEF Lists
  <2>4. edges' = a \o b
    BY <1>3, <2>1
  <2>5. edges' \in Seq(ToSet(edges')) /\ ToSet(edges') = ToSet(a) \cup ToSet(b)
    <3> PICK A, B : A = ToSet(edges) /\ B = {EdgeOf(r, id) : r \in rs}
      OBVIOUS
    <3>1. a \in Seq(A) /\ b \in Seq(B)
      BY <2>2, <2>3
    <3>2. edges' \in Seq(A \cup B) /\ DOMAIN edges' = 1 .. Len(a) + Len(b) /\ Len(a) \in Nat /\ Len(b) \in Nat
          /\ DOMAIN a = 1 .. Len(a) /\ DOMAIN b = 1 .. Len(b)
      BY <2>4, <3>1
    <3>3. \A i \in 1 .. Len(a) + Len(b) : edges'[i] = IF i <= Len(a) THEN a[i] ELSE b[i - Len(a)]
      BY <2>4, <3>1
    <3>4. ASSUME NEW e \in ToSet(edges') PROVE e \in ToSet(a) \cup ToSet(b)
      <4>1. PICK i \in DOMAIN edges' : edges'[i] = e
        BY DEF ToSet
      <4>2. CASE i <= Len(a)
        BY <3>2, <3>3, <4>1, <4>2 DEF ToSet
      <4>3. CASE i > Len(a)
        <5>1. i - Len(a) \in DOMAIN b /\ e = b[i - Len(a)]
          BY <3>2, <3>3, <4>1, <4>3
        <5> QED BY <5>1 DEF ToSet
      <4> QED BY <3>2, <4>1, <4>2, <4>3
    <3>5. ToSet(a) \subseteq ToSet(edges')
      <4> SUFFICES ASSUME NEW i \in DOMAIN a PROVE a[i] \in ToSet(edges')
        BY DEF ToSet
      <4>1. i \in DOMAIN edges' /\ edges'[i] = a[i]
        BY <3>2, <3>3
      <4> QED BY <4>1 DEF ToSet
    <3>6. ToSet(b) \subseteq ToSet(edges')
      <4> SUFFICES ASSUME NEW i \in DOMAIN b PROVE b[i] \in ToSet(edges')
        BY DEF ToSet
      <4>1. i + Len(a) \in DOMAIN edges' /\ edges'[i + Len(a)] = b[i]
        BY <3>2, <3>3
      <4> QED BY <4>1 DEF ToSet
    <3> QED BY <3>2, <3>4, <3>5, <3>6, SequenceIsFinite
  <2> QED BY <1>3, <2>2, <2>3, <2>5
<1>14. /\ packages \subseteq packages' /\ packages' \subseteq Ids /\ recorded' \subseteq Ids /\ id \in packages'
  BY <1>4, <1>7, <1>9
<1>15. Items(committing)'
  <2>1. IsFiniteSet(committing) /\ \A r \in committing : IsItem(r)'
    BY <1>7, <1>14, ItemsGrow
  <2>2. IsFiniteSet(Transitive(id, deps)) /\ \A r \in Transitive(id, deps) : IsItem(r)'
    BY <1>10, <1>14, TransitiveIs DEF IsItem
  <2>3. IsFiniteSet(committing') /\ committing' \subseteq committing \cup Transitive(id, deps)
    BY <1>4, <2>1, <2>2, FS_Union
  <2> QED BY <2>1, <2>2, <2>3 DEF Items
<1>16. EdgesAreInside'
  <2> SUFFICES ASSUME NEW e \in ToSet(edges') PROVE e.to \in packages' /\ (e.from[1] = "pkg" => e.from \in packages')
    BY DEF EdgesAreInside
  <2>1. CASE e \in ToSet(edges)
    BY <1>14, <2>1 DEF ResolverInv, EdgesAreInside
  <2>2. CASE \E r \in rs : e = EdgeOf(r, id)
    BY <1>7, <1>12, <1>14, <2>2 DEF EdgeOf, Items, IsItem
  <2> QED BY <1>13, <2>1, <2>2
<1>17. (Escaped => Escaped') /\ (fatal' => Errors' # {})
  <2>1. ~Fails(Turn) /\ Errors' = Errors
    BY <1>1 DEF Fails, Errors
  <2>2. Escaped => Escaped'
    BY <1>1, <2>1, StillAhead
  <2> QED BY <1>1, <2>1, <2>2 DEF ResolverInv, Settled
<1>18. \A r : Duty(r) /\ Served(r) => Served(r)'
  <2> SUFFICES ASSUME NEW r, Duty(r), Served(r) PROVE Served(r)'
    OBVIOUS
  <2>1. PICK e \in ToSet(edges) : e.from = r.from /\ Leads(e, r)
    BY DEF Served
  <2>2. e \in ToSet(edges')
    BY <1>13, <2>1 DEF Duty
  <2>3. Leads(e, r)'
    BY <1>14, <2>1 DEF Leads
  <2> QED BY <2>1, <2>2, <2>3 DEF Served
<1>19. \A r \in Requests(Turn) : Served(r)'
  <2> SUFFICES ASSUME NEW r \in rs PROVE Served(r)'
    BY <1>2
  <2>1. r.name = Turn[1] /\ r.range = Turn[2]
    BY <1>2 DEF Requests, GroupOf
  <2>2. EdgeOf(r, id) \in ToSet(edges')
    BY <1>13
  <2>3. EdgeOf(r, id).from = r.from /\ EdgeOf(r, id).to = id /\ EdgeOf(r, id).ref = r.ref
    BY DEF EdgeOf
  <2>4. Leads(EdgeOf(r, id), r)'
    BY <1>9, <1>14, <2>1, <2>3 DEF Leads, Candidates
  <2> QED BY <2>2, <2>3, <2>4 DEF Served
<1>20. \A x \in packages' \ packages : \A i \in DOMAIN DepsOf(x) : Need(x, i) \in committing'
  <2> SUFFICES ASSUME id \notin packages, NEW i \in DOMAIN DepsOf(id) PROVE Need(id, i) \in committing'
    BY <1>4
  <2>1. Need(id, i) \in Transitive(id, deps)
    BY <1>10, TransitiveIs DEF Need
  <2> QED BY <1>4, <2>1
<1>21. committing \subseteq committing'
  BY <1>4
<1> QED BY <1>1, <1>11, <1>13, <1>14, <1>15, <1>16, <1>17, <1>18, <1>19, <1>20, <1>21, TurnsStay

(* What a dependency asks for is what the controller of its slot asks for.             *)
LEMMA ControlledIs ==
  ASSUME ResolverInv, pc = "enqueue", NEW r \in frontier
  PROVE  /\ Controlled(r) = [name |-> r.name, range |-> Controlled(r).range, ref |-> r.ref, from |-> r.from, edge |-> r.edge,
                             optional |-> r.optional, slot |-> r.slot]
         /\ Controlled(r).range \in Int
         /\ r.slot = NoSlot => Controlled(r) = r
<1>1. FactsAre(facts) /\ IsItem(r) /\ (r.slot # NoSlot => \E j \in DOMAIN facts : SlotKey(facts[j]) = r.slot)
  BY DEF ResolverInv, ResolverTypes, Items, AsksAreServed
<1>2. /\ r = [name |-> r.name, range |-> r.range, ref |-> r.ref, from |-> r.from, edge |-> r.edge,
              optional |-> r.optional, slot |-> r.slot]
      /\ r.range \in Int
  BY <1>1 DEF IsItem
<1> HIDE DEF NoSlot
<1>3. CASE r.slot = NoSlot
  <2>1. Controlled(r) = r
    BY <1>3 DEF Controlled
  <2> QED BY <1>2, <2>1
<1>4. CASE r.slot # NoSlot
  <2>1. PICK c : c = facts[Controller(facts, r.slot)].range
    OBVIOUS
  <2>2. c \in Int
    <3>1. Controller(facts, r.slot) \in DOMAIN facts
      BY <1>1, <1>4, ControllerExists
    <3> QED BY <1>1, <2>1, <3>1 DEF FactsAre
  <2>3. Controlled(r) = [r EXCEPT !.range = c]
    BY <1>4, <2>1 DEF Controlled
  <2>4. [r EXCEPT !.range = c] = [name |-> r.name, range |-> c, ref |-> r.ref, from |-> r.from, edge |-> r.edge,
                                  optional |-> r.optional, slot |-> r.slot]
    BY <1>2
  <2> QED BY <1>4, <2>2, <2>3, <2>4
<1> QED BY <1>3, <1>4

LEMMA ApplyControllersKeepsIt == ASSUME ResolverInv, ApplyControllers PROVE ResolverInv'
<1>1. /\ pc = "enqueue" /\ pc' = "frontier" /\ next > Len(Direct) /\ frontier' = {Controlled(r) : r \in frontier}
      /\ UNCHANGED <<manifest, packages, edges, facts, recorded, diags, next, stopped, offered, worker, memo>>
  BY DEF ApplyControllers, lock, pool
<1>2. FlightIsSingle' /\ Grouped' /\ AtWork' /\ Settled'
  BY <1>1, CoordinatorFrame
<1>3. EdgesAreInside' /\ IsPruned' /\ (Escaped => Escaped')
  BY <1>1 DEF ResolverInv, EdgesAreInside, IsPruned, Escaped, Errors
<1>4. Items(frontier)'
  <2> DEFINE f == [r \in frontier |-> Controlled(r)]
  <2>1. Items(frontier)
    BY <1>1 DEF ResolverInv, ResolverTypes
  <2>2. IsFiniteSet(frontier')
    <3>1. IsFiniteSet(DOMAIN f) /\ frontier' = {f[x] : x \in DOMAIN f}
      BY <1>1, <2>1 DEF Items
    <3> HIDE DEF f
    <3> QED BY <3>1, ImageIsFinite
  <2>3. ASSUME NEW r \in frontier, NEW c, c = Controlled(r) PROVE IsItem(c)'
    <3>1. /\ c = [name |-> r.name, range |-> c.range, ref |-> r.ref, from |-> r.from, edge |-> r.edge,
                  optional |-> r.optional, slot |-> r.slot]
          /\ c.range \in Int
      BY <1>1, <2>3, ControlledIs
    <3>2. /\ c.name = r.name /\ c.ref = r.ref /\ c.from = r.from /\ c.edge = r.edge /\ c.optional = r.optional /\ c.slot = r.slot
      BY <3>1
    <3>3. IsItem(r)
      BY <2>1 DEF Items
    <3> QED BY <1>1, <3>1, <3>2, <3>3 DEF IsItem
  <2>4. \A x \in frontier' : \E r \in frontier : x = Controlled(r)
    BY <1>1
  <2> QED BY <2>2, <2>3, <2>4 DEF Items
<1>5. ResolverTypes'
  <2>1. packages' \subseteq Ids /\ recorded' \subseteq Ids /\ edges' \in Seq(ToSet(edges')) /\ FactsAre(facts)'
        /\ next' \in Nat \ {0} /\ stopped' \in BOOLEAN /\ offered' \in BOOLEAN
    BY <1>1 DEF ResolverInv, ResolverTypes, FactsAre
  <2> QED BY <1>1, <1>4, <2>1, TypesStay
<1>6. NeedsAreServed'
  <2> SUFFICES ASSUME ~Escaped', NEW id \in packages, NEW i \in DOMAIN DepsOf(id), ~DepsOf(id)[i].optional,
                      NEW r, r = Need(id, i)
               PROVE  Served(r)' \/ Pending(r)'
    BY <1>1 DEF NeedsAreServed, Need, DepsOf
  <2>1. CASE Served(r)
    BY <1>1, <2>1 DEF Served, Leads
  <2>2. CASE ~Served(r)
    <3>1. r \in frontier
      BY <1>1, <1>3, <2>2 DEF ResolverInv, NeedsAreServed, Pending
    <3>2. r.slot = NoSlot
      BY DEF Need, Item
    <3>3. Controlled(r) = r
      BY <1>1, <3>1, <3>2, ControlledIs
    <3> QED BY <1>1, <3>1, <3>3 DEF Pending
  <2> QED BY <2>1, <2>2
<1>7. AsksAreServed'
  <2>1. Direct \in Seq(ToSet(Direct)) /\ Len(Direct) \in Nat /\ DOMAIN Direct = 1 .. Len(Direct)
    BY ResolverAssumption DEF ResolverInv, ResolverTypes, Direct
  <2>2. Direct' = Direct /\ next \in Nat
    BY <1>1 DEF Direct, ResolverInv, ResolverTypes
  <2>3. ASSUME NEW k, Required(k)
        PROVE /\ \E j \in DOMAIN facts : facts[j] = SharedFact(Direct[k])
              /\ DirectItem(k) \in frontier
    <3>1. k \in DOMAIN Direct /\ k < next
      BY <1>1, <2>1, <2>2, <2>3 DEF Required
    <3> QED BY <1>1, <2>3, <3>1 DEF ResolverInv, AsksAreServed
  <2>4. ASSUME NEW k, Required(k) PROVE Pending(Asked(k))'
    <3>1. Asked(k) \in frontier'
      BY <1>1, <2>3, <2>4 DEF Asked
    <3>2. Asked(k)' = Asked(k)
      BY <1>1, <2>2 DEF Asked, Controlled, DirectItem
    <3> QED BY <1>1, <3>1, <3>2 DEF Pending
  <2>5. \A k : Required(k)' = Required(k)
    BY <2>2 DEF Required
  <2> HIDE DEF Required, Direct
  <2> QED BY <1>1, <2>2, <2>3, <2>4, <2>5 DEF AsksAreServed
<1> QED BY <1>2, <1>3, <1>5, <1>6, <1>7 DEF ResolverInv

(* A direct request is entered.                                                 *)
LEMMA DirectFrame ==
  ASSUME ResolverInv, pc = "enqueue", pc' = "enqueue", next' = next + 1, next <= Len(Direct),
         UNCHANGED <<manifest, worker, memo, stopped, offered>>,
         packages \subseteq packages', packages' \subseteq Ids, recorded' \subseteq Ids, edges' \in Seq(ToSet(edges')),
         FactsAre(facts)', \A j \in DOMAIN facts : j \in DOMAIN facts' /\ facts'[j] = facts[j],
         frontier \subseteq frontier', Items(frontier)', Errors \subseteq Errors', EdgesAreInside',
         ToSet(edges) \subseteq ToSet(edges'),
         \A id \in packages' \ packages : \A i \in DOMAIN DepsOf(id) : Need(id, i) \in frontier',
         \A r \in frontier' \ frontier : r.slot # NoSlot => \E j \in DOMAIN facts' : SlotKey(facts'[j]) = r.slot,
         Required(next) => DirectItem(next) \in frontier' /\ \E j \in DOMAIN facts' : facts'[j] = SharedFact(Direct[next])
  PROVE  ResolverInv'
<1>1. FlightIsSingle' /\ Grouped' /\ AtWork' /\ Settled'
  BY CoordinatorFrame
<1>2. Direct \in Seq(ToSet(Direct)) /\ Len(Direct) \in Nat /\ DOMAIN Direct = 1 .. Len(Direct) /\ next \in Nat \ {0}
  BY ResolverAssumption DEF ResolverInv, ResolverTypes, Direct
<1>3. Direct' = Direct /\ stopped' \in BOOLEAN /\ offered' \in BOOLEAN /\ next' \in Nat \ {0}
  BY <1>2 DEF ResolverInv, ResolverTypes, Direct
<1>4. ResolverTypes'
  BY <1>3, TypesStay
<1>5. NeedsAreServed'
  <2> SUFFICES ASSUME ~Escaped', NEW id \in packages', NEW i \in DOMAIN DepsOf(id), ~DepsOf(id)[i].optional,
                      NEW r, r = Need(id, i)
               PROVE  Served(r)' \/ Pending(r)'
    BY DEF NeedsAreServed, Need, DepsOf
  <2>1. CASE id \notin packages
    BY <2>1 DEF Pending
  <2>2. CASE id \in packages
    <3>1. ~Escaped
      BY DEF Escaped
    <3>2. Served(r) \/ r \in frontier
      BY <2>2, <3>1 DEF ResolverInv, NeedsAreServed, Pending
    <3>3. Served(r) => Served(r)'
      BY DEF Served, Leads
    <3>4. r \in frontier => Pending(r)'
      BY DEF Pending
    <3> QED BY <3>2, <3>3, <3>4
  <2> QED BY <2>1, <2>2
<1>6. AsksAreServed'
  <2>1. next' <= Len(Direct) + 1
    BY <1>2
  <2>2. ASSUME NEW k \in DOMAIN Direct, Required(k), k < next'
        PROVE  DirectItem(k) \in frontier' /\ \E j \in DOMAIN facts' : facts'[j] = SharedFact(Direct[k])
    <3>1. CASE k = next
      BY <2>2, <3>1
    <3>2. CASE k # next
      <4>1. k < next
        BY <1>2, <2>2, <3>2
      <4>2. DirectItem(k) \in frontier /\ \E j \in DOMAIN facts : facts[j] = SharedFact(Direct[k])
        BY <2>2, <4>1 DEF ResolverInv, AsksAreServed
      <4> QED BY <4>2
    <3> QED BY <3>1, <3>2
  <2>3. ASSUME NEW r \in frontier', r.slot # NoSlot
        PROVE  \E j \in DOMAIN facts' : SlotKey(facts'[j]) = r.slot
    <3>1. CASE r \in frontier
      BY <2>3, <3>1 DEF ResolverInv, AsksAreServed
    <3>2. CASE r \notin frontier
      BY <2>3, <3>2
    <3> QED BY <3>1, <3>2
  <2>4. \A k : (Required(k)' <=> Required(k)) /\ DirectItem(k)' = DirectItem(k) /\ (Required(k) => k \in DOMAIN Direct)
    BY <1>3 DEF Required, DirectItem
  <2>5. pc' = "enqueue" => /\ next' <= Len(Direct') + 1
                           /\ \A k \in DOMAIN Direct' : Required(k)' /\ k < next' => DirectItem(k)' \in frontier'
    <3> HIDE DEF Required, DirectItem
    <3> QED BY <1>3, <2>1, <2>2, <2>4
  <2>6. \A k \in DOMAIN Direct' : Required(k)' /\ k < next' =>
          \E j \in DOMAIN facts' : facts'[j] = SharedFact(Direct'[k])
    <3> HIDE DEF Required, DirectItem
    <3> QED BY <1>3, <2>2, <2>4
  <2>7. \A r \in frontier' : r.slot # NoSlot => \E j \in DOMAIN facts' : SlotKey(facts'[j]) = r.slot
    BY <2>3
  <2> HIDE DEF Required, DirectItem
  <2> QED BY <2>5, <2>6, <2>7 DEF AsksAreServed
<1>7. IsPruned'
  BY DEF IsPruned
<1> QED BY <1>1, <1>4, <1>5, <1>6, <1>7 DEF ResolverInv

LEMMA EnqueueDirectKeepsIt == ASSUME ResolverInv, EnqueueDirect PROVE ResolverInv'
<1>1. PICK r : r = Direct[next]
  OBVIOUS
<1>2. /\ pc = "enqueue" /\ pc' = "enqueue" /\ next' = next + 1 /\ next <= Len(Direct)
      /\ UNCHANGED <<manifest, worker, memo, stopped, offered>>
  BY DEF EnqueueDirect
<1>3. Direct \in Seq(ToSet(Direct)) /\ next \in DOMAIN Direct /\ manifest \in Manifests
  <2>1. Direct \in Seq(ToSet(Direct)) /\ manifest \in Manifests /\ next \in Nat \ {0}
    BY ResolverAssumption DEF ResolverInv, ResolverTypes, Direct
  <2> QED BY <1>2, <2>1
<1>4. DirectRequest(r)
  BY <1>1, <1>3, ResolverAssumption DEF Direct
<1>5. Items(frontier) /\ FactsAre(facts) /\ edges \in Seq(ToSet(edges)) /\ packages \subseteq Ids /\ recorded \subseteq Ids
  BY <1>2 DEF ResolverInv, ResolverTypes
<1>6. CASE r.name \notin DOMAIN Local
  <2>1. PICK fact, item : fact = SharedFact(r) /\ item = [Item(r, r.from, r.edge) EXCEPT !.slot = SlotKey(fact)]
    OBVIOUS
  <2>2. /\ facts' = Append(facts, fact) /\ frontier' = frontier \cup {item}
        /\ UNCHANGED <<packages, edges, recorded, diags>>
    BY <1>1, <1>6, <2>1 DEF EnqueueDirect
  <2>3. /\ fact.name = r.name /\ fact.range = r.range /\ fact.optional = r.optional /\ fact.kind = r.kind
    BY <2>1 DEF SharedFact
  <2>4. /\ item = [name |-> r.name, range |-> r.range, ref |-> r.ref, from |-> r.from,
                   edge |-> r.edge, optional |-> r.optional, slot |-> SlotKey(fact)]
    BY <2>1 DEF Item
  <2>5. Len(facts) \in Nat /\ DOMAIN facts = 1 .. Len(facts) /\ facts \in Seq(ToSet(facts))
    BY <1>5 DEF FactsAre
  <2>6. /\ facts' \in Seq(ToSet(facts) \cup {fact}) /\ DOMAIN facts' = 1 .. Len(facts) + 1
        /\ \A i \in 1 .. Len(facts) : facts'[i] = facts[i]
        /\ facts'[Len(facts) + 1] = fact
    <3> PICK F : F = ToSet(facts)
      OBVIOUS
    <3>1. facts \in Seq(F \cup {fact}) /\ fact \in F \cup {fact}
      BY <2>5
    <3> QED BY <2>2, <2>5, <3>1
  <2>7. FactsAre(facts)'
    <3>1. facts' \in Seq(ToSet(facts'))
      BY <2>6, SequenceIsFinite
    <3>2. ASSUME NEW i \in DOMAIN facts'
          PROVE  /\ facts'[i].name \in Names /\ facts'[i].range \in Int
                 /\ facts'[i].optional \in BOOLEAN /\ facts'[i].kind \in Kinds
      <4>1. CASE i \in DOMAIN facts
        BY <1>5, <2>5, <2>6, <4>1 DEF FactsAre
      <4>2. CASE i \notin DOMAIN facts
        <5>1. facts'[i] = fact
          BY <2>5, <2>6, <4>2
        <5> QED BY <1>4, <1>6, <2>3, <5>1 DEF DirectRequest, Kinds
      <4> QED BY <4>1, <4>2
    <3> QED BY <3>1, <3>2 DEF FactsAre
  <2>8. Items(frontier)'
    <3>1. IsItem(item)'
      BY <1>4, <1>6, <2>4 DEF IsItem, DirectRequest
    <3>2. IsFiniteSet(frontier) /\ \A x \in frontier : IsItem(x)'
      BY <1>5, <2>2, ItemsGrow
    <3>3. IsFiniteSet(frontier')
      BY <2>2, <3>2, FS_AddElement
    <3> QED BY <2>2, <3>1, <3>2, <3>3 DEF Items
  <2>9. EdgesAreInside' /\ packages' \ packages = {} /\ ToSet(edges) \subseteq ToSet(edges') /\ Errors \subseteq Errors'
    BY <2>2 DEF ResolverInv, EdgesAreInside, Errors
  <2>10. Required(next) => DirectItem(next) \in frontier' /\ \E j \in DOMAIN facts' : facts'[j] = SharedFact(Direct[next])
    <3>1. DirectItem(next) = item
      BY <1>1, <2>1 DEF DirectItem
    <3>2. Len(facts) + 1 \in DOMAIN facts'
      BY <2>5, <2>6
    <3> QED BY <1>1, <2>1, <2>2, <2>6, <3>1, <3>2
  <2>11. \A x \in frontier' \ frontier : x.slot # NoSlot => \E j \in DOMAIN facts' : SlotKey(facts'[j]) = x.slot
    <3>1. Len(facts) + 1 \in DOMAIN facts' /\ SlotKey(facts'[Len(facts) + 1]) = SlotKey(fact)
      BY <2>5, <2>6
    <3>2. \A x \in frontier' \ frontier : x.slot = SlotKey(fact)
      BY <2>2, <2>4
    <3> QED BY <3>1, <3>2
  <2>12. /\ edges' \in Seq(ToSet(edges')) /\ packages \subseteq packages' /\ packages' \subseteq Ids /\ recorded' \subseteq Ids
         /\ frontier \subseteq frontier' /\ \A j \in DOMAIN facts : j \in DOMAIN facts' /\ facts'[j] = facts[j]
    BY <1>5, <2>2, <2>5, <2>6
  <2> QED BY <1>2, <2>7, <2>8, <2>9, <2>10, <2>11, <2>12, DirectFrame
<1>7. CASE r.name \in DOMAIN Local
  <2>1. PICK id, pkg : id = IdOf(r.name, 0) /\ pkg = Local[r.name]
    OBVIOUS
  <2>2. id \in Ids /\ id[1] = "pkg" /\ NameOf(id) = r.name /\ VersionOf(id) = 0
    BY <1>7, <2>1 DEF Ids, IdOf, NameOf, VersionOf
  <2>3. /\ ~Required(next) /\ ~Registry(id) /\ Dependencies(pkg.deps) /\ Dependencies(pkg.peers)
        /\ DepsOf(id) = IF pkg.walks THEN pkg.deps ELSE <<>>
    <3>1. ~Required(next)
      BY <1>1, <1>7 DEF Required
    <3>2. r.name \notin Names /\ Dependencies(pkg.deps) /\ Dependencies(pkg.peers)
      BY <1>7, <2>1, ResolverAssumption
    <3>3. ~Registry(id)
      BY <2>2, <3>2 DEF Registry, NameOf
    <3>4. DepsOf(id) = IF pkg.walks THEN pkg.deps ELSE <<>>
      BY <2>1, <2>2, <3>3 DEF DepsOf
    <3> QED BY <3>1, <3>2, <3>3, <3>4
  <2>4. \/ /\ UNCHANGED <<packages, edges, facts, recorded, frontier>>
           /\ diags' = diags \cup {Diagnostic("LOCAL_INVALID", FALSE, r.name)}
        \/ /\ UNCHANGED <<facts, recorded, diags, frontier>>
           /\ packages' = packages \cup {id} /\ edges' = Append(edges, EdgeOf(r, id)) /\ (id \in packages \/ ~pkg.walks)
        \/ /\ UNCHANGED <<diags>>
           /\ packages' = packages \cup {id} /\ edges' = Append(edges, EdgeOf(r, id))
           /\ recorded' \in {recorded, recorded \cup {id}}
           /\ facts' = facts \/ facts' = facts \o [i \in DOMAIN pkg.peers |-> PeerFact(id, pkg.peers[i])]
           /\ frontier' = frontier \cup Transitive(id, pkg.deps)
    BY <1>1, <1>7, <2>1 DEF EnqueueDirect, ResolveLocal, WithPeers
  <2>5. \/ packages' = packages /\ edges' = edges
        \/ packages' = packages \cup {id} /\ edges' = Append(edges, EdgeOf(r, id))
    BY <2>4
  <2>6. /\ packages \subseteq packages' /\ packages' \subseteq Ids /\ packages' \ packages \subseteq {id}
        /\ recorded' \subseteq Ids /\ frontier \subseteq frontier' /\ Errors \subseteq Errors'
    BY <1>5, <2>2, <2>4 DEF Errors
  <2>7. Longer
    <3>1. facts' = facts \/ facts' = facts \o [i \in DOMAIN pkg.peers |-> PeerFact(id, pkg.peers[i])]
      BY <2>4
    <3>2. CASE facts' = facts
      BY <3>2 DEF Longer
    <3>3. CASE facts' = facts \o [i \in DOMAIN pkg.peers |-> PeerFact(id, pkg.peers[i])]
      <4>1. PICK peers : peers = pkg.peers
        OBVIOUS
      <4>2. Dependencies(peers) /\ facts' = facts \o [i \in DOMAIN peers |-> PeerFact(id, peers[i])]
        BY <2>3, <3>3, <4>1
      <4> QED BY <4>2, PeersAre DEF Longer
    <3> QED BY <3>1, <3>2, <3>3
  <2>8. FactsAre(facts)' /\ \A j \in DOMAIN facts : j \in DOMAIN facts' /\ facts'[j] = facts[j]
    BY <1>5, <2>7, FactsStay
  <2>9. frontier' = frontier \/ frontier' = frontier \cup Transitive(id, pkg.deps)
    BY <2>4
  <2>10. frontier' = frontier \cup Transitive(id, pkg.deps) => id \in packages' \/ frontier' = frontier
    BY <2>4
  <2>11. Items(frontier)'
    <3>1. IsFiniteSet(frontier) /\ \A x \in frontier : IsItem(x)'
      BY <1>5, <2>6, ItemsGrow
    <3>2. CASE frontier' = frontier
      BY <3>1, <3>2 DEF Items
    <3>3. CASE frontier' # frontier
      <4>1. frontier' = frontier \cup Transitive(id, pkg.deps) /\ id \in packages'
        BY <2>9, <2>10, <3>3
      <4>2. IsFiniteSet(Transitive(id, pkg.deps)) /\ \A x \in Transitive(id, pkg.deps) : IsItem(x)'
        BY <2>3, <4>1, TransitiveIs DEF IsItem
      <4>3. IsFiniteSet(frontier')
        BY <3>1, <4>1, <4>2, FS_Union
      <4> QED BY <3>1, <4>1, <4>2, <4>3 DEF Items
    <3> QED BY <3>2, <3>3
  <2>12. \A x \in frontier' \ frontier : x.slot = NoSlot
    <3>1. \A x \in Transitive(id, pkg.deps) : x.slot = NoSlot
      BY <2>3, TransitiveIs
    <3> QED BY <2>9, <3>1
  <2>13. edges' \in Seq(ToSet(edges')) /\ ToSet(edges) \subseteq ToSet(edges')
         /\ \A e \in ToSet(edges') : e \in ToSet(edges) \/ (e = EdgeOf(r, id) /\ id \in packages')
    <3>1. CASE packages' = packages /\ edges' = edges
      BY <1>5, <3>1
    <3>2. CASE packages' = packages \cup {id} /\ edges' = Append(edges, EdgeOf(r, id))
      <4> PICK E, x : E = ToSet(edges) /\ x = EdgeOf(r, id)
        OBVIOUS
      <4>1. /\ edges \in Seq(E \cup {x}) /\ x \in E \cup {x} /\ Len(edges) \in Nat /\ DOMAIN edges = 1 .. Len(edges)
        BY <1>5
      <4>2. /\ edges' \in Seq(E \cup {x}) /\ DOMAIN edges' = 1 .. Len(edges) + 1
            /\ \A i \in 1 .. Len(edges) : edges'[i] = edges[i]
            /\ edges'[Len(edges) + 1] = x
        BY <3>2, <4>1
      <4>3. ToSet(edges') = ToSet(edges) \cup {x}
        BY <4>1, <4>2 DEF ToSet
      <4>4. edges' \in Seq(ToSet(edges'))
        BY <4>2, SequenceIsFinite
      <4> QED BY <3>2, <4>3, <4>4
    <3> QED BY <2>5, <3>1, <3>2
  <2>14. EdgesAreInside'
    <3> SUFFICES ASSUME NEW e \in ToSet(edges') PROVE e.to \in packages' /\ (e.from[1] = "pkg" => e.from \in packages')
      BY DEF EdgesAreInside
    <3>1. CASE e \in ToSet(edges)
      BY <2>6, <3>1 DEF ResolverInv, EdgesAreInside
    <3>2. CASE e = EdgeOf(r, id) /\ id \in packages'
      <4>1. e.to = id /\ e.from = r.from
        BY <3>2 DEF EdgeOf
      <4> QED BY <1>4, <3>2, <4>1 DEF DirectRequest
    <3> QED BY <2>13, <3>1, <3>2
  <2>15. \A x \in packages' \ packages : \A i \in DOMAIN DepsOf(x) : Need(x, i) \in frontier'
    <3> SUFFICES ASSUME id \in packages', id \notin packages, NEW i \in DOMAIN DepsOf(id) PROVE Need(id, i) \in frontier'
      BY <2>6
    <3>1. pkg.walks /\ DepsOf(id) = pkg.deps
      BY <2>3
    <3>2. frontier' = frontier \cup Transitive(id, pkg.deps)
      BY <2>4, <3>1
    <3>3. Need(id, i) \in Transitive(id, pkg.deps)
      BY <2>3, <3>1, TransitiveIs DEF Need
    <3> QED BY <3>2, <3>3
  <2> QED BY <1>2, <2>3, <2>6, <2>8, <2>11, <2>12, <2>13, <2>14, <2>15, DirectFrame
<1> QED BY <1>6, <1>7

-----------------------------------------------------------------------------
(* The theorem.                                                               *)
LEMMA ResolverInvInitially == ASSUME Init PROVE ResolverInv
<1>1. /\ manifest \in Manifests /\ packages = {} /\ edges = <<>> /\ facts = <<>> /\ recorded = {} /\ diags = {}
      /\ pc = "enqueue" /\ frontier = {} /\ next = 1
      /\ worker = [w \in Workers |-> Idle] /\ meta = [n \in Names |-> "none"] /\ prep = [i \in Ids |-> Nothing]
      /\ asked = [i \in Ids |-> 0] /\ failures = 0
  BY DEF Init
<1>2. stopped \in BOOLEAN /\ offered \in BOOLEAN
  BY Zenon DEF Init
<1>3. ToSet(edges) = {} /\ edges \in Seq(ToSet(edges)) /\ FactsAre(facts) /\ DOMAIN facts = {}
  BY <1>1 DEF ToSet, FactsAre
<1>4. Items(frontier)
  BY <1>1, FS_EmptySet DEF Items
<1>5. /\ worker \in [Workers -> [at : WorkerAt, group : Int \X Int, id : Ids \cup {NoId}]]
      /\ prep \in [Ids -> AnyResult]
  <2>1. <<0, 0>> \in Int \X Int
    OBVIOUS
  <2>2. Idle \in [at : WorkerAt, group : Int \X Int, id : Ids \cup {NoId}]
    BY <2>1 DEF Idle, WorkerAt, NoId
  <2>3. Nothing \in AnyResult
    BY DEF Nothing, AnyResult, NoId, Codes
  <2>4. worker \in [Workers -> [at : WorkerAt, group : Int \X Int, id : Ids \cup {NoId}]]
    BY <1>1, <2>2
  <2>5. prep \in [Ids -> AnyResult]
    BY <1>1, <2>3
  <2> QED BY <2>4, <2>5
<1>10. /\ meta \in [Names -> {"none", "pending", "ready", "failed"}] /\ asked \in [Ids -> Nat]
      /\ failures \in 0 .. MaxFailures /\ next \in Nat \ {0}
  <2>1. meta \in [Names -> {"none", "pending", "ready", "failed"}]
    BY <1>1
  <2>2. asked \in [Ids -> Nat]
    BY <1>1
  <2>3. failures \in 0 .. MaxFailures /\ next \in Nat \ {0}
    BY <1>1, ResolverAssumption
  <2> QED BY <2>1, <2>2, <2>3
<1>6. ResolverTypes
  BY <1>1, <1>2, <1>3, <1>4, <1>5, <1>10 DEF ResolverTypes
<1>7. FlightIsSingle
  <2>1. \A id \in Ids : asked[id] = 0
    BY <1>1
  <2>2. \A id \in Ids : prep[id].kind # "package"
    BY <1>1 DEF Nothing
  <2> QED BY <2>1, <2>2 DEF FlightIsSingle
<1>8. Grouped /\ AtWork /\ Settled /\ IsPruned /\ EdgesAreInside /\ NeedsAreServed
  BY <1>1, <1>3 DEF Grouped, AtWork, Settled, Busy, Idle, IsPruned, EdgesAreInside, NeedsAreServed
<1>9. AsksAreServed
  <2>1. Direct \in Seq(ToSet(Direct)) /\ Len(Direct) \in Nat /\ DOMAIN Direct = 1 .. Len(Direct)
    BY <1>1, ResolverAssumption DEF Direct
  <2> QED BY <1>1, <2>1 DEF AsksAreServed
<1> QED BY <1>6, <1>7, <1>8, <1>9 DEF ResolverInv

LEMMA ResolverInvIsKept == ASSUME ResolverInv, [Next]_vars PROVE ResolverInv'
<1>1. CASE UNCHANGED vars
  <2>1. UNCHANGED <<manifest, packages, edges, facts, recorded, slots, diags, tape>> /\ UNCHANGED <<groups, next, stopped, offered, worker, results>>
        /\ UNCHANGED <<meta, prep, asked, failures>> /\ UNCHANGED <<pc, stage, frontier, committing, fatal, iteration, before>>
    BY <1>1 DEF vars, lock, pool, memo, flow
  <2>2. ResolverTypes' /\ FlightIsSingle'
    BY <2>1 DEF ResolverInv, ResolverTypes, Items, IsItem, FactsAre, FlightIsSingle, Memoized
  <2>3. \A g : Fails(g)' = Fails(g)
    BY <2>1 DEF Fails, HasRequired, Requests
  <2>4. AllGroups' = AllGroups
    BY <2>1 DEF AllGroups
  <2>5. Grouped' /\ EdgesAreInside'
    BY <2>1, <2>4 DEF ResolverInv, Grouped, Lists, Answers, EdgesAreInside
  <2>6. WillFail' = WillFail /\ Escaped' = Escaped /\ IsPruned'
    BY <2>1, <2>3 DEF WillFail, Escaped, Errors, ResolverInv, IsPruned, Reachable, ClosedUnder
  <2>7. Settled'
    <3>1. \A v \in Workers : Busy(v)' = Busy(v)
      BY <2>1 DEF Busy
    <3>2. Errors' = Errors /\ pc' = pc /\ stopped' = stopped /\ fatal' = fatal /\ DOMAIN groups' = DOMAIN groups
      BY <2>1 DEF Errors
    <3>3. \A k : groups'[k] = groups[k] /\ DOMAIN results' = DOMAIN results
      BY <2>1
    <3>4. Settled
      BY DEF ResolverInv
    <3>5. pc' # "prepare" => \A w \in Workers : ~Busy(w)'
      BY <3>1, <3>2, <3>4 DEF Settled
    <3>6. pc' = "commit" => (stopped' => Escaped')
      BY <2>6, <3>2, <3>4, Zenon DEF Settled
    <3>7. pc' = "commit" => (~stopped' => \A k \in DOMAIN groups' : groups'[k] \in DOMAIN results')
      BY <2>1, <3>4, Zenon DEF Settled
    <3>8. pc' = "commit" => (fatal' => Errors' # {})
      BY <3>2, <3>4, Zenon DEF Settled
    <3> QED BY <3>5, <3>6, <3>7, <3>8 DEF Settled
  <2>8. AtWork'
    <3>1. \A v \in Workers : Busy(v)' = Busy(v) /\ Group(v)' = Group(v)
      BY <2>1 DEF Busy, Group
    <3>2. \A v \in Workers : Candidates(Group(v))' = Candidates(Group(v)) /\ Selected(Group(v))' = Selected(Group(v))
      BY <2>1 DEF Candidates, Selected, Group
    <3> HIDE DEF Busy, Group, Fails, Candidates, Selected
    <3> QED BY <2>1, <2>3, <3>1, <3>2 DEF ResolverInv, AtWork
  <2>9. \A r : Served(r)' = Served(r) /\ Pending(r)' = Pending(r)
    BY <2>1 DEF Served, Leads, Pending
  <2>10. NeedsAreServed'
    BY <2>1, <2>6, <2>9 DEF ResolverInv, NeedsAreServed, Need, DepsOf
  <2>11. AsksAreServed'
    <3>1. \A k : (Required(k) <=> Required(k)') /\ DirectItem(k)' = DirectItem(k)
               /\ SharedFact(Direct[k])' = SharedFact(Direct[k])
      BY <2>1 DEF Required, Direct, DirectItem, SharedFact, Item
    <3>2. \A k : Asked(k)' = Asked(k)
      BY <2>1, <3>1 DEF Asked, Controlled
    <3>3. Direct' = Direct
      BY <2>1 DEF Direct
    <3> HIDE DEF Served, Pending, Asked, Required, DirectItem, SharedFact
    <3> QED BY <2>1, <2>6, <2>9, <3>1, <3>2, <3>3 DEF ResolverInv, AsksAreServed
  <2> QED BY <2>2, <2>5, <2>6, <2>7, <2>8, <2>10, <2>11 DEF ResolverInv
<1>2. CASE Next
  <2>1. CASE Coordinate
    BY <2>1, EnqueueDirectKeepsIt, ApplyControllersKeepsIt, RefuseFrontierKeepsIt, LeaveFrontiersKeepsIt,
       PrepareGroupsKeepsIt, OfferKeepsIt, BeginCommitKeepsIt, PassOverKeepsIt, CommitFailureKeepsIt,
       CommitPackageKeepsIt, EndCommitKeepsIt, ResolvePeersKeepsIt, PeersSettledKeepsIt, ReconcileKeepsIt,
       PruneKeepsIt, RecomputeKeepsIt, FinalizeKeepsIt DEF Coordinate
  <2>2. CASE \E w \in Workers : Work(w)
    BY <2>2, WorkersKeepIt
  <2> QED BY <1>2, <2>1, <2>2 DEF Next
<1> QED BY <1>1, <1>2

LEMMA ResolverInvIsSound == ASSUME ResolverInv PROVE ResolutionIsSound
<1>1. TypeOK
  <2>1. ResolverTypes
    BY DEF ResolverInv
  <2>2. \A w \in Workers : worker[w].at \in {"idle", "metadata", "fetchMetadata", "fetchArtifact", "await"}
    BY <2>1 DEF ResolverTypes, WorkerAt
  <2>3. \A i \in Ids : prep[i].kind \in {"none", "pending", "package", "failure"}
    BY <2>1 DEF ResolverTypes, AnyResult
  <2> QED BY <2>1, <2>2, <2>3 DEF TypeOK, ResolverTypes
<1>2. AskedOnce
  BY DEF ResolverInv, FlightIsSingle, AskedOnce
<1>3. LockIsClosed
  <2> SUFFICES ASSUME Succeeded
               PROVE  /\ \A id \in packages : \A i \in DOMAIN DepsOf(id) :
                           ~DepsOf(id)[i].optional =>
                             \E e \in ToSet(edges) : e.from = id /\ Leads(e, DepsOf(id)[i])
                      /\ \A e \in ToSet(edges) : e.to \in packages /\ (e.from[1] = "pkg" => e.from \in packages)
                      /\ packages = Reachable(edges, packages)
    BY DEF LockIsClosed
  <2>1. pc = "done" /\ Errors = {} /\ ~Escaped
    BY DEF Succeeded, Escaped
  <2>2. ASSUME NEW id \in packages, NEW i \in DOMAIN DepsOf(id), ~DepsOf(id)[i].optional
        PROVE  \E e \in ToSet(edges) : e.from = id /\ Leads(e, DepsOf(id)[i])
    <3>1. Served(Need(id, i))
      BY <2>1, <2>2 DEF ResolverInv, NeedsAreServed, Pending
    <3>2. PICK e \in ToSet(edges) : e.from = Need(id, i).from /\ Leads(e, Need(id, i))
      BY <3>1 DEF Served
    <3>3. /\ Need(id, i).from = id /\ Need(id, i).name = DepsOf(id)[i].name
          /\ Need(id, i).range = DepsOf(id)[i].range /\ Need(id, i).ref = DepsOf(id)[i].ref
      BY DEF Need, Item
    <3>4. Leads(e, DepsOf(id)[i])
      BY <3>2, <3>3 DEF Leads
    <3> QED BY <3>2, <3>3, <3>4
  <2> QED BY <2>1, <2>2 DEF ResolverInv, EdgesAreInside, IsPruned
<1>4. DirectIsControlled
  <2> SUFFICES ASSUME Succeeded, NEW k \in DOMAIN Direct, Direct[k].name \notin DOMAIN Local, ~Direct[k].optional
               PROVE  \E e \in ToSet(edges) :
                        /\ e.from = Direct[k].from
                        /\ Leads(e, [Direct[k] EXCEPT !.range =
                                       facts[Controller(facts, <<Direct[k].scope, Direct[k].name>>)].range])
    BY DEF DirectIsControlled
  <2>1. pc = "done" /\ ~Escaped /\ Required(k)
    BY DEF Succeeded, Escaped, Required
  <2>2. Served(Asked(k))
    BY <2>1 DEF ResolverInv, AsksAreServed, Pending
  <2>3. PICK c : c = Controller(facts, SlotKey(SharedFact(Direct[k])))
    OBVIOUS
  <2>4. PICK one \in DOMAIN facts : facts[one] = SharedFact(Direct[k])
    BY <2>1 DEF ResolverInv, AsksAreServed
  <2>5. SlotKey(SharedFact(Direct[k])) = <<Direct[k].scope, Direct[k].name>>
    BY DEF SlotKey, SharedFact
  <2>6. /\ DirectItem(k).slot = SlotKey(SharedFact(Direct[k])) /\ DirectItem(k).slot # NoSlot
        /\ [DirectItem(k) EXCEPT !.range = facts[c].range] =
             [name |-> Direct[k].name, range |-> facts[c].range, ref |-> Direct[k].ref, from |-> Direct[k].from,
              edge |-> Direct[k].edge, optional |-> Direct[k].optional, slot |-> <<Direct[k].scope, Direct[k].name>>]
    BY <2>1, <2>3, <2>4, AskedIs DEF ResolverInv, ResolverTypes
  <2>7. Asked(k) = [DirectItem(k) EXCEPT !.range = facts[c].range]
    BY <2>3, <2>6 DEF Asked, Controlled
  <2>8. PICK r : r = Asked(k)
    OBVIOUS
  <2>9. r.from = Direct[k].from /\ r.name = Direct[k].name /\ r.ref = Direct[k].ref /\ r.range = facts[c].range
    BY <2>6, <2>7, <2>8
  <2>10. PICK e \in ToSet(edges) : e.from = r.from /\ Leads(e, r)
    BY <2>2, <2>8 DEF Served
  <2>11. PICK d : d = [Direct[k] EXCEPT !.range = facts[c].range]
    OBVIOUS
  <2>12. d.name = Direct[k].name /\ d.ref = Direct[k].ref /\ d.range = facts[c].range
    BY <2>11
  <2>13. Leads(e, d)
    BY <2>9, <2>10, <2>12 DEF Leads
  <2> QED BY <2>3, <2>5, <2>9, <2>10, <2>11, <2>13
<1> QED BY <1>1, <1>2, <1>3, <1>4 DEF ResolutionIsSound

(* However many workers prepare a frontier and in whatever order they hand in,   *)
(* a registry is asked once for a package, and a lock that is given back without *)
(* an error is closed: every required dependency leads to the highest version    *)
(* its range admits, every direct one to what controls its slot, and everything  *)
(* is reached from a root (ResolveNPM).                                        *)
THEOREM ResolutionsAreSound == Spec => []ResolutionIsSound
<1>1. Spec => []ResolverInv
  <2>1. Init => ResolverInv
    BY ResolverInvInitially
  <2>2. ResolverInv /\ [Next]_vars => ResolverInv'
    BY ResolverInvIsKept
  <2> QED BY <2>1, <2>2, PTL DEF Spec
<1>2. ResolverInv => ResolutionIsSound
  BY ResolverInvIsSound
<1> QED BY <1>1, <1>2, PTL

-----------------------------------------------------------------------------
(* The peers.  The slot of a peer is one that nothing asks for directly, or    *)
(* what its edge leads to; the rounds go on until every peer that controls a  *)
(* slot is provided; and their number is no bound on them.                     *)
RequiredPeer(f) == f.kind = "peer" /\ ~f.optional
PeerRoot(name) == <<"peer", name, 0>>
DirectSlot(slot) == \E j \in DOMAIN facts : facts[j].kind # "peer" /\ SlotKey(facts[j]) = slot

(* A fact is about a peer of the workspace, or a direct dependency's.             *)
FactsAreKnown ==
  \A i \in DOMAIN facts :
    IF facts[i].kind = "peer" THEN facts[i].scope = 0
    ELSE \E k \in DOMAIN Direct : Required(k) /\ facts[i] = SharedFact(Direct[k])

PackagesArePublished == \A id \in packages : Registry(id) => VersionOf(id) # 0

(* Only requests for peers leave the environment of a peer, and only they and    *)
(* the direct ones select for a slot.                                         *)
FromEnvironment(r) ==
  stage = "peers" /\ r.from = PeerRoot(r.name) /\ r.slot = <<0, r.name>> /\ ~r.optional
Selects(r) ==
  \/ r.from[1] # "peer" /\ (r.slot = NoSlot \/ DirectSlot(r.slot))
  \/ FromEnvironment(r)

RequestsAreKnown ==
  /\ stage \in {"roots", "peers"}
  /\ pc = "enqueue" => stage = "roots" /\ DOMAIN slots = {}
  /\ pc \in {"enqueue", "frontier", "prepare", "commit"} => \A r \in frontier : Selects(r)
  /\ pc = "commit" => \A r \in committing : r.from[1] # "peer" /\ r.slot = NoSlot

Leaving == pc \in {"prune", "recompute", "finalize", "done"}

PeerEdge(e, slot) == slot = <<0, slot[2]>> /\ e.from = PeerRoot(slot[2]) /\ e.to = IdOf(slot[2], slots[slot])

SlotsHaveEdges ==
  ~Leaving =>
    /\ NoSlot \notin DOMAIN slots
    /\ \A s \in DOMAIN slots : DirectSlot(s) \/ \E e \in ToSet(edges) : PeerEdge(e, s)

(* A round that finds no new requirement provides what it was for.                *)
InRound == stage = "peers" /\ pc \in {"frontier", "prepare", "commit"}
Rounds ==
  /\ iteration \in Nat /\ before \in Nat
  /\ InRound =>
       /\ before <= Len(facts) /\ iteration <= before + 1
       /\ before = Len(facts) =>
            /\ \A r \in frontier : r.slot # NoSlot => \E i \in Controllers(facts) : r = PeerItem(facts[i])
            /\ Escaped \/ \A i \in Controllers(facts) : Unprovided(i) => Pending(PeerItem(facts[i]))
  /\ stage = "roots" \/ pc = "peers" => iteration <= Len(facts)
  /\ pc = "reconcile" => Errors # {} \/ \A i \in Controllers(facts) : ~Unprovided(i)

MetBy(e, f) == e.from = PeerRoot(f.name) /\ NameOf(e.to) = f.name /\ Admits(f.range, VersionOf(e.to))
Leave ==
  /\ Leaving => Errors # {} \/ \A i \in Controllers(facts) :
                                 RequiredPeer(facts[i]) => \E e \in ToSet(edges) : MetBy(e, facts[i])
  /\ pc = "finalize" => Errors # {} \/ slots = Recomputed(edges, packages)
  /\ pc = "done" => PeersAreAnswered

(* What is asked for directly is there, on its way, or reported, if only as a     *)
(* warning.                                                                   *)
Reported(k) == \E d \in diags : d.about = Direct[k].name
AnswersAreGiven ==
  pc # "enqueue" =>
    Escaped \/ \A k \in DOMAIN Direct : Required(k) => Served(Asked(k)) \/ Pending(Asked(k)) \/ Reported(k)

PeerInv ==
  /\ FactsAreKnown /\ PackagesArePublished /\ RequestsAreKnown /\ SlotsHaveEdges
  /\ Rounds /\ Leave /\ AnswersAreGiven

(* Two facts that control a slot are one.                                       *)
LEMMA OneController ==
  ASSUME NEW fs, FactsAre(fs), NEW i \in Controllers(fs), NEW j \in Controllers(fs), SlotKey(fs[i]) = SlotKey(fs[j])
  PROVE  i = j
<1> SUFFICES ASSUME i # j PROVE FALSE
  OBVIOUS
<1>1. i \in DOMAIN fs /\ j \in DOMAIN fs /\ Above(fs, i, j) /\ Above(fs, j, i)
  BY DEF Controllers, Controls
<1>2. /\ fs[i].kind \in Kinds /\ fs[j].kind \in Kinds /\ fs[i].optional \in BOOLEAN /\ fs[j].optional \in BOOLEAN
      /\ i \in Nat /\ j \in Nat
  BY <1>1 DEF FactsAre
<1> QED BY <1>1, <1>2 DEF Above, KindRank, Kinds

(* What is known of the facts, when a step adds only peers of the workspace.       *)
PeersAdded ==
  \/ facts' = facts
  \/ \E more : /\ FactsAre(more) /\ facts' = facts \o more
               /\ \A i \in DOMAIN more : more[i].kind = "peer" /\ more[i].scope = 0

LEMMA KnownStay ==
  ASSUME FactsAre(facts), FactsAreKnown, PeersAdded, manifest' = manifest
  PROVE  /\ FactsAreKnown' /\ Longer /\ Len(facts) <= Len(facts') /\ (Len(facts') = Len(facts) => facts' = facts)
         /\ \A slot : DirectSlot(slot) => DirectSlot(slot)'
         /\ Len(facts) \in Nat /\ Len(facts') \in Nat
<1>1. Longer
  BY DEF PeersAdded, Longer
<1>2. FactsAre(facts)' /\ \A j \in DOMAIN facts : j \in DOMAIN facts' /\ facts'[j] = facts[j]
  BY <1>1, FactsStay
<1>3. facts \in Seq(ToSet(facts)) /\ facts' \in Seq(ToSet(facts')) /\ Len(facts) \in Nat /\ Len(facts') \in Nat
      /\ DOMAIN facts = 1 .. Len(facts) /\ DOMAIN facts' = 1 .. Len(facts')
  BY <1>2 DEF FactsAre
<1>4. \A slot : DirectSlot(slot) => DirectSlot(slot)'
  BY <1>2 DEF DirectSlot
<1>5. \A k : Required(k)' = Required(k) /\ (Required(k) => SharedFact(Direct[k])' = SharedFact(Direct[k]))
  BY DEF Required, Direct
<1>6. CASE facts' = facts
  <2>1. FactsAreKnown'
    <3>1. Direct' = Direct
      BY DEF Direct
    <3> HIDE DEF Direct, Required
    <3> QED BY <1>5, <1>6, <3>1 DEF FactsAreKnown, Required
  <2> QED BY <1>1, <1>3, <1>4, <1>6, <2>1
<1>7. CASE facts' # facts
  <2>1. PICK more : /\ FactsAre(more) /\ facts' = facts \o more
                    /\ \A i \in DOMAIN more : more[i].kind = "peer" /\ more[i].scope = 0
    BY <1>7 DEF PeersAdded
  <2>2. more \in Seq(ToSet(more)) /\ Len(more) \in Nat /\ DOMAIN more = 1 .. Len(more)
    BY <2>1 DEF FactsAre
  <2>3. Len(facts') = Len(facts) + Len(more)
    BY <1>3, <2>1, <2>2
  <2>4. \A i \in 1 .. Len(facts) + Len(more) : facts'[i] = IF i <= Len(facts) THEN facts[i] ELSE more[i - Len(facts)]
    BY <1>3, <2>1, <2>2
  <2>5. Len(more) # 0
    <3> SUFFICES ASSUME Len(more) = 0 PROVE FALSE
      OBVIOUS
    <3>1. more = <<>>
      BY <2>2
    <3>2. facts \o <<>> = facts
      BY <1>3
    <3> QED BY <1>7, <2>1, <3>1, <3>2
  <2>6. ASSUME NEW i \in DOMAIN facts'
        PROVE  IF facts'[i].kind = "peer" THEN facts'[i].scope = 0
               ELSE \E k \in DOMAIN Direct : Required(k) /\ facts'[i] = SharedFact(Direct[k])
    <3>1. CASE i <= Len(facts)
      <4>1. i \in DOMAIN facts /\ facts'[i] = facts[i]
        BY <1>2, <1>3, <3>1
      <4> QED BY <4>1 DEF FactsAreKnown
    <3>2. CASE i > Len(facts)
      <4>1. i - Len(facts) \in DOMAIN more /\ facts'[i] = more[i - Len(facts)]
        BY <1>3, <2>2, <2>3, <2>4, <3>2
      <4> QED BY <2>1, <4>1
    <3> QED BY <1>3, <3>1, <3>2
  <2>7. FactsAreKnown'
    BY <2>6 DEF FactsAreKnown, Required, Direct
  <2>8. Len(facts) <= Len(facts') /\ Len(facts') # Len(facts)
    <3> PICK a, b, c : a = Len(facts) /\ b = Len(more) /\ c = Len(facts')
      OBVIOUS
    <3> QED BY <1>3, <2>2, <2>3, <2>5
  <2> QED BY <1>1, <1>3, <1>4, <2>7, <2>8
<1> QED BY <1>6, <1>7

LEMMA AskedName ==
  ASSUME ResolverInv, pc # "enqueue", NEW k, Required(k)
  PROVE  Asked(k).name = Direct[k].name /\ Asked(k).from[1] = "root" /\ Asked(k).slot # NoSlot
<1>1. FactsAre(facts) /\ manifest \in Manifests
  BY DEF ResolverInv, ResolverTypes
<1>2. PICK one \in DOMAIN facts : facts[one] = SharedFact(Direct[k])
  BY DEF ResolverInv, AsksAreServed, Required
<1>3. PICK c : c = Controller(facts, SlotKey(SharedFact(Direct[k])))
  OBVIOUS
<1>4. /\ DirectItem(k).slot = SlotKey(SharedFact(Direct[k])) /\ DirectItem(k).slot # NoSlot /\ Direct[k].from[1] = "root"
      /\ [DirectItem(k) EXCEPT !.range = facts[c].range] =
              [name |-> Direct[k].name, range |-> facts[c].range, ref |-> Direct[k].ref, from |-> Direct[k].from,
               edge |-> Direct[k].edge, optional |-> Direct[k].optional, slot |-> <<Direct[k].scope, Direct[k].name>>]
  BY <1>1, <1>2, <1>3, AskedIs
<1>5. Asked(k) = [DirectItem(k) EXCEPT !.range = facts[c].range]
  BY <1>3, <1>4 DEF Asked, Controlled
<1>6. <<Direct[k].scope, Direct[k].name>> # NoSlot
  BY DEF NoSlot
<1> HIDE DEF NoSlot
<1> QED BY <1>4, <1>5, <1>6

LEMMA AnswersStay ==
  ASSUME ResolverInv, AnswersAreGiven, pc # "enqueue", pc' # "enqueue", manifest' = manifest, Longer,
         Escaped => Escaped', diags \subseteq diags',
         \/ Escaped'
         \/ \A r : r.from[1] = "root" /\ (Served(r) \/ Pending(r))
                     => Served(r)' \/ Pending(r)' \/ \E d \in diags' : d.about = r.name
  PROVE  AnswersAreGiven'
<1> SUFFICES ASSUME ~Escaped', NEW k, Required(k)'
             PROVE  Served(Asked(k))' \/ Pending(Asked(k))' \/ Reported(k)'
  BY DEF AnswersAreGiven
<1>1. Direct' = Direct /\ Required(k) /\ k \in DOMAIN Direct
  BY DEF Direct, Required
<1>2. Asked(k)' = Asked(k)
  BY <1>1, AskedStays
<1>3. Asked(k).name = Direct[k].name /\ Asked(k).from[1] = "root"
  BY <1>1, AskedName
<1>4. Served(Asked(k)) \/ Pending(Asked(k)) \/ Reported(k)
  BY <1>1 DEF AnswersAreGiven
<1>5. CASE Reported(k)
  BY <1>1, <1>5 DEF Reported
<1>6. CASE ~Reported(k)
  <2> PICK r : r = Asked(k)
    OBVIOUS
  <2>1. Served(r)' \/ Pending(r)' \/ \E d \in diags' : d.about = r.name
    BY <1>3, <1>4, <1>6
  <2>2. r = Asked(k)'
    BY <1>2
  <2> QED BY <1>1, <1>3, <2>1, <2>2 DEF Reported
<1> QED BY <1>5, <1>6

(* A step that changes nothing of the lock or of the flow.                        *)
LEMMA PeersAtRest ==
  ASSUME ResolverInv, PeerInv, UNCHANGED <<manifest, lock, flow>>, pc = "commit" => UNCHANGED <<groups, next, results>>
  PROVE  PeerInv'
<1>1. /\ UNCHANGED <<manifest, packages, edges, facts, recorded, slots, diags, tape>>
      /\ UNCHANGED <<pc, stage, frontier, committing, fatal, iteration, before>>
  BY DEF lock, flow
<1>2. \A k : (Required(k)' <=> Required(k)) /\ DirectItem(k)' = DirectItem(k) /\ SharedFact(Direct[k])' = SharedFact(Direct[k])
  BY <1>1 DEF Required, Direct, DirectItem, SharedFact, Item
<1>3. Direct' = Direct /\ Errors' = Errors /\ \A k : Asked(k)' = Asked(k) /\ Reported(k)' = Reported(k)
  BY <1>1, <1>2 DEF Direct, Errors, Asked, Controlled, Reported
<1>4. Escaped' = Escaped
  BY <1>1, <1>3 DEF Escaped, WillFail, Fails, HasRequired, Requests
<1>5. \A r : Served(r)' = Served(r) /\ Pending(r)' = Pending(r) /\ Selects(r)' = Selects(r)
  BY <1>1 DEF Served, Leads, Pending, Selects, FromEnvironment, DirectSlot
<1>6. FactsAreKnown' /\ PackagesArePublished' /\ RequestsAreKnown' /\ SlotsHaveEdges'
  <2>1. FactsAreKnown'
    BY <1>1, <1>2, <1>3 DEF PeerInv, FactsAreKnown
  <2>2. RequestsAreKnown'
    BY <1>1, <1>5 DEF PeerInv, RequestsAreKnown
  <2> QED BY <1>1, <2>1, <2>2 DEF PeerInv, PackagesArePublished, SlotsHaveEdges, Leaving, DirectSlot, PeerEdge
<1>7. Rounds'
  <2>1. \A i : Unprovided(i)' = Unprovided(i)
    BY <1>1 DEF Unprovided
  <2> HIDE DEF Escaped, Pending, Unprovided
  <2> QED BY <1>1, <1>3, <1>4, <1>5, <2>1 DEF PeerInv, Rounds, InRound
<1>8. Leave'
  <2>1. PeersAreAnswered' = PeersAreAnswered
    BY <1>1 DEF PeersAreAnswered, Succeeded, Errors
  <2>2. Recomputed(edges, packages)' = Recomputed(edges, packages)
    BY <1>1 DEF Recomputed, RootEdges, KnownSlots
  <2> HIDE DEF PeersAreAnswered, Recomputed
  <2> QED BY <1>1, <1>3, <2>1, <2>2 DEF PeerInv, Leave, Leaving
<1>9. AnswersAreGiven'
  <2> HIDE DEF Escaped, Pending, Served, Asked, Reported, Required
  <2> QED BY <1>1, <1>2, <1>3, <1>4, <1>5 DEF PeerInv, AnswersAreGiven
<1> QED BY <1>6, <1>7, <1>8, <1>9 DEF PeerInv
(* A step of a frontier that changes nothing of the lock but its reports.          *)
LEMMA PeersInRound ==
  ASSUME ResolverInv, PeerInv, UNCHANGED <<manifest, packages, edges, facts, slots, stage, iteration, before>>,
         pc \in {"frontier", "prepare", "commit"}, pc' \in {"frontier", "prepare", "commit"},
         \A r \in frontier' : r \in frontier \/ (r.from[1] # "peer" /\ r.slot = NoSlot),
         pc' = "commit" => \A r \in committing' : r.from[1] # "peer" /\ r.slot = NoSlot,
         diags \subseteq diags', Escaped => Escaped',
         \/ Escaped'
         \/ \A r : Pending(r) => Pending(r)' \/ (r.optional /\ \E d \in diags' : d.about = r.name)
  PROVE  PeerInv'
<1>1. FactsAre(facts)
  BY DEF ResolverInv, ResolverTypes
<1>2. FactsAreKnown' /\ Longer /\ \A slot : DirectSlot(slot)' = DirectSlot(slot)
  BY <1>1, KnownStay DEF PeersAdded, PeerInv, DirectSlot
<1>3. PackagesArePublished' /\ SlotsHaveEdges'
  BY <1>2 DEF PeerInv, PackagesArePublished, SlotsHaveEdges, Leaving, PeerEdge
<1>4. RequestsAreKnown'
  <2>1. \A r : Selects(r)' = Selects(r)
    BY <1>2 DEF Selects, FromEnvironment
  <2>2. \A r \in frontier' : Selects(r)
    <3>1. \A r \in frontier : Selects(r)
      BY DEF PeerInv, RequestsAreKnown
    <3> QED BY <3>1 DEF Selects
  <2> HIDE DEF Selects
  <2> QED BY <2>1, <2>2 DEF PeerInv, RequestsAreKnown
<1>5. Rounds'
  <2>1. \A i : (Unprovided(i)' <=> Unprovided(i)) /\ Controllers(facts)' = Controllers(facts)
    BY DEF Unprovided
  <2>2. ASSUME stage = "peers", before = Len(facts)
        PROVE  /\ \A r \in frontier' : r.slot # NoSlot => \E i \in Controllers(facts) : r = PeerItem(facts[i])
               /\ Escaped' \/ \A i \in Controllers(facts) : Unprovided(i) => Pending(PeerItem(facts[i]))'
    <3>1. InRound
      BY <2>2 DEF InRound
    <3>2. \A r \in frontier : r.slot # NoSlot => \E i \in Controllers(facts) : r = PeerItem(facts[i])
      BY <2>2, <3>1 DEF PeerInv, Rounds
    <3>3. Escaped \/ \A i \in Controllers(facts) : Unprovided(i) => Pending(PeerItem(facts[i]))
      BY <2>2, <3>1 DEF PeerInv, Rounds
    <3>4. ASSUME ~Escaped', NEW i \in Controllers(facts), Unprovided(i) PROVE Pending(PeerItem(facts[i]))'
      <4>1. PICK r : r = PeerItem(facts[i])
        OBVIOUS
      <4>2. ~r.optional /\ Pending(r)
        BY <3>3, <3>4, <4>1 DEF PeerItem
      <4>3. Pending(r)'
        BY <3>4, <4>2
      <4> QED BY <4>1, <4>3
    <3> QED BY <3>2, <3>4
  <2>3. InRound' = (stage = "peers") /\ (stage = "peers" => InRound)
    BY DEF InRound
  <2> HIDE DEF Escaped, Pending, Unprovided
  <2> QED BY <2>1, <2>2, <2>3 DEF PeerInv, Rounds
<1>6. Leave'
  BY DEF Leave, Leaving
<1>7. AnswersAreGiven'
  <2>1. \A r : Served(r) => Served(r)'
    BY DEF Served, Leads
  <2>2. Escaped' \/ \A r : r.from[1] = "root" /\ (Served(r) \/ Pending(r))
                     => Served(r)' \/ Pending(r)' \/ \E d \in diags' : d.about = r.name
    BY <2>1
  <2> HIDE DEF Escaped, Pending, Served
  <2> QED BY <1>2, <2>2, AnswersStay DEF PeerInv
<1> QED BY <1>2, <1>3, <1>4, <1>5, <1>6, <1>7 DEF PeerInv

LEMMA PrepareGroupsKeepsPeers == ASSUME ResolverInv, PeerInv, PrepareGroups PROVE PeerInv'
<1>1. /\ pc = "frontier" /\ pc' = "prepare" /\ UNCHANGED <<frontier, committing>>
      /\ UNCHANGED <<manifest, packages, edges, facts, slots, stage, iteration, before, diags>>
  BY DEF PrepareGroups, lock
<1>2. (Escaped => Escaped') /\ \A r : Pending(r) => Pending(r)'
  BY <1>1 DEF Escaped, Errors, Pending
<1> QED BY <1>1, <1>2, PeersInRound

LEMMA BeginCommitKeepsPeers == ASSUME ResolverInv, PeerInv, BeginCommit PROVE PeerInv'
<1>1. /\ pc = "prepare" /\ pc' = "commit" /\ next' = 1 /\ committing' = {} /\ UNCHANGED <<frontier, groups>>
      /\ UNCHANGED <<manifest, packages, edges, facts, slots, stage, iteration, before, diags>>
  BY DEF BeginCommit, lock
<1>2. Lists(groups, AllGroups) /\ DOMAIN groups = 1 .. Len(groups)
  BY <1>1 DEF ResolverInv, Grouped, Lists
<1>3. ASSUME NEW r, Pending(r) PROVE Pending(r)'
  <2>1. r \in frontier /\ GroupOf(r) \in AllGroups
    BY <1>1, <1>3 DEF Pending, AllGroups
  <2>2. PICK k \in DOMAIN groups : groups[k] = GroupOf(r)
    BY <1>2, <2>1 DEF Lists
  <2> QED BY <1>1, <1>2, <2>1, <2>2 DEF Pending
<1>4. Escaped => Escaped'
  BY <1>1 DEF Escaped, Errors
<1>5. \A r \in committing' : r.from[1] # "peer" /\ r.slot = NoSlot
  BY <1>1
<1> QED BY <1>1, <1>3, <1>4, <1>5, PeersInRound

(* A request of another group than the one whose turn it is stays where it is.       *)
LEMMA PendingAfterTurn ==
  ASSUME ResolverInv, Committing, pc' = "commit", NextGroup, UNCHANGED <<groups, frontier>>,
         committing \subseteq committing', NEW r, Pending(r), r \notin Requests(Turn)
  PROVE  Pending(r)'
<1>1. pc = "commit" /\ next' = next + 1 /\ next \in Nat \ {0} /\ DOMAIN groups = 1 .. Len(groups)
  BY DEF ResolverInv, ResolverTypes, Grouped, Lists, Committing, NextGroup
<1>2. CASE r \in committing
  BY <1>2 DEF Pending
<1>3. CASE r \in frontier /\ \E k \in DOMAIN groups : k >= next /\ groups[k] = GroupOf(r)
  <2>1. PICK k \in DOMAIN groups : k >= next /\ groups[k] = GroupOf(r)
    BY <1>3
  <2>2. k # next
    BY <1>3, <2>1 DEF Requests, Turn
  <2>3. k >= next'
    BY <1>1, <2>1, <2>2
  <2> QED BY <1>3, <2>1, <2>3 DEF Pending
<1> QED BY <1>1, <1>2, <1>3 DEF Pending

LEMMA PassOverKeepsPeers == ASSUME ResolverInv, PeerInv, PassOver PROVE PeerInv'
<1>1. /\ Committing /\ NextGroup /\ Turn \notin DOMAIN results /\ pc' = "commit" /\ pc = "commit" /\ next <= Len(groups)
      /\ UNCHANGED <<manifest, packages, edges, facts, slots, stage, iteration, before, diags, groups, results, frontier, committing>>
  BY DEF PassOver, lock, flow, Committing
<1>2. Escaped
  <2>1. next \in DOMAIN groups
    BY <1>1 DEF ResolverInv, ResolverTypes, Grouped, Lists
  <2>2. stopped
    BY <1>1, <2>1 DEF ResolverInv, Settled, Turn
  <2> QED BY <1>1, <2>2 DEF ResolverInv, Settled
<1>3. Escaped'
  <2>1. ~Fails(Turn) /\ Errors' = Errors
    BY <1>1 DEF Fails, Errors
  <2> QED BY <1>1, <1>2, <2>1, StillAhead
<1>4. \A r \in committing' : r.from[1] # "peer" /\ r.slot = NoSlot
  BY <1>1 DEF PeerInv, RequestsAreKnown
<1> HIDE DEF Escaped
<1> QED BY <1>1, <1>3, <1>4, PeersInRound

LEMMA CommitFailureKeepsPeers == ASSUME ResolverInv, PeerInv, CommitFailure PROVE PeerInv'
<1>1. /\ Committing /\ NextGroup /\ Turn \in DOMAIN results /\ results[Turn].kind = "failure"
      /\ pc' = "commit" /\ pc = "commit"
      /\ diags' = diags \cup {Diagnostic(results[Turn].code, r.optional, Turn[1]) : r \in Requests(Turn)}
      /\ UNCHANGED <<manifest, packages, edges, facts, slots, stage, iteration, before, groups, results, frontier, committing>>
  BY DEF CommitFailure, Committing
<1>2. Errors \subseteq Errors' /\ diags \subseteq diags'
  BY <1>1 DEF Errors
<1>3. HasRequired(Turn) => Errors' # {}
  <2> SUFFICES ASSUME NEW r \in Requests(Turn), ~r.optional PROVE Errors' # {}
    BY DEF HasRequired
  <2>1. Diagnostic(results[Turn].code, r.optional, Turn[1]) \in diags'
    BY <1>1
  <2>2. Diagnostic(results[Turn].code, r.optional, Turn[1]).severity = "error"
    BY DEF Diagnostic
  <2> QED BY <2>1, <2>2 DEF Errors
<1>4. Escaped => Escaped'
  BY <1>1, <1>2, <1>3, StillAhead DEF Fails
<1>5. \A r \in committing' : r.from[1] # "peer" /\ r.slot = NoSlot
  BY <1>1 DEF PeerInv, RequestsAreKnown
<1>6. ASSUME ~Escaped', NEW r, Pending(r) PROVE Pending(r)' \/ (r.optional /\ \E d \in diags' : d.about = r.name)
  <2>1. CASE r \in Requests(Turn)
    <3>1. Errors' = {}
      BY <1>6 DEF Escaped
    <3>2. r.optional
      BY <1>3, <2>1, <3>1 DEF HasRequired
    <3>3. r.name = Turn[1]
      BY <2>1 DEF Requests, GroupOf
    <3>4. Diagnostic(results[Turn].code, r.optional, Turn[1]) \in diags'
      BY <1>1, <2>1
    <3>5. Diagnostic(results[Turn].code, r.optional, Turn[1]).about = r.name
      BY <3>3 DEF Diagnostic
    <3> QED BY <3>2, <3>4, <3>5
  <2>2. CASE r \notin Requests(Turn)
    BY <1>1, <1>6, <2>2, PendingAfterTurn
  <2> QED BY <2>1, <2>2
<1> HIDE DEF Escaped, Pending
<1> QED BY <1>1, <1>2, <1>4, <1>5, <1>6, PeersInRound
(* Where the frontiers end.                                                     *)
LEMMA PeersAfterFrontiers ==
  ASSUME ResolverInv, PeerInv, pc \in {"frontier", "commit"}, NEW broken \in BOOLEAN, EndOfFrontiers(broken),
         broken => Errors' # {}, UNCHANGED <<manifest, packages, edges, facts, slots, stage, iteration, before>>,
         diags \subseteq diags', Escaped => Errors' # {}, Errors' # {} \/ \A r : ~Pending(r)
  PROVE  PeerInv'
<1>1. /\ stage \in {"roots", "peers"}
      /\ stage = "roots" => pc' = IF Errors' # {} THEN "finalize" ELSE "peers"
      /\ stage = "peers" => pc' = IF broken \/ before = Len(facts) THEN "reconcile" ELSE "peers"
  BY DEF PeerInv, RequestsAreKnown, EndOfFrontiers, Errors
<1>2. FactsAre(facts)
  BY DEF ResolverInv, ResolverTypes
<1>3. FactsAreKnown' /\ Longer /\ (\A slot : DirectSlot(slot)' = DirectSlot(slot)) /\ Len(facts) \in Nat
  BY <1>2, KnownStay DEF PeersAdded, PeerInv, DirectSlot
<1>4. PackagesArePublished' /\ RequestsAreKnown' /\ SlotsHaveEdges'
  BY <1>1, <1>3 DEF PeerInv, PackagesArePublished, RequestsAreKnown, SlotsHaveEdges, Leaving, PeerEdge
<1>5. Rounds'
  <2>1. iteration \in Nat /\ before \in Nat /\ ~InRound' /\ (stage = "roots" => iteration <= Len(facts))
    BY <1>1 DEF PeerInv, Rounds, InRound
  <2>2. ASSUME pc' = "peers", stage = "peers" PROVE iteration <= Len(facts)
    <3>1. before # Len(facts) /\ before <= Len(facts) /\ iteration <= before + 1
      BY <1>1, <2>2 DEF PeerInv, Rounds, InRound
    <3> QED BY <1>3, <2>1, <3>1
  <2>3. ASSUME pc' = "reconcile", Errors' = {}, NEW i \in Controllers(facts) PROVE ~Unprovided(i)
    <3>1. stage = "peers" /\ ~broken /\ before = Len(facts)
      BY <1>1, <2>3
    <3>2. Escaped \/ (Unprovided(i) => Pending(PeerItem(facts[i])))
      BY <3>1 DEF PeerInv, Rounds, InRound
    <3> HIDE DEF Escaped, Pending, Unprovided
    <3> QED BY <2>3, <3>2
  <2>4. \A i : Unprovided(i)' = Unprovided(i)
    BY DEF Unprovided
  <2> HIDE DEF Unprovided
  <2> QED BY <1>1, <1>3, <2>1, <2>2, <2>3, <2>4 DEF Rounds
<1>6. Leave'
  BY <1>1 DEF Leave, Leaving
<1>7. AnswersAreGiven'
  <2>1. \A r : Served(r) => Served(r)'
    BY DEF Served, Leads
  <2>2. (Escaped => Escaped') /\ (Errors' # {} => Escaped')
    BY DEF Escaped
  <2>3. pc # "enqueue" /\ pc' # "enqueue"
    BY <1>1
  <2> HIDE DEF Escaped, Pending, Served
  <2> QED BY <1>3, <2>1, <2>2, <2>3, AnswersStay DEF PeerInv
<1> QED BY <1>3, <1>4, <1>5, <1>6, <1>7 DEF PeerInv

LEMMA RefuseFrontierKeepsPeers == ASSUME ResolverInv, PeerInv, RefuseFrontier PROVE PeerInv'
<1>1. /\ pc = "frontier" /\ EndOfFrontiers(TRUE)
      /\ UNCHANGED <<manifest, packages, edges, facts, slots, stage, iteration, before>>
  BY DEF RefuseFrontier
<1>2. PICK r : diags' = diags \cup {Diagnostic("SOURCE_POLICY_DENIED", FALSE, r.name)}
  BY DEF RefuseFrontier
<1>3. Errors' # {}
  <2>1. Diagnostic("SOURCE_POLICY_DENIED", FALSE, r.name).severity = "error"
    BY DEF Diagnostic
  <2> QED BY <1>2, <2>1 DEF Errors
<1>4. diags \subseteq diags'
  BY <1>2
<1> QED BY <1>1, <1>3, <1>4, PeersAfterFrontiers

LEMMA LeaveFrontiersKeepsPeers == ASSUME ResolverInv, PeerInv, LeaveFrontiers PROVE PeerInv'
<1>1. /\ pc = "frontier" /\ frontier = {} /\ EndOfFrontiers(FALSE) /\ diags' = diags
      /\ UNCHANGED <<manifest, packages, edges, facts, slots, stage, iteration, before>>
  BY DEF LeaveFrontiers
<1>2. (Escaped => Errors' # {}) /\ \A r : ~Pending(r)
  BY <1>1 DEF Escaped, Errors, Pending
<1> QED BY <1>1, <1>2, PeersAfterFrontiers

LEMMA EndCommitKeepsPeers == ASSUME ResolverInv, PeerInv, EndCommit PROVE PeerInv'
<1>1. /\ pc = "commit" /\ next > Len(groups) /\ frontier' = committing /\ diags' = diags
      /\ UNCHANGED <<manifest, packages, edges, facts, slots, stage, iteration, before>>
      /\ IF fatal THEN EndOfFrontiers(TRUE) ELSE pc' = "frontier"
  BY DEF EndCommit
<1>2. next \in Nat \ {0} /\ DOMAIN groups = 1 .. Len(groups) /\ Len(groups) \in Nat
  BY <1>1 DEF ResolverInv, ResolverTypes, Grouped, Lists
<1>3. ~WillFail /\ (Escaped => Errors # {}) /\ \A r : Pending(r) => r \in committing
  <2>1. \A k \in DOMAIN groups : ~(k >= next)
    BY <1>1, <1>2
  <2> QED BY <1>1, <2>1 DEF WillFail, Escaped, Pending
<1>4. (fatal => Errors # {}) /\ Errors' = Errors
  BY <1>1 DEF ResolverInv, Settled, Errors
<1>5. CASE fatal
  <2>1. EndOfFrontiers(TRUE) /\ Errors' # {}
    BY <1>1, <1>4, <1>5
  <2> QED BY <1>1, <2>1, PeersAfterFrontiers
<1>6. CASE ~fatal
  <2>1. pc' = "frontier" /\ (\A r : Pending(r) => Pending(r)') /\ (Escaped => Escaped')
    BY <1>1, <1>3, <1>4, <1>6 DEF Pending, Escaped
  <2>2. \A r \in frontier' : r.from[1] # "peer" /\ r.slot = NoSlot
    BY <1>1 DEF PeerInv, RequestsAreKnown
  <2> HIDE DEF Escaped, Pending
  <2> QED BY <1>1, <2>1, <2>2, PeersInRound
<1> QED BY <1>5, <1>6

-----------------------------------------------------------------------------
(* The rounds.                                                                *)
LEMMA PeerSlot ==
  ASSUME ResolverInv, PeerInv, NEW i \in DOMAIN facts, facts[i].kind = "peer"
  PROVE  SlotKey(facts[i]) = <<0, facts[i].name>> /\ facts[i].name \in Names
<1>1. facts[i].scope = 0 /\ facts[i].name \in Names
  BY DEF PeerInv, FactsAreKnown, ResolverInv, ResolverTypes, FactsAre
<1> QED BY <1>1 DEF SlotKey

(* The steps after the frontiers, of what is not about the slots.                   *)
LEMMA PeersAfterwards ==
  ASSUME ResolverInv, PeerInv, pc \notin {"enqueue", "frontier", "prepare", "commit"},
         pc' \notin {"enqueue", "commit"}, UNCHANGED <<manifest, facts>>, packages' \subseteq packages, diags \subseteq diags',
         stage' \in {"roots", "peers"}, pc' \in {"frontier", "prepare"} => \A r \in frontier' : FromEnvironment(r)',
         \A r : r.from[1] = "root" /\ Served(r) => Served(r)',
         SlotsHaveEdges', Rounds', Leave'
  PROVE  PeerInv'
<1>1. FactsAre(facts)
  BY DEF ResolverInv, ResolverTypes
<1>2. FactsAreKnown' /\ Longer
  BY <1>1, KnownStay DEF PeersAdded, PeerInv
<1>3. PackagesArePublished'
  BY DEF PeerInv, PackagesArePublished
<1>4. RequestsAreKnown'
  BY DEF RequestsAreKnown, Selects
<1>5. AnswersAreGiven'
  <2>1. (\A r : ~Pending(r)) /\ (Escaped => Escaped')
    BY DEF Pending, Escaped, Errors
  <2> HIDE DEF Escaped, Pending, Served
  <2> QED BY <1>2, <2>1, AnswersStay DEF PeerInv
<1> QED BY <1>2, <1>3, <1>4, <1>5 DEF PeerInv

LEMMA ResolvePeersKeepsPeers == ASSUME ResolverInv, PeerInv, ResolvePeers PROVE PeerInv'
<1>1. /\ pc = "peers" /\ pc' = "frontier" /\ frontier' = Wanted /\ stage' = "peers"
      /\ iteration' = iteration + 1 /\ before' = Len(facts)
      /\ UNCHANGED <<manifest, packages, edges, facts, slots, diags>>
  BY DEF ResolvePeers, lock
<1>2. FactsAre(facts) /\ Len(facts) \in Nat
  BY DEF ResolverInv, ResolverTypes, FactsAre
<1>3. ASSUME NEW r \in frontier' PROVE \E i \in Controllers(facts) : Unprovided(i) /\ r = PeerItem(facts[i])
  BY <1>1, <1>3 DEF Wanted
<1>4. ASSUME NEW r \in frontier' PROVE FromEnvironment(r)'
  <2>1. PICK i \in Controllers(facts) : Unprovided(i) /\ r = PeerItem(facts[i])
    BY <1>3
  <2>2. i \in DOMAIN facts /\ facts[i].kind = "peer"
    BY <2>1 DEF Controllers, Unprovided
  <2>3. SlotKey(facts[i]) = <<0, facts[i].name>>
    BY <2>2, PeerSlot
  <2>4. r.name = facts[i].name /\ r.from = <<"peer", facts[i].name, 0>> /\ r.slot = SlotKey(facts[i]) /\ r.optional = FALSE
    BY <2>1 DEF PeerItem
  <2> QED BY <1>1, <2>3, <2>4 DEF FromEnvironment, PeerRoot
<1>5. Rounds'
  <2>1. iteration \in Nat /\ iteration <= Len(facts)
    BY <1>1 DEF PeerInv, Rounds
  <2>2. \A i \in Controllers(facts) : Unprovided(i)' = Unprovided(i) /\ Controllers(facts)' = Controllers(facts)
    BY <1>1 DEF Unprovided
  <2>3. ASSUME NEW i \in Controllers(facts), Unprovided(i) PROVE Pending(PeerItem(facts[i]))'
    <3>1. PeerItem(facts[i]) \in Wanted
      BY <2>3 DEF Wanted
    <3> QED BY <1>1, <3>1 DEF Pending
  <2>4. \A r \in frontier' : \E i \in Controllers(facts) : r = PeerItem(facts[i])
    BY <1>3
  <2> HIDE DEF Unprovided, Pending
  <2> QED BY <1>1, <1>2, <2>1, <2>2, <2>3, <2>4 DEF Rounds
<1>6. SlotsHaveEdges' /\ Leave'
  BY <1>1 DEF PeerInv, SlotsHaveEdges, Leaving, DirectSlot, PeerEdge, Leave
<1>7. \A r : Served(r) => Served(r)'
  BY <1>1 DEF Served, Leads
<1> HIDE DEF Served
<1> QED BY <1>1, <1>4, <1>5, <1>6, <1>7, PeersAfterwards

LEMMA PeersSettledKeepsPeers == ASSUME ResolverInv, PeerInv, PeersSettled PROVE PeerInv'
<1>1. /\ pc = "peers" /\ pc' = "reconcile" /\ (Wanted = {} \/ iteration > Len(facts) + 1)
      /\ UNCHANGED <<manifest, packages, edges, facts, slots, diags, stage, iteration, before>>
  BY DEF PeersSettled, lock
<1>2. Len(facts) \in Nat /\ iteration \in Nat /\ before \in Nat /\ iteration <= Len(facts)
  BY <1>1 DEF ResolverInv, ResolverTypes, FactsAre, PeerInv, Rounds
<1>3. Wanted = {}
  BY <1>1, <1>2
<1>4. \A i \in Controllers(facts) : ~Unprovided(i)
  BY <1>3 DEF Wanted
<1>5. Rounds'
  <2>1. \A i \in Controllers(facts) : Unprovided(i)' = Unprovided(i) /\ Controllers(facts)' = Controllers(facts)
    BY <1>1 DEF Unprovided
  <2> HIDE DEF Unprovided
  <2> QED BY <1>1, <1>2, <1>4, <2>1 DEF Rounds, InRound
<1>6. SlotsHaveEdges' /\ Leave' /\ stage' \in {"roots", "peers"}
  BY <1>1 DEF PeerInv, SlotsHaveEdges, Leaving, DirectSlot, PeerEdge, Leave, RequestsAreKnown
<1>7. \A r : Served(r) => Served(r)'
  BY <1>1 DEF Served, Leads
<1> HIDE DEF Served
<1> QED BY <1>1, <1>5, <1>6, <1>7, PeersAfterwards

(* The bound on the rounds is none: they end because one finds nothing new.          *)
LEMMA RoundsAfterwards ==
  ASSUME ResolverInv, PeerInv, pc' \in {"prune", "recompute", "finalize", "done"},
         pc \in {"reconcile", "prune", "recompute", "finalize"},
         UNCHANGED <<facts, stage, iteration, before>>
  PROVE  Rounds' /\ SlotsHaveEdges' /\ stage' \in {"roots", "peers"}
BY DEF PeerInv, Rounds, InRound, SlotsHaveEdges, Leaving, RequestsAreKnown

LEMMA ReconcileKeepsPeers == ASSUME ResolverInv, PeerInv, Reconcile PROVE PeerInv'
<1>1. /\ pc = "reconcile" /\ pc' = "prune"
      /\ edges' = Only(edges, {e \in ToSet(edges) : StillWanted(e)})
      /\ UNCHANGED <<manifest, packages, facts, slots, diags, stage, iteration, before>>
  BY DEF Reconcile
<1>2. edges \in Seq(ToSet(edges)) /\ FactsAre(facts)
  BY DEF ResolverInv, ResolverTypes
<1>3. ToSet(edges') = ToSet(edges) \cap {e \in ToSet(edges) : StillWanted(e)}
  BY <1>1, <1>2, OnlyKeeps
<1>4. \A e \in ToSet(edges) : e.from[1] # "peer" => e \in ToSet(edges')
  BY <1>3 DEF StillWanted
<1>5. ASSUME NEW r, r.from[1] = "root", Served(r) PROVE Served(r)'
  <2>1. PICK e \in ToSet(edges) : e.from = r.from /\ Leads(e, r)
    BY <1>5 DEF Served
  <2>2. e \in ToSet(edges') /\ Leads(e, r)'
    BY <1>1, <1>4, <1>5, <2>1 DEF Leads
  <2> QED BY <2>1, <2>2 DEF Served
<1>6. ASSUME Errors = {}, NEW i \in Controllers(facts), RequiredPeer(facts[i])
      PROVE  \E e \in ToSet(edges') : MetBy(e, facts[i])
  <2>1. i \in DOMAIN facts /\ facts[i].kind = "peer" /\ ~facts[i].optional /\ Controls(facts, i)
    BY <1>6 DEF RequiredPeer, Controllers
  <2> PICK s : s = SlotKey(facts[i])
    OBVIOUS
  <2>2. s = <<0, facts[i].name>> /\ facts[i].name \in Names
    BY <2>1, PeerSlot
  <2>3. ~Unprovided(i)
    BY <1>1, <1>6 DEF PeerInv, Rounds
  <2>4. Admits(facts[i].range, SelectedIn(slots, s))
    BY <2>1, <2>3 DEF Unprovided
  <2>5. s \in DOMAIN slots /\ Admits(facts[i].range, slots[s])
    BY <2>4 DEF SelectedIn, Admits
  <2>6. ~DirectSlot(s)
    <3> SUFFICES ASSUME NEW j \in DOMAIN facts, facts[j].kind # "peer", SlotKey(facts[j]) = s PROVE FALSE
      BY DEF DirectSlot
    <3>1. Above(facts, i, j)
      BY <2>1 DEF Controls
    <3>2. facts[j].kind \in Kinds
      BY <1>2 DEF FactsAre
    <3> QED BY <2>1, <3>1, <3>2 DEF Above, KindRank, Kinds
  <2>7. PICK e \in ToSet(edges) : PeerEdge(e, s)
    BY <1>1, <2>5, <2>6 DEF PeerInv, SlotsHaveEdges, Leaving
  <2>8. e.from = PeerRoot(facts[i].name) /\ e.to = IdOf(facts[i].name, slots[s])
    BY <2>2, <2>7 DEF PeerEdge
  <2>9. NameOf(e.to) = facts[i].name /\ VersionOf(e.to) = slots[s]
    BY <2>8 DEF NameOf, VersionOf, IdOf
  <2>10. e.to \in packages
    BY DEF ResolverInv, EdgesAreInside
  <2>11. StillWanted(e)
    BY <2>1, <2>2, <2>5, <2>9, <2>10 DEF StillWanted
  <2>12. e \in ToSet(edges')
    BY <1>3, <2>11
  <2> QED BY <2>5, <2>8, <2>9, <2>12 DEF MetBy
<1>7. Leave'
  <2>1. Errors' = Errors
    BY <1>1 DEF Errors
  <2> QED BY <1>1, <1>6, <2>1 DEF Leave
<1>8. Rounds' /\ SlotsHaveEdges' /\ stage' \in {"roots", "peers"}
  BY <1>1, RoundsAfterwards
<1> HIDE DEF Served
<1> QED BY <1>1, <1>5, <1>7, <1>8, PeersAfterwards

LEMMA PruneKeepsPeers == ASSUME ResolverInv, PeerInv, Prune PROVE PeerInv'
<1>1. /\ pc = "prune" /\ pc' = "recompute"
      /\ packages' = Reachable(edges, packages)
      /\ edges' = Pruned(edges, packages, packages')
      /\ UNCHANGED <<manifest, facts, slots, diags, stage, iteration, before>>
  BY DEF Prune
<1>2. edges \in Seq(ToSet(edges)) /\ packages \subseteq Ids
  BY DEF ResolverInv, ResolverTypes
<1> PICK R, kept : R = packages' /\ kept = edges'
  OBVIOUS
<1>3. R = Reachable(edges, packages) /\ kept = Pruned(edges, packages, R)
  BY <1>1
<1>4. /\ R \subseteq packages
      /\ \A e : e \in ToSet(kept) <=> e \in ToSet(edges) /\ e.to \in R /\ (e.from \in packages => e.from \in R)
  BY <1>2, <1>3, PrunedIsReachable
<1>5. ASSUME NEW e \in ToSet(edges), e.from[1] # "pkg" PROVE e \in ToSet(kept) /\ e.to \in R
  <2>1. ClosedUnder(edges, packages, R)
    BY <1>3, ReachableIs
  <2>2. e.from \notin packages
    BY <1>2, <1>5 DEF Ids
  <2>3. e.to \in packages
    BY DEF ResolverInv, EdgesAreInside
  <2>4. PICK i \in DOMAIN edges : edges[i] = e
    BY DEF ToSet
  <2>5. e.to \in R
    BY <2>1, <2>2, <2>3, <2>4 DEF ClosedUnder
  <2> QED BY <1>4, <2>2, <2>5
<1>6. ASSUME NEW r, r.from[1] = "root", Served(r) PROVE Served(r)'
  <2>1. PICK e \in ToSet(edges) : e.from = r.from /\ Leads(e, r)
    BY <1>6 DEF Served
  <2>2. e \in ToSet(edges') /\ e.to \in packages'
    BY <1>5, <1>6, <2>1
  <2>3. Leads(e, r)'
    BY <2>1, <2>2 DEF Leads
  <2> QED BY <2>1, <2>2, <2>3 DEF Served
<1>7. Leave'
  <2>1. Errors' = Errors
    BY <1>1 DEF Errors
  <2>2. ASSUME NEW e \in ToSet(edges), NEW f, MetBy(e, f) PROVE e \in ToSet(edges')
    BY <1>5, <2>2 DEF MetBy, PeerRoot
  <2>3. Errors # {} \/ \A i \in Controllers(facts) :
                         RequiredPeer(facts[i]) => \E e \in ToSet(edges) : MetBy(e, facts[i])
    BY <1>1 DEF PeerInv, Leave, Leaving
  <2> QED BY <1>1, <2>1, <2>2, <2>3 DEF Leave
<1>8. Rounds' /\ SlotsHaveEdges' /\ stage' \in {"roots", "peers"}
  BY <1>1, RoundsAfterwards
<1>9. packages' \subseteq packages
  BY <1>4
<1> HIDE DEF Served
<1> QED BY <1>1, <1>6, <1>7, <1>8, <1>9, PeersAfterwards

LEMMA RecomputeKeepsPeers == ASSUME ResolverInv, PeerInv, Recompute PROVE PeerInv'
<1>1. /\ pc = "recompute" /\ pc' = "finalize" /\ slots' = Recomputed(edges, packages)
      /\ UNCHANGED <<manifest, packages, edges, facts, diags, stage, iteration, before>>
  BY DEF Recompute
<1>2. Leave'
  <2>1. Errors' = Errors
    BY <1>1 DEF Errors
  <2>2. Recomputed(edges, packages)' = Recomputed(edges, packages)
    BY <1>1 DEF Recomputed, RootEdges, KnownSlots
  <2>3. Errors # {} \/ \A i \in Controllers(facts) :
                         RequiredPeer(facts[i]) => \E e \in ToSet(edges) : MetBy(e, facts[i])
    BY <1>1 DEF PeerInv, Leave, Leaving
  <2> QED BY <1>1, <2>1, <2>2, <2>3 DEF Leave
<1>3. Rounds' /\ SlotsHaveEdges' /\ stage' \in {"roots", "peers"}
  BY <1>1, RoundsAfterwards
<1>4. \A r : Served(r) => Served(r)'
  BY <1>1 DEF Served, Leads
<1> HIDE DEF Served
<1> QED BY <1>1, <1>2, <1>3, <1>4, PeersAfterwards
-----------------------------------------------------------------------------
(* The end.                                                                   *)

(* recomputeSelectedSlots: a slot has a version when a root leads to its name,     *)
(* and it is that of such an edge.                                            *)
LEMMA RecomputedIs ==
  ASSUME NEW A, NEW es \in Seq(A), NEW ps, NEW name, <<0, name>> \in KnownSlots,
         NEW e \in ToSet(es), e.from \notin ps, NameOf(e.to) = name
  PROVE  /\ <<0, name>> \in DOMAIN Recomputed(es, ps)
         /\ \E d \in ToSet(es) : /\ d.from \notin ps /\ NameOf(d.to) = name
                                 /\ VersionOf(d.to) = Recomputed(es, ps)[<<0, name>>]
<1> DEFINE s == <<0, name>>
           S == {d \in ToSet(es) : d.from \notin ps}
<1>1. PICK rooted : rooted = RootEdges(es, ps)
  OBVIOUS
<1>2. rooted \in Seq(A) /\ ToSet(rooted) = ToSet(es) \cap S
  BY <1>1, OnlyKeeps DEF RootEdges
<1>3. Len(rooted) \in Nat /\ DOMAIN rooted = 1 .. Len(rooted)
  BY <1>2
<1>4. PICK one \in DOMAIN rooted : rooted[one] = e
  BY <1>2 DEF ToSet
<1> DEFINE T == {i \in DOMAIN rooted : NameOf(rooted[i].to) = name}
<1>5. \E i \in T : \A j \in T : j <= i
  <2>1. T \in SUBSET Nat /\ T # {} /\ \A j \in T : j <= Len(rooted)
    BY <1>3, <1>4
  <2> HIDE DEF T
  <2> QED BY <1>3, <2>1, Greatest
<1> DEFINE Is(i) == /\ NameOf(rooted[i].to) = name
                    /\ \A j \in DOMAIN rooted : NameOf(rooted[j].to) = name => j <= i
           last == CHOOSE i \in DOMAIN rooted : Is(i)
<1>6. \E i \in DOMAIN rooted : Is(i)
  BY <1>5
<1>7. last \in DOMAIN rooted /\ NameOf(rooted[last].to) = name
  <2>1. last \in DOMAIN rooted /\ Is(last)
    <3> HIDE DEF Is
    <3> QED BY <1>6
  <2> QED BY <2>1
<1>8. s[1] = 0 /\ s[2] = name
  OBVIOUS
<1>9. s \in DOMAIN Recomputed(es, ps) /\ Recomputed(es, ps)[s] = VersionOf(rooted[last].to)
  <2> DEFINE known == {t \in KnownSlots : t[1] = 0 /\ \E i \in DOMAIN rooted : NameOf(rooted[i].to) = t[2]}
             Newest(t) == CHOOSE i \in DOMAIN rooted :
                   /\ NameOf(rooted[i].to) = t[2]
                   /\ \A j \in DOMAIN rooted : NameOf(rooted[j].to) = t[2] => j <= i
  <2>1. Recomputed(es, ps) = [t \in known |-> VersionOf(rooted[Newest(t)].to)]
    BY <1>1 DEF Recomputed
  <2>2. s \in known
    BY <1>4, <1>8
  <2>3. Newest(s) = last
    BY <1>8
  <2> HIDE DEF known, Newest, s, last
  <2> QED BY <2>1, <2>2, <2>3
<1>10. rooted[last] \in ToSet(rooted)
  <2> HIDE DEF last
  <2> QED BY <1>7 DEF ToSet
<1> HIDE DEF last
<1> QED BY <1>2, <1>7, <1>9, <1>10

LEMMA FinalizeKeepsPeers == ASSUME ResolverInv, PeerInv, Finalize PROVE PeerInv'
<1>1. /\ pc = "finalize" /\ pc' = "done" /\ tape' = [i \in DOMAIN facts |-> Status(i, slots)]
      /\ diags' = diags \cup
           {Diagnostic("PEER_REQUIREMENT_OVERRIDDEN", TRUE, facts[i].name) :
              i \in {j \in DOMAIN facts : tape'[j] = "overridden-incompatible" /\ facts[j].kind = "peer"}}
      /\ UNCHANGED <<manifest, packages, edges, facts, slots, stage, iteration, before>>
  BY DEF Finalize
<1>2. FactsAre(facts) /\ edges \in Seq(ToSet(edges)) /\ packages \subseteq Ids
  BY DEF ResolverInv, ResolverTypes
<1>3. diags \subseteq diags' /\ Errors \subseteq Errors'
  BY <1>1 DEF Errors
<1>4. ASSUME Errors = {}, NEW i \in DOMAIN facts, facts[i].kind = "peer", ~facts[i].optional, Valid(facts[i].range)
      PROVE  \/ \E e \in ToSet(edges) :
                  /\ e.from[1] # "pkg" /\ NameOf(e.to) = facts[i].name
                  /\ Admits(facts[i].range, VersionOf(e.to))
             \/ \E d \in diags' : d.about = facts[i].name
  <2> PICK n, s : n = facts[i].name /\ s = SlotKey(facts[i])
    OBVIOUS
  <2>1. s = <<0, n>> /\ n \in Names /\ s \in KnownSlots
    BY <1>4, PeerSlot DEF KnownSlots
  <2>2. ~Escaped /\ slots = Recomputed(edges, packages)
    BY <1>1, <1>4 DEF Escaped, PeerInv, Leave
  <2>3. ASSUME NEW e \in ToSet(edges), e.from[1] # "pkg", NameOf(e.to) = n
        PROVE  SelectedIn(slots, s) # 0 /\ \E d \in ToSet(edges) : /\ d.from[1] # "pkg" /\ NameOf(d.to) = n
                                                                   /\ VersionOf(d.to) = SelectedIn(slots, s)
    <3>1. e.from \notin packages
      BY <1>2, <2>3 DEF Ids
    <3>2. PICK d \in ToSet(edges) : /\ d.from \notin packages /\ NameOf(d.to) = n
                                    /\ VersionOf(d.to) = slots[s] /\ s \in DOMAIN slots
      <4>1. /\ <<0, n>> \in DOMAIN Recomputed(edges, packages)
            /\ \E d \in ToSet(edges) : /\ d.from \notin packages /\ NameOf(d.to) = n
                                       /\ VersionOf(d.to) = Recomputed(edges, packages)[<<0, n>>]
        BY <1>2, <2>1, <2>3, <3>1, RecomputedIs
      <4> QED BY <2>1, <2>2, <4>1
    <3>3. d.to \in packages /\ d.from[1] # "pkg"
      BY <3>2 DEF ResolverInv, EdgesAreInside
    <3>4. VersionOf(d.to) # 0
      BY <2>1, <3>2, <3>3 DEF PeerInv, PackagesArePublished, Registry, NameOf
    <3> QED BY <3>2, <3>3, <3>4 DEF SelectedIn
  <2>4. ASSUME NEW c \in Controllers(facts), RequiredPeer(facts[c]), SlotKey(facts[c]) = s
        PROVE  \E e \in ToSet(edges) : /\ e.from[1] # "pkg" /\ NameOf(e.to) = n
                                       /\ Admits(facts[c].range, VersionOf(e.to))
    <3>1. c \in DOMAIN facts /\ SlotKey(facts[c]) = <<0, facts[c].name>>
      BY <2>4, PeerSlot DEF RequiredPeer, Controllers
    <3>2. facts[c].name = n
      BY <2>1, <2>4, <3>1
    <3>3. PICK e \in ToSet(edges) : MetBy(e, facts[c])
      BY <1>1, <1>4, <2>4 DEF PeerInv, Leave, Leaving
    <3>4. e.from[1] # "pkg"
      BY <3>3 DEF MetBy, PeerRoot
    <3> QED BY <3>2, <3>3, <3>4 DEF MetBy
  <2>5. CASE Controls(facts, i)
    <3>1. i \in Controllers(facts) /\ RequiredPeer(facts[i]) /\ SlotKey(facts[i]) = s
      BY <1>4, <2>5 DEF Controllers, RequiredPeer
    <3> QED BY <2>4, <3>1
  <2>6. CASE ~Controls(facts, i)
    <3>1. PICK c : c \in ControllersOf(facts, s) /\ c \in DOMAIN facts
      BY <1>2, ControllerExists
    <3>2. SlotKey(facts[c]) = s /\ c \in Controllers(facts) /\ c # i /\ Above(facts, c, i)
      BY <2>6, <3>1 DEF ControllersOf, Controllers, Controls
    <3>3. ASSUME NEW e \in ToSet(edges), e.from[1] # "pkg", NameOf(e.to) = n
          PROVE  \/ \E d \in ToSet(edges) : /\ d.from[1] # "pkg" /\ NameOf(d.to) = n
                                            /\ Admits(facts[i].range, VersionOf(d.to))
                 \/ \E d \in diags' : d.about = n
      <4>1. PICK d \in ToSet(edges) : /\ d.from[1] # "pkg" /\ NameOf(d.to) = n
                                      /\ VersionOf(d.to) = SelectedIn(slots, s) /\ SelectedIn(slots, s) # 0
        BY <2>3, <3>3
      <4>2. CASE Admits(facts[i].range, SelectedIn(slots, s))
        BY <4>1, <4>2
      <4>3. CASE ~Admits(facts[i].range, SelectedIn(slots, s))
        <5>1. Status(i, slots) = "overridden-incompatible"
          BY <1>4, <2>6, <4>1, <4>3 DEF Status
        <5>2. tape'[i] = "overridden-incompatible"
          BY <1>1, <5>1
        <5>3. Diagnostic("PEER_REQUIREMENT_OVERRIDDEN", TRUE, facts[i].name) \in diags'
          BY <1>1, <1>4, <5>2
        <5>4. Diagnostic("PEER_REQUIREMENT_OVERRIDDEN", TRUE, facts[i].name).about = n
          BY DEF Diagnostic
        <5> QED BY <5>3, <5>4
      <4> QED BY <4>2, <4>3
    <3>4. CASE facts[c].kind = "peer"
      <4>1. ~facts[c].optional
        <5>1. facts[c].optional \in BOOLEAN /\ facts[i].optional \in BOOLEAN
          BY <1>2, <3>1 DEF FactsAre
        <5> QED BY <1>4, <3>2, <3>4, <5>1 DEF Above, KindRank
      <4>2. \E e \in ToSet(edges) : e.from[1] # "pkg" /\ NameOf(e.to) = n
        BY <2>4, <3>2, <3>4, <4>1 DEF RequiredPeer
      <4> QED BY <3>3, <4>2
    <3>5. CASE facts[c].kind # "peer"
      <4>1. PICK k \in DOMAIN Direct : Required(k) /\ facts[c] = SharedFact(Direct[k])
        BY <3>1, <3>5 DEF PeerInv, FactsAreKnown
      <4>2. Direct[k].name = n
        <5>1. SlotKey(facts[c]) = <<Direct[k].scope, Direct[k].name>>
          BY <4>1 DEF SlotKey, SharedFact
        <5> QED BY <2>1, <3>2, <5>1
      <4>3. Served(Asked(k)) \/ Reported(k)
        <5>1. ~Pending(Asked(k))
          BY <1>1 DEF Pending
        <5> QED BY <1>1, <2>2, <4>1, <5>1 DEF PeerInv, AnswersAreGiven
      <4>4. CASE Reported(k)
        BY <1>3, <4>2, <4>4 DEF Reported
      <4>5. CASE Served(Asked(k))
        <5>1. Asked(k).name = n /\ Asked(k).from[1] = "root"
          BY <1>1, <4>1, <4>2, AskedName
        <5>2. PICK e \in ToSet(edges) : e.from = Asked(k).from /\ Leads(e, Asked(k))
          BY <4>5 DEF Served
        <5>3. e.from[1] # "pkg" /\ NameOf(e.to) = n
          BY <5>1, <5>2 DEF Leads
        <5> QED BY <3>3, <5>3
      <4> QED BY <4>3, <4>4, <4>5
    <3> QED BY <3>4, <3>5
  <2> QED BY <2>5, <2>6
<1>5. PeersAreAnswered'
  <2> SUFFICES ASSUME Errors' = {}, NEW i \in DOMAIN facts, facts[i].kind = "peer", ~facts[i].optional, Valid(facts[i].range)
               PROVE  \/ \E e \in ToSet(edges) :
                           /\ e.from[1] # "pkg" /\ NameOf(e.to) = facts[i].name
                           /\ Admits(facts[i].range, VersionOf(e.to))
                      \/ \E d \in diags' : d.about = facts[i].name
    BY <1>1 DEF PeersAreAnswered, Succeeded
  <2> QED BY <1>3, <1>4
<1>6. Leave'
  <2>1. Errors # {} \/ \A i \in Controllers(facts) :
                         RequiredPeer(facts[i]) => \E e \in ToSet(edges) : MetBy(e, facts[i])
    BY <1>1 DEF PeerInv, Leave, Leaving
  <2> QED BY <1>1, <1>3, <1>5, <2>1 DEF Leave
<1>7. Rounds' /\ SlotsHaveEdges' /\ stage' \in {"roots", "peers"}
  BY <1>1, RoundsAfterwards
<1>8. \A r : Served(r) => Served(r)'
  BY <1>1 DEF Served, Leads
<1> HIDE DEF Served
<1> QED BY <1>1, <1>3, <1>6, <1>7, <1>8, PeersAfterwards
-----------------------------------------------------------------------------
(* A package is committed.                                                     *)
LEMMA ConcatenationHas ==
  ASSUME NEW A, NEW B, NEW a \in Seq(A), NEW b \in Seq(B)
  PROVE  ToSet(a \o b) = ToSet(a) \cup ToSet(b)
<1>1. /\ a \o b \in Seq(A \cup B) /\ DOMAIN (a \o b) = 1 .. Len(a) + Len(b) /\ Len(a) \in Nat /\ Len(b) \in Nat
      /\ DOMAIN a = 1 .. Len(a) /\ DOMAIN b = 1 .. Len(b)
  OBVIOUS
<1>2. \A i \in 1 .. Len(a) + Len(b) : (a \o b)[i] = IF i <= Len(a) THEN a[i] ELSE b[i - Len(a)]
  OBVIOUS
<1> PICK c : c = a \o b
  OBVIOUS
<1>3. DOMAIN c = 1 .. Len(a) + Len(b) /\ \A i \in 1 .. Len(a) + Len(b) : c[i] = IF i <= Len(a) THEN a[i] ELSE b[i - Len(a)]
  BY <1>1, <1>2
<1>4. ASSUME NEW e \in ToSet(c) PROVE e \in ToSet(a) \cup ToSet(b)
  <2>1. PICK i \in DOMAIN c : c[i] = e
    BY DEF ToSet
  <2>2. CASE i <= Len(a)
    BY <1>1, <1>3, <2>1, <2>2 DEF ToSet
  <2>3. CASE i > Len(a)
    <3>1. i - Len(a) \in DOMAIN b /\ e = b[i - Len(a)]
      BY <1>1, <1>3, <2>1, <2>3
    <3> QED BY <3>1 DEF ToSet
  <2> QED BY <1>1, <1>3, <2>1, <2>2, <2>3
<1>5. ASSUME NEW i \in DOMAIN a PROVE a[i] \in ToSet(c)
  <2>1. i \in DOMAIN c /\ c[i] = a[i]
    BY <1>1, <1>3
  <2> QED BY <2>1 DEF ToSet
<1>6. ASSUME NEW i \in DOMAIN b PROVE b[i] \in ToSet(c)
  <2>1. i + Len(a) \in DOMAIN c /\ c[i + Len(a)] = b[i]
    BY <1>1, <1>3
  <2> QED BY <2>1 DEF ToSet
<1>7. ToSet(a) \subseteq ToSet(c)
  BY <1>5 DEF ToSet
<1>8. ToSet(b) \subseteq ToSet(c)
  BY <1>6 DEF ToSet
<1> QED BY <1>4, <1>7, <1>8

(* What the peers of a package add.                                              *)
LEMMA PeersAreAdded ==
  ASSUME NEW id, NEW peers, Dependencies(peers), facts' = facts \o [i \in DOMAIN peers |-> PeerFact(id, peers[i])]
  PROVE  PeersAdded
<1>1. PICK more : more = [i \in DOMAIN peers |-> PeerFact(id, peers[i])]
  OBVIOUS
<1>2. FactsAre(more) /\ \A i \in DOMAIN more : more[i].kind = "peer"
  BY <1>1, PeersAre
<1>3. \A i \in DOMAIN more : more[i].scope = 0
  BY <1>1 DEF PeerFact
<1> QED BY <1>1, <1>2, <1>3 DEF PeersAdded

LEMMA CommitPackageKeepsPeers == ASSUME ResolverInv, PeerInv, CommitPackage PROVE PeerInv'
<1>1. /\ Committing /\ NextGroup /\ Turn \in DOMAIN results /\ results[Turn].kind = "package"
      /\ pc' = "commit" /\ pc = "commit" /\ next <= Len(groups)
      /\ UNCHANGED <<manifest, diags, groups, results, frontier, stage, iteration, before>>
  BY DEF CommitPackage, Committing
<1>2. PICK id, rs, deps, peers, released :
        /\ id = results[Turn].id /\ rs = Requests(Turn)
        /\ deps = Published[NameOf(id)][VersionOf(id)].deps /\ peers = Published[NameOf(id)][VersionOf(id)].peers
        /\ released = {r.from : r \in {q \in rs : FromPeer(q)}}
  OBVIOUS
<1>3. /\ edges' = Only(edges, {e \in ToSet(edges) : e.from \notin released}) \o SetToSeq({EdgeOf(r, id) : r \in rs})
      /\ slots' = SlotsAfter(slots, rs, id) /\ packages' = packages \cup {id}
      /\ IF id \in packages THEN UNCHANGED <<committing, facts>>
         ELSE /\ committing' = committing \cup Transitive(id, deps)
              /\ facts' = IF id \in recorded THEN facts ELSE facts \o [i \in DOMAIN peers |-> PeerFact(id, peers[i])]
  BY <1>2 DEF CommitPackage, WithPeers
<1>4. next \in DOMAIN groups /\ Turn \in AllGroups /\ Answers(Turn, results[Turn])
  BY <1>1 DEF ResolverInv, ResolverTypes, Grouped, Lists, Turn
<1>5. /\ Items(frontier) /\ FactsAre(facts) /\ edges \in Seq(ToSet(edges))
  BY <1>1 DEF ResolverInv, ResolverTypes
<1>6. Turn[1] \in Names
  BY <1>4, <1>5, GroupsArePairs
<1>7. /\ VersionOf(id) \in DOMAIN Published[Turn[1]] /\ VersionOf(id) # 0 /\ Admits(Turn[2], VersionOf(id))
      /\ \A u \in Candidates(Turn) : u <= VersionOf(id)
      /\ NameOf(id) = Turn[1] /\ id[1] = "pkg" /\ id = IdOf(Turn[1], VersionOf(id))
  <2>1. Candidates(Turn) # {} /\ id = Selected(Turn)
    BY <1>1, <1>2, <1>4 DEF Answers
  <2> QED BY <1>6, <2>1, SelectedIs
<1>8. Dependencies(deps) /\ Dependencies(peers)
  <2>1. NameOf(id) \in Names /\ VersionOf(id) \in DOMAIN Published[NameOf(id)]
    BY <1>6, <1>7
  <2> QED BY <1>2, <2>1, ResolverAssumption
<1>9. PeersAdded
  <2>1. CASE facts' = facts
    BY <2>1 DEF PeersAdded
  <2>2. CASE facts' # facts
    <3>1. facts' = facts \o [i \in DOMAIN peers |-> PeerFact(id, peers[i])]
      BY <1>3, <2>2
    <3> QED BY <1>8, <3>1, PeersAreAdded
  <2> QED BY <2>1, <2>2
<1>10. /\ FactsAreKnown' /\ Longer /\ Len(facts) <= Len(facts') /\ (Len(facts') = Len(facts) => facts' = facts)
       /\ \A slot : DirectSlot(slot) => DirectSlot(slot)'
       /\ Len(facts) \in Nat /\ Len(facts') \in Nat
  BY <1>1, <1>5, <1>9, KnownStay DEF PeerInv
<1>11. PackagesArePublished'
  BY <1>3, <1>7 DEF PeerInv, PackagesArePublished
<1>12. committing \subseteq committing' /\ \A r \in committing' : r.from[1] # "peer" /\ r.slot = NoSlot
  <2>1. \A r \in committing : r.from[1] # "peer" /\ r.slot = NoSlot
    BY <1>1 DEF PeerInv, RequestsAreKnown
  <2>2. \A r \in Transitive(id, deps) : r.from[1] # "peer" /\ r.slot = NoSlot
    BY <1>7, <1>8, TransitiveIs
  <2> QED BY <1>3, <2>1, <2>2
<1>13. RequestsAreKnown'
  <2>1. \A r \in frontier : Selects(r)
    BY <1>1 DEF PeerInv, RequestsAreKnown
  <2>2. \A r \in frontier : Selects(r)'
    BY <1>1, <1>10, <2>1 DEF Selects, FromEnvironment
  <2> HIDE DEF Selects
  <2> QED BY <1>1, <1>12, <2>2 DEF PeerInv, RequestsAreKnown
<1>14. ASSUME NEW r \in rs
       PROVE  /\ r \in frontier /\ r.name = Turn[1] /\ r.range = Turn[2] /\ Selects(r)
              /\ FromPeer(r) => FromEnvironment(r)
  BY <1>1, <1>2 DEF Requests, GroupOf, PeerInv, RequestsAreKnown, Selects, FromPeer
<1>15. /\ \A e \in ToSet(edges) : e.from \notin released => e \in ToSet(edges')
       /\ \A r \in rs : EdgeOf(r, id) \in ToSet(edges')
  <2>1. PICK a, b : /\ a = Only(edges, {e \in ToSet(edges) : e.from \notin released})
                    /\ b = SetToSeq({EdgeOf(r, id) : r \in rs})
    OBVIOUS
  <2>2. a \in Seq(ToSet(edges)) /\ ToSet(a) = ToSet(edges) \cap {e \in ToSet(edges) : e.from \notin released}
    BY <1>5, <2>1, OnlyKeeps
  <2>3. IsFiniteSet({EdgeOf(r, id) : r \in rs})
    <3> DEFINE f == [r \in rs |-> EdgeOf(r, id)]
    <3>1. IsFiniteSet(rs)
      BY <1>2, <1>5, FS_Subset DEF Requests, Items
    <3>2. {EdgeOf(r, id) : r \in rs} = {f[x] : x \in DOMAIN f} /\ IsFiniteSet(DOMAIN f)
      BY <3>1
    <3> HIDE DEF f
    <3> QED BY <3>2, ImageIsFinite
  <2>4. b \in Seq({EdgeOf(r, id) : r \in rs}) /\ ToSet(b) = {EdgeOf(r, id) : r \in rs}
    BY <2>1, <2>3, SetToSeqLists DEF Lists
  <2>5. edges' = a \o b
    BY <1>3, <2>1
  <2>6. ToSet(a \o b) = ToSet(a) \cup ToSet(b)
    BY <2>2, <2>4, ConcatenationHas
  <2>7. ToSet(edges') = ToSet(a) \cup ToSet(b)
    BY <2>5, <2>6
  <2> QED BY <2>2, <2>4, <2>7
<1>16. \A r \in rs : Served(r)'
  <2> SUFFICES ASSUME NEW r \in rs PROVE Served(r)'
    OBVIOUS
  <2>1. EdgeOf(r, id).from = r.from /\ EdgeOf(r, id).to = id /\ EdgeOf(r, id).ref = r.ref
    BY DEF EdgeOf
  <2>2. id \in packages'
    BY <1>3
  <2>3. Leads(EdgeOf(r, id), r)'
    BY <1>7, <1>14, <2>1, <2>2 DEF Leads, Candidates
  <2> QED BY <1>15, <2>1, <2>3 DEF Served
<1>17. Escaped => Escaped'
  <2>1. ~Fails(Turn) /\ Errors' = Errors
    BY <1>1 DEF Fails, Errors
  <2> QED BY <1>1, <2>1, StillAhead
<1>18. ASSUME NEW s PROVE s \in DOMAIN slots' <=> s \in DOMAIN slots \/ (s # NoSlot /\ \E r \in rs : r.slot = s)
  BY <1>3 DEF SlotsAfter
<1>19. ASSUME NEW s \in DOMAIN slots'
       PROVE  /\ (\E r \in rs : r.slot = s) => slots'[s] = VersionOf(id)
              /\ (~\E r \in rs : r.slot = s) => slots'[s] = slots[s]
  BY <1>3 DEF SlotsAfter
<1>20. SlotsHaveEdges'
  <2>0. /\ NoSlot \notin DOMAIN slots
        /\ \A s \in DOMAIN slots : DirectSlot(s) \/ \E e \in ToSet(edges) : PeerEdge(e, s)
    BY <1>1 DEF PeerInv, SlotsHaveEdges, Leaving
  <2>1. NoSlot \notin DOMAIN slots'
    BY <1>18, <2>0
  <2>2. ASSUME NEW s \in DOMAIN slots', ~DirectSlot(s)' PROVE \E e \in ToSet(edges') : PeerEdge(e, s)'
    <3>0. ~DirectSlot(s)
      BY <1>10, <2>2
    <3>1. CASE \E r \in rs : r.slot = s
      <4>1. PICK r \in rs : r.slot = s
        BY <3>1
      <4>2. FromEnvironment(r)
        BY <1>14, <2>1, <2>2, <3>0, <4>1 DEF Selects
      <4>3. s = <<0, Turn[1]>> /\ r.from = PeerRoot(Turn[1])
        BY <1>14, <4>1, <4>2 DEF FromEnvironment
      <4>4. slots'[s] = VersionOf(id) /\ s[2] = Turn[1] /\ s = <<0, s[2]>>
        BY <1>19, <3>1, <4>3
      <4>5. EdgeOf(r, id).from = r.from /\ EdgeOf(r, id).to = id
        BY DEF EdgeOf
      <4>6. PeerEdge(EdgeOf(r, id), s)'
        BY <1>7, <4>3, <4>4, <4>5 DEF PeerEdge
      <4> QED BY <1>15, <4>6
    <3>2. CASE ~\E r \in rs : r.slot = s
      <4>1. s \in DOMAIN slots /\ slots'[s] = slots[s]
        BY <1>18, <1>19, <3>2
      <4>2. PICK e \in ToSet(edges) : PeerEdge(e, s)
        BY <2>0, <3>0, <4>1
      <4>3. e.from \notin released
        <5> SUFFICES ASSUME NEW r \in rs, FromPeer(r), r.from = e.from PROVE FALSE
          BY <1>2
        <5>1. r.from = PeerRoot(r.name) /\ r.slot = <<0, r.name>>
          BY <1>14 DEF FromEnvironment
        <5>2. r.name = s[2] /\ s = <<0, s[2]>>
          BY <4>2, <5>1 DEF PeerEdge, PeerRoot
        <5> QED BY <3>2, <5>1, <5>2
      <4>4. PeerEdge(e, s)'
        BY <4>1, <4>2 DEF PeerEdge
      <4> QED BY <1>15, <4>2, <4>3, <4>4
    <3> QED BY <3>1, <3>2
  <2> QED BY <2>1, <2>2 DEF SlotsHaveEdges
<1>21. Rounds'
  <2>1. iteration \in Nat /\ before \in Nat /\ (stage = "roots" => iteration <= Len(facts))
    BY DEF PeerInv, Rounds
  <2>2. InRound' = (stage = "peers") /\ (stage = "peers" => InRound)
    BY <1>1 DEF InRound
  <2>3. stage = "peers" => before <= Len(facts) /\ iteration <= before + 1
    BY <2>2 DEF PeerInv, Rounds
  <2>4. ASSUME stage = "peers", before = Len(facts')
        PROVE  /\ facts' = facts
               /\ \A r \in frontier : r.slot # NoSlot => \E i \in Controllers(facts) : r = PeerItem(facts[i])
               /\ Escaped' \/ \A i \in Controllers(facts) : Unprovided(i)' => Pending(PeerItem(facts[i]))'
    <3>1. facts' = facts /\ before = Len(facts)
      BY <1>10, <2>1, <2>3, <2>4
    <3>2. \A r \in frontier : r.slot # NoSlot => \E i \in Controllers(facts) : r = PeerItem(facts[i])
      BY <2>2, <2>4, <3>1 DEF PeerInv, Rounds
    <3>3. Escaped \/ \A i \in Controllers(facts) : Unprovided(i) => Pending(PeerItem(facts[i]))
      BY <2>2, <2>4, <3>1 DEF PeerInv, Rounds
    <3>4. ASSUME ~Escaped', NEW i \in Controllers(facts), Unprovided(i)' PROVE Pending(PeerItem(facts[i]))'
      <4>1. PICK p, s : p = PeerItem(facts[i]) /\ s = SlotKey(facts[i])
        OBVIOUS
      <4>2. p.slot = s /\ p.range = facts[i].range /\ p.name = facts[i].name
        BY <4>1 DEF PeerItem
      <4>3. facts[i].kind = "peer" /\ ~facts[i].optional /\ i \in DOMAIN facts
        BY <3>1, <3>4 DEF Unprovided, Controllers
      <4>4. s = <<0, facts[i].name>> /\ s # NoSlot
        BY <4>1, <4>3, PeerSlot DEF NoSlot
      <4>5. ~\E r \in rs : r.slot = s
        <5> SUFFICES ASSUME NEW r \in rs, r.slot = s PROVE FALSE
          OBVIOUS
        <5>1. PICK j \in Controllers(facts) : r = PeerItem(facts[j])
          BY <1>14, <3>2, <4>4
        <5>2. SlotKey(facts[j]) = s
          BY <5>1 DEF PeerItem
        <5>3. j = i
          BY <1>5, <4>1, <5>2, OneController
        <5>4. facts[i].range = Turn[2]
          BY <1>14, <4>1, <4>2, <5>1, <5>3
        <5>5. s \in DOMAIN slots'
          BY <1>18, <4>4
        <5>6. slots'[s] = VersionOf(id)
          BY <1>19, <5>5
        <5> QED BY <1>7, <3>1, <3>4, <4>1, <5>4, <5>5, <5>6 DEF Unprovided, SelectedIn
      <4>6. SelectedIn(slots', s) = SelectedIn(slots, s)
        BY <1>18, <1>19, <4>5 DEF SelectedIn
      <4>7. Unprovided(i)
        BY <3>1, <3>4, <4>1, <4>6 DEF Unprovided
      <4>8. Pending(p)
        BY <1>17, <3>3, <3>4, <4>1, <4>7
      <4>9. p \notin Requests(Turn)
        BY <1>2, <4>2, <4>5
      <4>10. Pending(p)'
        BY <1>1, <1>12, <4>8, <4>9, PendingAfterTurn
      <4> QED BY <3>1, <4>1, <4>10
    <3> QED BY <3>1, <3>2, <3>4
  <2> HIDE DEF Escaped, Pending, Unprovided
  <2>5. ASSUME stage = "peers" PROVE before <= Len(facts') /\ iteration <= before + 1
    <3>1. before <= Len(facts) /\ iteration <= before + 1
      BY <2>3, <2>5
    <3> QED BY <1>10, <2>1, <3>1
  <2>6. stage' = "roots" \/ pc' = "peers" => iteration' <= Len(facts')
    BY <1>1, <1>10, <2>1
  <2> QED BY <1>1, <2>1, <2>2, <2>4, <2>5, <2>6 DEF Rounds
<1>22. Leave'
  BY <1>1 DEF Leave, Leaving
<1>23. AnswersAreGiven'
  <2>1. ASSUME NEW r, r.from[1] = "root", Served(r) PROVE Served(r)'
    <3>1. PICK e \in ToSet(edges) : e.from = r.from /\ Leads(e, r)
      BY <2>1 DEF Served
    <3>2. e.from \notin released
      BY <1>2, <2>1, <3>1 DEF FromPeer
    <3>3. e \in ToSet(edges') /\ packages \subseteq packages'
      BY <1>3, <1>15, <3>2
    <3>4. Leads(e, r)'
      BY <3>1, <3>3 DEF Leads
    <3> QED BY <3>1, <3>3, <3>4 DEF Served
  <2>2. ASSUME NEW r, Pending(r) PROVE Served(r)' \/ Pending(r)'
    <3>1. CASE r \in Requests(Turn)
      BY <1>2, <1>16, <3>1
    <3>2. CASE r \notin Requests(Turn)
      BY <1>1, <1>12, <2>2, <3>2, PendingAfterTurn
    <3> QED BY <3>1, <3>2
  <2> HIDE DEF Escaped, Pending, Served
  <2> QED BY <1>1, <1>10, <1>17, <2>1, <2>2, AnswersStay DEF PeerInv
<1> QED BY <1>10, <1>11, <1>13, <1>20, <1>21, <1>22, <1>23 DEF PeerInv
-----------------------------------------------------------------------------
(* What the roots ask for is entered, and takes the range of its controller.       *)
LEMMA ApplyControllersKeepsPeers == ASSUME ResolverInv, PeerInv, ApplyControllers PROVE PeerInv'
<1>1. /\ pc = "enqueue" /\ pc' = "frontier" /\ next > Len(Direct) /\ frontier' = {Controlled(r) : r \in frontier}
      /\ UNCHANGED <<manifest, packages, edges, facts, recorded, slots, diags, stage, iteration, before>>
  BY DEF ApplyControllers, lock
<1>2. /\ FactsAre(facts) /\ stage = "roots" /\ DOMAIN slots = {}
      /\ \A r \in frontier : r.from[1] # "peer" /\ (r.slot = NoSlot \/ DirectSlot(r.slot))
  BY <1>1 DEF ResolverInv, ResolverTypes, PeerInv, RequestsAreKnown, Selects, FromEnvironment
<1>3. FactsAreKnown' /\ \A slot : DirectSlot(slot) => DirectSlot(slot)'
  BY <1>1, <1>2, KnownStay DEF PeersAdded, PeerInv
<1>4. PackagesArePublished' /\ SlotsHaveEdges' /\ Leave'
  BY <1>1, <1>2 DEF PeerInv, PackagesArePublished, SlotsHaveEdges, Leave, Leaving
<1>5. RequestsAreKnown'
  <2>1. ASSUME NEW r \in frontier, NEW c, c = Controlled(r) PROVE c.from = r.from /\ c.slot = r.slot
    <3>1. c = [name |-> r.name, range |-> c.range, ref |-> r.ref, from |-> r.from, edge |-> r.edge,
               optional |-> r.optional, slot |-> r.slot]
      BY <1>1, <2>1, ControlledIs
    <3> QED BY <3>1
  <2>2. \A x \in frontier' : Selects(x)'
    <3> SUFFICES ASSUME NEW x \in frontier' PROVE Selects(x)'
      OBVIOUS
    <3>1. PICK r \in frontier : x = Controlled(r)
      BY <1>1
    <3>2. x.from = r.from /\ x.slot = r.slot
      BY <2>1, <3>1
    <3> QED BY <1>2, <1>3, <3>2 DEF Selects
  <2> HIDE DEF Selects
  <2> QED BY <1>1, <1>2, <2>2 DEF RequestsAreKnown
<1>6. Rounds'
  <2>1. iteration \in Nat /\ before \in Nat /\ iteration <= Len(facts)
    BY <1>2 DEF PeerInv, Rounds
  <2> QED BY <1>1, <1>2, <2>1 DEF Rounds, InRound
<1>7. AnswersAreGiven'
  <2>1. Direct \in Seq(ToSet(Direct)) /\ Len(Direct) \in Nat /\ DOMAIN Direct = 1 .. Len(Direct)
    BY ResolverAssumption DEF ResolverInv, ResolverTypes, Direct
  <2>2. Direct' = Direct /\ next \in Nat
    BY <1>1 DEF Direct, ResolverInv, ResolverTypes
  <2>3. ASSUME NEW k, Required(k) PROVE DirectItem(k) \in frontier
    <3>1. k \in DOMAIN Direct /\ k < next
      BY <1>1, <2>1, <2>2, <2>3 DEF Required
    <3> QED BY <1>1, <2>3, <3>1 DEF ResolverInv, AsksAreServed
  <2>4. ASSUME NEW k, Required(k) PROVE Pending(Asked(k))'
    <3>1. Asked(k) \in frontier'
      BY <1>1, <2>3, <2>4 DEF Asked
    <3>2. Asked(k)' = Asked(k)
      BY <1>1, <2>2 DEF Asked, Controlled, DirectItem
    <3> QED BY <1>1, <3>1, <3>2 DEF Pending
  <2>5. \A k : Required(k)' = Required(k)
    BY <2>2 DEF Required
  <2> HIDE DEF Required, Direct
  <2> QED BY <2>4, <2>5 DEF AnswersAreGiven
<1> QED BY <1>3, <1>4, <1>5, <1>6, <1>7 DEF PeerInv

(* What is the same for a package of the registry and for one that is here.        *)
LEMMA DirectStepKeepsPeers ==
  ASSUME ResolverInv, PeerInv, pc = "enqueue",
         UNCHANGED <<manifest, slots, pc, stage, iteration, before>>,
         FactsAreKnown', FactsAre(facts)', \A j \in DOMAIN facts : j \in DOMAIN facts' /\ facts'[j] = facts[j],
         \A id \in packages' \ packages : ~Registry(id),
         \A r \in frontier' \ frontier : r.from[1] # "peer" /\ (r.slot = NoSlot \/ DirectSlot(r.slot)')
  PROVE  PeerInv'
<1>1. /\ stage = "roots" /\ DOMAIN slots = {}
      /\ \A r \in frontier : r.from[1] # "peer" /\ (r.slot = NoSlot \/ DirectSlot(r.slot))
  BY DEF PeerInv, RequestsAreKnown, Selects, FromEnvironment
<1>2. \A slot : DirectSlot(slot) => DirectSlot(slot)'
  BY DEF DirectSlot
<1>3. PackagesArePublished' /\ SlotsHaveEdges' /\ Leave' /\ AnswersAreGiven'
  BY <1>1 DEF PeerInv, PackagesArePublished, SlotsHaveEdges, Leave, Leaving, AnswersAreGiven
<1>4. RequestsAreKnown'
  <2>1. \A r \in frontier' : Selects(r)'
    BY <1>1, <1>2 DEF Selects
  <2> HIDE DEF Selects
  <2> QED BY <1>1, <2>1 DEF RequestsAreKnown
<1>5. Rounds'
  <2>1. iteration \in Nat /\ before \in Nat /\ iteration <= Len(facts)
    BY <1>1 DEF PeerInv, Rounds
  <2>2. Len(facts) <= Len(facts') /\ Len(facts) \in Nat /\ Len(facts') \in Nat
    <3>1. DOMAIN facts = 1 .. Len(facts) /\ DOMAIN facts' = 1 .. Len(facts') /\ Len(facts) \in Nat /\ Len(facts') \in Nat
      BY DEF ResolverInv, ResolverTypes, FactsAre
    <3>2. Len(facts) # 0 => Len(facts) \in DOMAIN facts'
      BY <3>1
    <3> QED BY <3>1, <3>2
  <2>3. iteration' <= Len(facts')
    BY <2>1, <2>2
  <2> QED BY <1>1, <2>1, <2>3 DEF Rounds, InRound
<1> QED BY <1>3, <1>4, <1>5 DEF PeerInv

LEMMA EnqueueDirectKeepsPeers == ASSUME ResolverInv, PeerInv, EnqueueDirect PROVE PeerInv'
<1>1. PICK r : r = Direct[next]
  OBVIOUS
<1>2. /\ pc = "enqueue" /\ next <= Len(Direct)
      /\ UNCHANGED <<manifest, slots, pc, stage, iteration, before>>
  BY DEF EnqueueDirect
<1>3. Direct \in Seq(ToSet(Direct)) /\ next \in DOMAIN Direct /\ manifest \in Manifests
  <2>1. Direct \in Seq(ToSet(Direct)) /\ manifest \in Manifests /\ next \in Nat \ {0}
    BY ResolverAssumption DEF ResolverInv, ResolverTypes, Direct
  <2> QED BY <1>2, <2>1
<1>4. DirectRequest(r)
  BY <1>1, <1>3, ResolverAssumption DEF Direct
<1>5. FactsAre(facts) /\ FactsAreKnown /\ FactsAre(facts)'
  BY EnqueueDirectKeepsIt DEF ResolverInv, ResolverTypes, PeerInv
<1>6. CASE r.name \notin DOMAIN Local
  <2>1. PICK fact, item : fact = SharedFact(r) /\ item = [Item(r, r.from, r.edge) EXCEPT !.slot = SlotKey(fact)]
    OBVIOUS
  <2>2. facts' = Append(facts, fact) /\ frontier' = frontier \cup {item} /\ packages' = packages
    BY <1>1, <1>6, <2>1 DEF EnqueueDirect
  <2>3. fact.kind = r.kind /\ item.from = r.from /\ item.slot = SlotKey(fact)
    BY <2>1 DEF SharedFact, Item
  <2>4. Len(facts) \in Nat /\ DOMAIN facts = 1 .. Len(facts) /\ facts \in Seq(ToSet(facts))
    BY <1>5 DEF FactsAre
  <2>5. /\ DOMAIN facts' = 1 .. Len(facts) + 1
        /\ \A i \in 1 .. Len(facts) : facts'[i] = facts[i]
        /\ facts'[Len(facts) + 1] = fact
    <3> PICK F : F = ToSet(facts)
      OBVIOUS
    <3>1. facts \in Seq(F \cup {fact}) /\ fact \in F \cup {fact}
      BY <2>4
    <3> QED BY <2>2, <2>4, <3>1
  <2>6. Direct' = Direct /\ Required(next) /\ fact = SharedFact(Direct[next])
    BY <1>1, <1>2, <1>3, <1>6, <2>1 DEF Direct, Required
  <2>7. FactsAreKnown'
    <3>1. ASSUME NEW i \in DOMAIN facts'
          PROVE  IF facts'[i].kind = "peer" THEN facts'[i].scope = 0
                 ELSE \E k \in DOMAIN Direct : Required(k) /\ facts'[i] = SharedFact(Direct[k])
      <4>1. CASE i \in DOMAIN facts
        BY <1>5, <2>4, <2>5, <4>1 DEF FactsAreKnown
      <4>2. CASE i \notin DOMAIN facts
        <5>1. facts'[i] = fact
          BY <2>4, <2>5, <4>2
        <5> QED BY <1>3, <1>4, <2>3, <2>6, <5>1 DEF DirectRequest
      <4> QED BY <4>1, <4>2
    <3> QED BY <1>2, <2>6, <3>1 DEF FactsAreKnown, Required, SharedFact
  <2>8. item.from[1] # "peer" /\ DirectSlot(item.slot)'
    <3>1. Len(facts) + 1 \in DOMAIN facts' /\ facts'[Len(facts) + 1].kind # "peer"
      BY <1>4, <2>3, <2>4, <2>5 DEF DirectRequest
    <3> QED BY <1>4, <2>3, <2>5, <3>1 DEF DirectRequest, DirectSlot
  <2>9. \A j \in DOMAIN facts : j \in DOMAIN facts' /\ facts'[j] = facts[j]
    BY <2>4, <2>5
  <2>10. packages' \ packages = {} /\ frontier' \ frontier \subseteq {item}
    BY <2>2
  <2> HIDE DEF DirectSlot
  <2> QED BY <1>2, <1>5, <2>7, <2>8, <2>9, <2>10, DirectStepKeepsPeers
<1>7. CASE r.name \in DOMAIN Local
  <2>1. PICK id, pkg : id = IdOf(r.name, 0) /\ pkg = Local[r.name]
    OBVIOUS
  <2>2. id[1] = "pkg" /\ NameOf(id) = r.name /\ ~Registry(id) /\ Dependencies(pkg.deps) /\ Dependencies(pkg.peers)
    BY <1>7, <2>1, ResolverAssumption DEF IdOf, NameOf, Registry
  <2>3. /\ packages' \subseteq packages \cup {id}
        /\ frontier' \subseteq frontier \cup Transitive(id, pkg.deps)
        /\ facts' = facts \/ facts' = facts \o [i \in DOMAIN pkg.peers |-> PeerFact(id, pkg.peers[i])]
    BY <1>1, <1>7, <2>1 DEF EnqueueDirect, ResolveLocal, WithPeers
  <2>4. PeersAdded
    <3>1. CASE facts' = facts
      BY <3>1 DEF PeersAdded
    <3>2. CASE facts' = facts \o [i \in DOMAIN pkg.peers |-> PeerFact(id, pkg.peers[i])]
      <4>1. PICK peers : peers = pkg.peers
        OBVIOUS
      <4>2. Dependencies(peers) /\ facts' = facts \o [i \in DOMAIN peers |-> PeerFact(id, peers[i])]
        BY <2>2, <3>2, <4>1
      <4> QED BY <4>2, PeersAreAdded
    <3> QED BY <2>3, <3>1, <3>2
  <2>5. FactsAreKnown' /\ Longer
    BY <1>2, <1>5, <2>4, KnownStay
  <2>6. \A j \in DOMAIN facts : j \in DOMAIN facts' /\ facts'[j] = facts[j]
    BY <1>5, <2>5, FactsStay
  <2>7. \A x \in Transitive(id, pkg.deps) : x.from[1] # "peer" /\ x.slot = NoSlot
    <3>1. \A x \in Transitive(id, pkg.deps) : x.from = id /\ x.slot = NoSlot
      BY <2>2, TransitiveIs
    <3> QED BY <2>2, <3>1
  <2>8. \A x \in frontier' \ frontier : x.from[1] # "peer" /\ x.slot = NoSlot
    BY <2>3, <2>7
  <2>9. \A x \in packages' \ packages : ~Registry(x)
    BY <2>2, <2>3
  <2> HIDE DEF DirectSlot, NoSlot, Registry
  <2> QED BY <1>2, <1>5, <2>5, <2>6, <2>8, <2>9, DirectStepKeepsPeers
<1> QED BY <1>6, <1>7

LEMMA PeerInvInitially == ASSUME Init PROVE PeerInv
<1>1. /\ packages = {} /\ facts = <<>> /\ slots = [s \in {} |-> 0] /\ pc = "enqueue" /\ stage = "roots" /\ frontier = {}
      /\ iteration = 0 /\ before = 0
  BY DEF Init
<1>2. FactsAreKnown /\ PackagesArePublished /\ AnswersAreGiven
  BY <1>1 DEF FactsAreKnown, PackagesArePublished, AnswersAreGiven
<1>3. RequestsAreKnown /\ SlotsHaveEdges /\ Leave
  BY <1>1 DEF RequestsAreKnown, SlotsHaveEdges, Leave, Leaving, NoSlot
<1>4. Rounds
  BY <1>1 DEF Rounds, InRound
<1> QED BY <1>2, <1>3, <1>4 DEF PeerInv

LEMMA PeerInvIsKept == ASSUME ResolverInv, PeerInv, [Next]_vars PROVE PeerInv'
<1>1. CASE UNCHANGED vars
  <2>1. UNCHANGED <<manifest, lock, flow, groups, next, results>>
    BY <1>1 DEF vars, pool
  <2> QED BY <2>1, PeersAtRest
<1>2. CASE Coordinate
  <2>1. CASE Offer
    <3>1. UNCHANGED <<manifest, lock, flow>> /\ pc = "prepare"
      BY <2>1 DEF Offer
    <3> QED BY <3>1, PeersAtRest
  <2> QED BY <1>2, <2>1, EnqueueDirectKeepsPeers, ApplyControllersKeepsPeers, RefuseFrontierKeepsPeers,
             LeaveFrontiersKeepsPeers, PrepareGroupsKeepsPeers, BeginCommitKeepsPeers, PassOverKeepsPeers,
             CommitFailureKeepsPeers, CommitPackageKeepsPeers, EndCommitKeepsPeers, ResolvePeersKeepsPeers,
             PeersSettledKeepsPeers, ReconcileKeepsPeers, PruneKeepsPeers, RecomputeKeepsPeers,
             FinalizeKeepsPeers DEF Coordinate
<1>3. ASSUME NEW w \in Workers, Work(w) PROVE PeerInv'
  <2>1. Settled
    BY DEF ResolverInv
  <2>2. UNCHANGED <<manifest, lock, flow>>
    BY <1>3, Zenon DEF Work, Take, LookupMetadata, MetadataArrives, MetadataFails, NoVersion, AlreadySeen, LookupPackage,
                ArtifactArrives, Await
  <2>3. pc # "commit"
    BY <1>3, <2>1 DEF Settled, Busy, Work, Take, LookupMetadata, MetadataArrives, MetadataFails, NoVersion, AlreadySeen,
                      LookupPackage, ArtifactArrives, Await, At
  <2> QED BY <2>2, <2>3, PeersAtRest
<1> QED BY <1>1, <1>2, <1>3 DEF Next

LEMMA PeerInvIsSound == ASSUME PeerInv PROVE RequirementsAreMet
<1>1. pc = "done" => PeersAreAnswered
  BY DEF PeerInv, Leave
<1> QED BY <1>1 DEF RequirementsAreMet, PeersAreAnswered, Succeeded

(* Every peer that a lock requires is met, or reported: the rounds go on until  *)
(* no controller of a slot is unprovided, what a round selects is still led to   *)
(* when the edges of the peers are reconciled and the unreachable are pruned,     *)
(* and a requirement that another one overrides is at least named                *)
(* (resolvePeerRequirements, finalizeRequirementTape).                           *)
THEOREM RequirementsAreAnswered == Spec => []RequirementsAreMet
<1>1. Spec => [](ResolverInv /\ PeerInv)
  <2>1. Init => ResolverInv /\ PeerInv
    BY ResolverInvInitially, PeerInvInitially
  <2>2. (ResolverInv /\ PeerInv) /\ [Next]_vars => (ResolverInv /\ PeerInv)'
    BY ResolverInvIsKept, PeerInvIsKept
  <2> QED BY <2>1, <2>2, PTL DEF Spec
<1>2. ResolverInv /\ PeerInv => RequirementsAreMet
  BY PeerInvIsSound
<1> QED BY <1>1, <1>2, PTL

-----------------------------------------------------------------------------
(* The chain of endpoints behind a source.  A request goes on to the next        *)
(* endpoint only past one that is out of reach or has nothing to offer.          *)
Chain == INSTANCE RegistryChain

LEMMA AnswersAreTyped ==
  ASSUME NEW e \in Chain!Endpoint
  PROVE  Chain!Metadata(e) \in Chain!Answer /\ Chain!Artifact(e) \in Chain!Answer /\ e.skips \in BOOLEAN
<1>1. /\ e.skips \in BOOLEAN
      /\ e.metadata[1] \in Chain!Answer /\ e.metadata[2] \in Chain!Answer
      /\ e.artifact[1] \in Chain!Answer /\ e.artifact[2] \in Chain!Answer
  BY DEF Chain!Endpoint
<1>2. "ok" \in Chain!Answer
  BY DEF Chain!Answer
<1> QED BY <1>1, <1>2 DEF Chain!Metadata, Chain!Artifact, Chain!Get

LEMMA EndpointsAreListed ==
  ASSUME NEW S, NEW chain \in Seq(S)
  PROVE  Len(chain) \in Nat /\ DOMAIN chain = 1 .. Len(chain) /\ \A i \in DOMAIN chain : chain[i] \in S
OBVIOUS

LEMMA FallingBackIsEarned ==
  ASSUME NEW answer \in Chain!Answer, NEW skips \in BOOLEAN, answer # "ok", Chain!FallbackWorthy(answer, skips, FALSE)
  PROVE  answer \in {"broken", "cut"} \/ (answer = "missing" /\ skips)
BY DEF Chain!FallbackWorthy, Chain!Answer

LEMMA MetadataIsEarned ==
  ASSUME NEW chain \in Seq(Chain!Endpoint)
  PROVE  /\ Chain!MetadataFrom(chain, FALSE) \in DOMAIN chain \cup {0}
         /\ Chain!MetadataFailsClosed(chain, FALSE)
<1> DEFINE Good(k) == /\ Chain!Metadata(chain[k]) = "ok"
                      /\ \A i \in 1 .. k - 1 : Chain!MetadataFalls(chain[i], FALSE)
<1>1. CASE \E k \in DOMAIN chain : Good(k)
  <2>1. PICK from : from = Chain!MetadataFrom(chain, FALSE)
    OBVIOUS
  <2>2. from \in DOMAIN chain /\ Good(from)
    BY <1>1, <2>1 DEF Chain!MetadataFrom
  <2>3. ASSUME NEW i \in DOMAIN chain, i < from
        PROVE  Chain!OutOfReach(chain[i], Chain!Metadata(chain[i]))
    <3>1. /\ Len(chain) \in Nat /\ DOMAIN chain = 1 .. Len(chain)
          /\ chain[i] \in Chain!Endpoint
      BY EndpointsAreListed
    <3>2. i \in 1 .. from - 1
      BY <2>2, <2>3, <3>1
    <3>3. Chain!MetadataFalls(chain[i], FALSE)
      BY <2>2, <3>2
    <3> QED BY <3>1, <3>3, AnswersAreTyped, FallingBackIsEarned DEF Chain!MetadataFalls, Chain!OutOfReach
  <2> QED BY <2>1, <2>2, <2>3 DEF Chain!MetadataFailsClosed
<1>2. CASE ~\E k \in DOMAIN chain : Good(k)
  <2>1. Chain!MetadataFrom(chain, FALSE) = 0
    BY <1>2 DEF Chain!MetadataFrom
  <2>2. \A i \in DOMAIN chain : ~(i < 0)
    OBVIOUS
  <2> QED BY <2>1, <2>2 DEF Chain!MetadataFailsClosed
<1> QED BY <1>1, <1>2

(* An endpoint is passed over, or supplies the artifact, by its verdict.           *)
LEMMA PassedOver ==
  ASSUME NEW e \in Chain!Endpoint, NEW wanted, Chain!Verdict(e, wanted, FALSE) = "next"
  PROVE  \/ Chain!OutOfReach(e, Chain!Artifact(e))
         \/ Chain!OutOfReach(e, Chain!Metadata(e))
         \/ e.integrity = "absent" /\ e.skips
<1>1. Chain!Metadata(e) \in Chain!Answer /\ Chain!Artifact(e) \in Chain!Answer /\ e.skips \in BOOLEAN
  BY AnswersAreTyped
<1>2. CASE Chain!Metadata(e) # "ok"
  <2>1. Chain!FallbackWorthy(Chain!Metadata(e), e.skips, FALSE)
    BY <1>2 DEF Chain!Verdict
  <2> QED BY <1>1, <1>2, <2>1, FallingBackIsEarned DEF Chain!OutOfReach
<1>3. CASE Chain!Metadata(e) = "ok" /\ e.integrity = "absent"
  BY <1>3 DEF Chain!Verdict
<1>4. CASE Chain!Metadata(e) = "ok" /\ e.integrity # "absent"
  <2>1. wanted = "none" \/ e.integrity = wanted
    BY <1>4 DEF Chain!Verdict
  <2>2. Chain!Artifact(e) # "ok" /\ Chain!FallbackWorthy(Chain!Artifact(e), FALSE, FALSE)
    BY <1>4, <2>1 DEF Chain!Verdict
  <2> QED BY <1>1, <2>2, FallingBackIsEarned DEF Chain!OutOfReach
<1> QED BY <1>2, <1>3, <1>4

LEMMA Supplied ==
  ASSUME NEW e, NEW wanted, Chain!Verdict(e, wanted, FALSE) = "ok"
  PROVE  e.integrity # "absent" /\ (wanted # "none" => e.integrity = wanted)
BY DEF Chain!Verdict

LEMMA SuppliedFrom ==
  ASSUME NEW got, NEW ends, NEW end, NEW verdict, got.from # 0,
         got = IF ends = {} THEN [from |-> 0, error |-> "FALLBACK_EXHAUSTED"]
               ELSE IF verdict = "ok" THEN [from |-> end, error |-> "none"]
               ELSE [from |-> 0, error |-> verdict]
  PROVE  ends # {} /\ verdict = "ok" /\ got.from = end
<1>1. CASE ends = {}
  BY <1>1
<1>2. CASE ends # {} /\ verdict = "ok"
  BY <1>2
<1>3. CASE ends # {} /\ verdict # "ok"
  BY <1>3
<1> QED BY <1>1, <1>2, <1>3

LEMMA FallbackIsEarned ==
  ASSUME NEW chain \in Seq(Chain!Endpoint), NEW from \in DOMAIN chain, NEW got,
         got = Chain!Fallback(chain, from, FALSE), got.from # 0
  PROVE  /\ got.from \in from + 1 .. Len(chain)
         /\ chain[got.from].integrity # "absent"
         /\ Chain!Offered(chain, from) # "none" => chain[got.from].integrity = Chain!Offered(chain, from)
         /\ \A i \in from + 1 .. got.from - 1 : Chain!Verdict(chain[i], Chain!Offered(chain, from), FALSE) = "next"
<1> DEFINE VerdictOf(k) == Chain!Verdict(chain[k], Chain!Offered(chain, from), FALSE)
<1>1. PICK ends, end : /\ ends = {k \in from + 1 .. Len(chain) : VerdictOf(k) # "next"}
                       /\ end = CHOOSE k \in ends : \A j \in ends : k <= j
  OBVIOUS
<1>2. got = IF ends = {} THEN [from |-> 0, error |-> "FALLBACK_EXHAUSTED"]
            ELSE IF VerdictOf(end) = "ok" THEN [from |-> end, error |-> "none"]
            ELSE [from |-> 0, error |-> VerdictOf(end)]
  BY <1>1 DEF Chain!Fallback
<1>3. from \in Nat /\ Len(chain) \in Nat
  BY EndpointsAreListed
<1> HIDE DEF VerdictOf
<1>4. ends # {} /\ VerdictOf(end) = "ok" /\ got.from = end
  BY <1>2, SuppliedFrom, Zenon
<1>5. end \in ends /\ \A j \in ends : end <= j
  <2>1. ends \in SUBSET Nat
    BY <1>1, <1>3
  <2>2. \E x \in ends : \A j \in ends : x <= j
    BY <1>4, <2>1, Least
  <2> QED BY <1>1, <2>2
<1>6. end \in from + 1 .. Len(chain)
  BY <1>1, <1>5
<1>7. ASSUME NEW i \in from + 1 .. end - 1 PROVE VerdictOf(i) = "next"
  <2>1. i \in from + 1 .. Len(chain) /\ ~(end <= i)
    BY <1>3, <1>6
  <2> QED BY <1>1, <1>5, <2>1
<1>8. /\ chain[end].integrity # "absent"
      /\ Chain!Offered(chain, from) # "none" => chain[end].integrity = Chain!Offered(chain, from)
  BY <1>4, Supplied DEF VerdictOf
<1> QED BY <1>4, <1>6, <1>7, <1>8 DEF VerdictOf

LEMMA ArtifactsAreAnnounced ==
  ASSUME NEW chain \in Seq(Chain!Endpoint)
  PROVE  Chain!ArtifactIsAnnounced(chain, FALSE)
<1>1. PICK from, got : from = Chain!MetadataFrom(chain, FALSE) /\ got = Chain!FetchArtifact(chain, from, FALSE)
  OBVIOUS
<1>2. SUFFICES ASSUME from # 0, Chain!Offered(chain, from) # "absent", got.from # 0
               PROVE  /\ chain[got.from].integrity # "absent"
                      /\ Chain!Offered(chain, from) # "none" => chain[got.from].integrity = Chain!Offered(chain, from)
                      /\ \A i \in from .. got.from - 1 :
                           \/ Chain!OutOfReach(chain[i], Chain!Artifact(chain[i]))
                           \/ i > from /\ (Chain!OutOfReach(chain[i], Chain!Metadata(chain[i]))
                                           \/ (chain[i].integrity = "absent" /\ chain[i].skips))
  BY <1>1 DEF Chain!ArtifactIsAnnounced
<1>3. from \in DOMAIN chain /\ from \in Nat /\ chain[from] \in Chain!Endpoint
  <2>1. from \in DOMAIN chain
    BY <1>1, <1>2, MetadataIsEarned
  <2> QED BY <2>1, EndpointsAreListed
<1>4. CASE Chain!Artifact(chain[from]) = "ok"
  <2>1. got.from = from
    BY <1>1, <1>4 DEF Chain!FetchArtifact
  <2> QED BY <1>2, <1>3, <2>1 DEF Chain!Offered
<1>5. CASE Chain!Artifact(chain[from]) # "ok"
  <2>1. Chain!FallbackWorthy(Chain!Artifact(chain[from]), FALSE, FALSE) /\ got = Chain!Fallback(chain, from, FALSE)
    BY <1>1, <1>2, <1>5 DEF Chain!FetchArtifact
  <2>2. Chain!OutOfReach(chain[from], Chain!Artifact(chain[from]))
    BY <1>3, <1>5, <2>1, AnswersAreTyped, FallingBackIsEarned DEF Chain!OutOfReach
  <2>3. /\ got.from \in from + 1 .. Len(chain)
        /\ chain[got.from].integrity # "absent"
        /\ Chain!Offered(chain, from) # "none" => chain[got.from].integrity = Chain!Offered(chain, from)
        /\ \A i \in from + 1 .. got.from - 1 : Chain!Verdict(chain[i], Chain!Offered(chain, from), FALSE) = "next"
    BY <1>2, <1>3, <2>1, FallbackIsEarned
  <2>4. ASSUME NEW i \in from .. got.from - 1, i # from
        PROVE  /\ i > from
               /\ \/ Chain!OutOfReach(chain[i], Chain!Artifact(chain[i]))
                  \/ Chain!OutOfReach(chain[i], Chain!Metadata(chain[i]))
                  \/ chain[i].integrity = "absent" /\ chain[i].skips
    <3>1. Len(chain) \in Nat /\ DOMAIN chain = 1 .. Len(chain)
      BY EndpointsAreListed
    <3>2. i \in from + 1 .. got.from - 1 /\ i \in DOMAIN chain /\ i > from
      BY <1>3, <2>3, <2>4, <3>1
    <3>3. chain[i] \in Chain!Endpoint /\ Chain!Verdict(chain[i], Chain!Offered(chain, from), FALSE) = "next"
      BY <2>3, <3>2, EndpointsAreListed
    <3> QED BY <3>2, <3>3, PassedOver
  <2> QED BY <2>2, <2>3, <2>4
<1> QED BY <1>4, <1>5

(* However many endpoints a source has and whatever they answer: an endpoint      *)
(* supplies metadata or an artifact only if every endpoint before it is out of      *)
(* reach or declared to be skipped when it has nothing, and what another endpoint    *)
(* supplies is what the metadata announced (fallbackRegistryBackend).  This is of    *)
(* packages whose names do not read like an error.                               *)
THEOREM ChainsFailClosed == \A chain \in Seq(Chain!Endpoint) : Chain!ChainFailsClosed(chain)
BY MetadataIsEarned, ArtifactsAreAnnounced DEF Chain!ChainFailsClosed

=============================================================================
