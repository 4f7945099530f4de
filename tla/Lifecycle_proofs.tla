-------------------------- MODULE Lifecycle_proofs --------------------------
(***************************************************************************)
(* What add, remove, update and sync keep, for every manifest, registry and  *)
(* failure: LockedIsStored, EditsAreAtomic and LockIsReliable of              *)
(* ProjectLifecycle.                                                        *)
(***************************************************************************)
EXTENDS ProjectLifecycle, TLAPS, FiniteSetTheorems, WellFoundedInduction

-----------------------------------------------------------------------------
(* Induction, from the order of the naturals.                                 *)

LEMMA Least ==
  ASSUME NEW T \in SUBSET Nat, T # {}
  PROVE  \E x \in T : \A y \in T : x <= y
<1>1. PICK x \in T : \A y \in T : ~(<<y, x>> \in OpToRel(<, Nat))
  BY WFMin, NatLessThanWellFounded, Zenon
<1>2. \A y \in T : ~(y < x)
  BY <1>1 DEF OpToRel
<1> QED BY <1>2

LEMMA SetInduction ==
  ASSUME NEW S \in SUBSET Nat, 0 \in S, \A n \in S : n + 1 \in S
  PROVE  S = Nat
<1> SUFFICES ASSUME S # Nat PROVE FALSE
  OBVIOUS
<1>1. PICK x \in Nat \ S : \A y \in Nat \ S : x <= y
  BY Least
<1>2. x # 0 /\ x - 1 \in Nat
  OBVIOUS
<1>3. x - 1 \in S
  BY <1>1, <1>2
<1> QED BY <1>1, <1>3

(* A start and a step are iterated by one function.                           *)
LEMMA IterationExists ==
  ASSUME NEW N \in Nat, NEW S, NEW start \in S, NEW step \in [S -> S]
  PROVE  \E g \in [0 .. N -> S] : \A n \in 0 .. N : g[n] = IF n = 0 THEN start ELSE step[g[n - 1]]
<1> DEFINE Iterates(m, g) == /\ g \in [0 .. m -> S]
                             /\ \A n \in 0 .. m : g[n] = IF n = 0 THEN start ELSE step[g[n - 1]]
           T == {m \in Nat : \E g : Iterates(m, g)}
<1>1. 0 \in T
  <2>1. Iterates(0, [n \in 0 .. 0 |-> start])
    OBVIOUS
  <2> QED BY <2>1
<1>2. ASSUME NEW m \in T PROVE m + 1 \in T
  <2>1. PICK g : Iterates(m, g)
    OBVIOUS
  <2> DEFINE h == [n \in 0 .. m + 1 |-> IF n <= m THEN g[n] ELSE step[g[m]]]
  <2>2. h \in [0 .. m + 1 -> S]
    BY <2>1
  <2>3. ASSUME NEW n \in 0 .. m + 1 PROVE h[n] = IF n = 0 THEN start ELSE step[h[n - 1]]
    <3>1. CASE n <= m
      BY <2>1, <3>1
    <3>2. CASE n = m + 1
      BY <2>1, <3>2
    <3> QED BY <3>1, <3>2
  <2>4. Iterates(m + 1, h)
    BY <2>2, <2>3
  <2> HIDE DEF h
  <2> QED BY <2>4
<1>3. N \in T
  <2>1. T = Nat
    <3> HIDE DEF T
    <3>1. T \in SUBSET Nat
      BY DEF T
    <3> QED BY <1>1, <1>2, <3>1, SetInduction
  <2> QED BY <2>1
<1>4. PICK g : Iterates(N, g)
  BY <1>3
<1> QED BY <1>4

(* A set of naturals that is finite and not empty has a greatest element.       *)
LEMMA GreatestExists ==
  ASSUME NEW S \in SUBSET Nat, IsFiniteSet(S), S # {}
  PROVE  \E x \in S : \A y \in S : y <= x
<1> DEFINE Has(X) == X = {} \/ \E x \in X : \A y \in X : y <= x
           T == {n \in Nat : \A X \in SUBSET S : Cardinality(X) = n => Has(X)}
<1>0. \A X \in SUBSET S : IsFiniteSet(X) /\ Cardinality(X) \in Nat
  BY FS_Subset, FS_CardinalityType
<1>1. 0 \in T
  BY <1>0, FS_EmptySet
<1>2. ASSUME NEW n \in T PROVE n + 1 \in T
  <2>1. SUFFICES ASSUME NEW X \in SUBSET S, Cardinality(X) = n + 1 PROVE Has(X)
    OBVIOUS
  <2>2. SUFFICES ASSUME X # {} PROVE Has(X)
    OBVIOUS
  <2>3. PICK z \in X : TRUE
    BY <2>2
  <2>4. Cardinality(X \ {z}) = n
    <3>1. IsFiniteSet(X) /\ n \in Nat
      BY <1>0
    <3>2. Cardinality(X \ {z}) = Cardinality(X) - 1
      BY <2>3, <3>1, FS_RemoveElement, Zenon
    <3> QED BY <2>1, <3>1, <3>2
  <2>5. Has(X \ {z})
    BY <2>1, <2>4
  <2>6. CASE X \ {z} = {}
    BY <2>3, <2>6
  <2>7. CASE X \ {z} # {}
    <3>1. PICK x \in X \ {z} : \A y \in X \ {z} : y <= x
      BY <2>5, <2>7
    <3>2. x \in Nat /\ z \in Nat
      BY <2>1
    <3>3. CASE x <= z
      BY <2>1, <2>3, <3>1, <3>2, <3>3
    <3>4. CASE ~(x <= z)
      BY <2>1, <3>1, <3>2, <3>4
    <3> QED BY <3>3, <3>4
  <2> QED BY <2>6, <2>7
<1>3. T = Nat
  <2> HIDE DEF T
  <2>1. T \in SUBSET Nat
    BY DEF T
  <2> QED BY <1>1, <1>2, <2>1, SetInduction
<1> QED BY <1>0, <1>3

-----------------------------------------------------------------------------
(* Reach: packageClosureForNames, and the closure of a resolution.             *)

LEMMA IdsAreFinite == IsFiniteSet(Ids) /\ Cardinality(Ids) \in Nat
<1> DEFINE Pairs == Names \X Versions
           f == [p \in Pairs |-> Id(p[1], p[2])]
<1>1. IsFiniteSet(Pairs)
  BY LifecycleAssumption, FS_Product
<1>2. f \in Surjection(Pairs, Ids)
  <2>1. ASSUME NEW p \in Pairs PROVE f[p] \in Ids
    BY DEF Ids, Id
  <2>2. ASSUME NEW q \in Ids PROVE \E p \in Pairs : f[p] = q
    <3>1. <<q.name, q.version>> \in Pairs /\ q = Id(q.name, q.version)
      BY DEF Ids, Id
    <3>2. f[<<q.name, q.version>>] = Id(q.name, q.version)
      BY <3>1
    <3> HIDE DEF f, Pairs
    <3> QED BY <3>1, <3>2
  <2>3. f \in [Pairs -> Ids]
    BY <2>1
  <2> HIDE DEF f, Pairs
  <2> QED BY <2>2, <2>3 DEF Surjection
<1>3. IsFiniteSet(Ids)
  <2> HIDE DEF f
  <2> QED BY <1>1, <1>2, FS_Surjection
<1> QED BY <1>3, FS_CardinalityType

(* A step that keeps what it is given and stays within the packages.            *)
Widens(step) ==
  /\ step \in [SUBSET Ids -> SUBSET Ids]
  /\ \A ids \in SUBSET Ids : ids \subseteq step[ids]

Levels(level, start, step) ==
  /\ level \in [0 .. Cardinality(Ids) -> SUBSET Ids]
  /\ \A n \in 0 .. Cardinality(Ids) : level[n] = IF n = 0 THEN start ELSE step[level[n - 1]]
  /\ Reach(start, step) = level[Cardinality(Ids)]

LEMMA LevelsAre ==
  ASSUME NEW start \in SUBSET Ids, NEW step, Widens(step)
  PROVE  \E level : Levels(level, start, step)
<1> DEFINE N == Cardinality(Ids)
           Is(g) == g = [n \in 0 .. N |-> IF n = 0 THEN start ELSE step[g[n - 1]]]
           level == CHOOSE g : Is(g)
<1>1. N \in Nat
  BY IdsAreFinite
<1>2. \E g : Is(g)
  <2>1. step \in [SUBSET Ids -> SUBSET Ids]
    BY DEF Widens
  <2>2. \E g \in [0 .. N -> SUBSET Ids] : Is(g)
    <3> DEFINE S == SUBSET Ids
    <3>1. start \in S /\ step \in [S -> S]
      BY <2>1
    <3> HIDE DEF S, N
    <3>2. PICK g \in [0 .. N -> S] : \A n \in 0 .. N : g[n] = IF n = 0 THEN start ELSE step[g[n - 1]]
      BY <1>1, <3>1, IterationExists
    <3>3. g = [n \in 0 .. N |-> IF n = 0 THEN start ELSE step[g[n - 1]]]
      BY <3>2
    <3> USE DEF S
    <3> QED BY <3>2, <3>3
  <2> QED BY <2>2
<1>3. Is(level)
  BY <1>2
<1>4. Reach(start, step) = level[N]
  BY DEF Reach
<1>5. \A n \in 0 .. N : level[n] = IF n = 0 THEN start ELSE step[level[n - 1]]
  <2> HIDE DEF level, N
  <2> QED BY <1>3
<1>6. \A n \in 0 .. N : level[n] \in SUBSET Ids
  <2> HIDE DEF level, N
  <2> DEFINE T == {n \in Nat : n <= N => level[n] \in SUBSET Ids}
  <2>1. 0 \in T
    BY <1>1, <1>5
  <2>2. \A n \in T : n + 1 \in T
    BY <1>1, <1>5 DEF Widens
  <2>3. T = Nat
    <3> HIDE DEF T
    <3>1. T \in SUBSET Nat
      BY DEF T
    <3> QED BY <2>1, <2>2, <3>1, SetInduction
  <2> QED BY <1>1, <2>3
<1>7. level \in [0 .. N -> SUBSET Ids]
  <2> HIDE DEF level, N
  <2> QED BY <1>3, <1>6
<1>8. Levels(level, start, step)
  <2> HIDE DEF level
  <2> QED BY <1>4, <1>5, <1>7 DEF Levels
<1> QED BY <1>8

(* Either a level is closed, or it has as many packages as there were steps.    *)
LEMMA ReachIs ==
  ASSUME NEW start \in SUBSET Ids, NEW step, Widens(step)
  PROVE  /\ Reach(start, step) \in SUBSET Ids
         /\ start \subseteq Reach(start, step)
         /\ step[Reach(start, step)] = Reach(start, step)
<1> DEFINE N == Cardinality(Ids)
<1>0. PICK level : Levels(level, start, step)
  BY LevelsAre
<1>1. /\ level \in [0 .. N -> SUBSET Ids]
      /\ \A n \in 0 .. N : level[n] = IF n = 0 THEN start ELSE step[level[n - 1]]
      /\ Reach(start, step) = level[N]
  BY <1>0 DEF Levels
<1>2. N \in Nat
  BY IdsAreFinite
<1>3. \A n \in 0 .. N : IsFiniteSet(level[n]) /\ Cardinality(level[n]) \in Nat
  BY <1>1, IdsAreFinite, FS_Subset, FS_CardinalityType
<1> HIDE DEF N
<1> DEFINE Grown(n) == start \subseteq level[n] /\ (step[level[n]] = level[n] \/ Cardinality(level[n]) >= n)
           T == {n \in Nat : n <= N => Grown(n)}
<1>4. 0 \in T
  <2>1. level[0] = start /\ Cardinality(level[0]) >= 0
    BY <1>1, <1>2, <1>3
  <2> QED BY <2>1
<1>5. ASSUME NEW n \in T PROVE n + 1 \in T
  <2> SUFFICES ASSUME n + 1 <= N PROVE Grown(n + 1)
    OBVIOUS
  <2>1. n \in 0 .. N /\ n + 1 \in 0 .. N /\ Grown(n)
    BY <1>2
  <2>2. level[n + 1] = step[level[n]] /\ level[n] \in SUBSET Ids /\ level[n + 1] \in SUBSET Ids
    BY <1>1, <2>1
  <2>3. level[n] \subseteq level[n + 1]
    BY <2>2 DEF Widens
  <2>4. CASE step[level[n]] = level[n]
    BY <2>1, <2>2, <2>4
  <2>5. CASE step[level[n]] # level[n]
    <3>1. Cardinality(level[n]) >= n
      BY <2>1, <2>5
    <3>2. Cardinality(level[n]) <= Cardinality(level[n + 1]) /\ Cardinality(level[n]) # Cardinality(level[n + 1])
      BY <1>3, <2>1, <2>2, <2>3, <2>5, FS_Subset
    <3>3. Cardinality(level[n + 1]) >= n + 1
      BY <1>3, <2>1, <3>1, <3>2
    <3> QED BY <2>1, <2>3, <3>3
  <2> QED BY <2>4, <2>5
<1>6. T = Nat
  <2> HIDE DEF T
  <2>1. T \in SUBSET Nat
    BY DEF T
  <2> QED BY <1>4, <1>5, <2>1, SetInduction
<1>7. Grown(N)
  BY <1>2, <1>6
<1>8. level[N] \in SUBSET Ids
  BY <1>1, <1>2
<1>9. step[level[N]] = level[N]
  <2>1. CASE Cardinality(level[N]) >= N
    <3>1. Cardinality(level[N]) <= N
      BY <1>8, IdsAreFinite, FS_Subset DEF N
    <3>2. Cardinality(level[N]) = Cardinality(Ids)
      BY <1>2, <1>3, <2>1, <3>1 DEF N
    <3>3. level[N] = Ids
      BY <1>8, <3>2, IdsAreFinite, FS_Subset
    <3>4. Ids \subseteq step[Ids] /\ step[Ids] \in SUBSET Ids
      BY DEF Widens
    <3> QED BY <3>3, <3>4
  <2> QED BY <1>7, <2>1
<1> QED BY <1>1, <1>7, <1>8, <1>9

(* It is the least closed set with the start.                                  *)
KeptWithin(S, step) == \A ids \in SUBSET Ids : ids \subseteq S => step[ids] \subseteq S

LEMMA ReachIsLeast ==
  ASSUME NEW start \in SUBSET Ids, NEW step, Widens(step), NEW S,
         start \subseteq S, KeptWithin(S, step)
  PROVE  Reach(start, step) \subseteq S
<1> DEFINE N == Cardinality(Ids)
<1>0. PICK level : Levels(level, start, step)
  BY LevelsAre
<1>1. /\ level \in [0 .. N -> SUBSET Ids]
      /\ \A n \in 0 .. N : level[n] = IF n = 0 THEN start ELSE step[level[n - 1]]
      /\ Reach(start, step) = level[N]
  BY <1>0 DEF Levels
<1>2. N \in Nat
  BY IdsAreFinite
<1> HIDE DEF N
<1> DEFINE T == {n \in Nat : n <= N => level[n] \subseteq S}
<1>3. 0 \in T
  BY <1>1, <1>2
<1>4. ASSUME NEW n \in T PROVE n + 1 \in T
  <2> SUFFICES ASSUME n + 1 <= N PROVE level[n + 1] \subseteq S
    OBVIOUS
  <2>1. n \in 0 .. N /\ n + 1 \in 0 .. N /\ level[n] \subseteq S
    BY <1>2
  <2>2. level[n + 1] = step[level[n]] /\ level[n] \in SUBSET Ids
    BY <1>1, <2>1
  <2> QED BY <2>1, <2>2 DEF KeptWithin
<1>5. T = Nat
  <2> HIDE DEF T
  <2>1. T \in SUBSET Nat
    BY DEF T
  <2> QED BY <1>3, <1>4, <2>1, SetInduction
<1> QED BY <1>1, <1>2, <1>5

-----------------------------------------------------------------------------
(* What a resolution chooses (Choice, Resolved, Resolution).                    *)

Registry == [Names -> SUBSET Versions]

LEMMA GreatestIs ==
  ASSUME NEW S \in SUBSET Versions, S # {}
  PROVE  Max(S) \in S
<1>1. S \in SUBSET Nat /\ IsFiniteSet(S)
  BY LifecycleAssumption, FS_Subset
<1>2. \E x \in S : \A y \in S : y <= x
  BY <1>1, GreatestExists
<1>3. \E x \in S : \A y \in S : x >= y
  BY <1>1, <1>2
<1> QED BY <1>3 DEF Max

(* A requirement that can be met gets a listed version that it admits.           *)
LEMMA ChoiceIs ==
  ASSUME NEW seen \in Registry, NEW r \in Asked, Selectable(seen, {r})
  PROVE  /\ Choice(seen, r) \in Ids
         /\ Choice(seen, r).name = r.name
         /\ Choice(seen, r).version \in seen[r.name] \cap r.range
<1> DEFINE admitted == Candidates(seen, r)
<1>1. admitted = seen[r.name] \cap r.range
  BY DEF Candidates
<1>2. r.name \in Names /\ seen[r.name] \subseteq Versions
  BY DEF Asked, Registry
<1>3. admitted # {}
  BY DEF Selectable
<1>4. Max(admitted) \in admitted
  BY <1>1, <1>2, <1>3, GreatestIs
<1> HIDE DEF admitted
<1>5. Choice(seen, r) = [name |-> r.name, version |-> Max(admitted)]
  BY DEF Choice, Id, admitted
<1> QED BY <1>1, <1>2, <1>4, <1>5 DEF Ids

LEMMA ChildrenAre == \A p \in Ids : Children(p) \in SUBSET Asked
BY LifecycleAssumption DEF Children

LEMMA ChosenIs ==
  ASSUME NEW seen \in Registry, NEW rs \in SUBSET Asked
  PROVE  /\ Chosen(seen, rs) \in SUBSET Ids
         /\ \A p \in Chosen(seen, rs) : p.version \in seen[p.name]
         /\ \A r \in rs : Selectable(seen, {r}) => Choice(seen, r) \in Chosen(seen, rs)
<1>1. ASSUME NEW p \in Chosen(seen, rs) PROVE p \in Ids /\ p.version \in seen[p.name]
  <2>1. PICK r \in rs : Selectable(seen, {r}) /\ p = Choice(seen, r)
    BY DEF Chosen
  <2> QED BY <2>1, ChoiceIs
<1> QED BY <1>1 DEF Chosen

LEMMA RequiredIs ==
  /\ \A ids \in SUBSET Ids : Required(ids) \in SUBSET Asked
  /\ \A ids, more \in SUBSET Ids : ids \subseteq more => Required(ids) \subseteq Required(more)
BY ChildrenAre DEF Required

Grow(decls, seen) == [ids \in SUBSET Ids |-> ids \cup Chosen(seen, Required(ids))]

LEMMA GrowWidens ==
  ASSUME NEW decls \in Seq(Asked), NEW seen \in Registry
  PROVE  Widens(Grow(decls, seen))
<1>1. \A ids \in SUBSET Ids : Chosen(seen, Required(ids)) \in SUBSET Ids
  BY ChosenIs, RequiredIs
<1> QED BY <1>1 DEF Widens, Grow

LEMMA DeclarationsAre ==
  ASSUME NEW decls \in Seq(Asked)
  PROVE  Range(decls) \in SUBSET Asked /\ Range(decls) = {decls[i] : i \in DOMAIN decls}
BY DEF Range

(* The packages that are resolved are listed, and hold what is declared and    *)
(* what each of them requires.                                               *)
LEMMA ResolvedIs ==
  ASSUME NEW decls \in Seq(Asked), NEW seen \in Registry
  PROVE  /\ Resolved(decls, seen) \in SUBSET Ids
         /\ \A p \in Resolved(decls, seen) : p.version \in seen[p.name]
         /\ Chosen(seen, Range(decls)) \subseteq Resolved(decls, seen)
         /\ Chosen(seen, Required(Resolved(decls, seen))) \subseteq Resolved(decls, seen)
<1> DEFINE start == Chosen(seen, Range(decls))
           step == Grow(decls, seen)
           listed == {p \in Ids : p.version \in seen[p.name]}
<1>1. start \in SUBSET Ids /\ start \subseteq listed
  BY ChosenIs, DeclarationsAre
<1>2. Resolved(decls, seen) = Reach(start, step)
  BY DEF Resolved, Grow
<1>3. Widens(step)
  BY GrowWidens
<1>4. KeptWithin(listed, step)
  <2>1. ASSUME NEW ids \in SUBSET Ids, ids \subseteq listed PROVE step[ids] \subseteq listed
    <3>1. Chosen(seen, Required(ids)) \subseteq listed
      BY ChosenIs, RequiredIs
    <3> QED BY <2>1, <3>1 DEF Grow
  <2> HIDE DEF step, listed
  <2> QED BY <2>1 DEF KeptWithin
<1> HIDE DEF start, step, listed
<1>5. Reach(start, step) \subseteq listed
  BY <1>1, <1>3, <1>4, ReachIsLeast
<1>6. /\ Reach(start, step) \in SUBSET Ids
      /\ start \subseteq Reach(start, step)
      /\ step[Reach(start, step)] = Reach(start, step)
  BY <1>1, <1>3, ReachIs
<1> QED BY <1>2, <1>5, <1>6 DEF start, step, listed, Grow

(* A resolvable manifest's declarations and requirements can all be met.         *)
LEMMA AllAreMet ==
  ASSUME NEW decls \in Seq(Asked), NEW seen \in Registry, Resolvable(decls, seen)
  PROVE  /\ \A r \in Range(decls) : Selectable(seen, {r}) /\ Choice(seen, r) \in Resolved(decls, seen)
         /\ \A p \in Resolved(decls, seen) : \A r \in Children(p) :
              Selectable(seen, {r}) /\ Choice(seen, r) \in Resolved(decls, seen)
<1>1. /\ \A r \in Range(decls) : Selectable(seen, {r})
      /\ \A p \in Resolved(decls, seen) : \A r \in Children(p) : Selectable(seen, {r})
  BY DeclarationsAre DEF Resolvable, Selectable
<1>2. \A r \in Range(decls) : Choice(seen, r) \in Resolved(decls, seen)
  BY <1>1, ChosenIs, ResolvedIs, DeclarationsAre
<1>3. ASSUME NEW p \in Resolved(decls, seen), NEW r \in Children(p)
      PROVE  Choice(seen, r) \in Resolved(decls, seen)
  <2>1. r \in Required(Resolved(decls, seen)) /\ Required(Resolved(decls, seen)) \in SUBSET Asked
    BY ResolvedIs, RequiredIs DEF Required
  <2>2. Choice(seen, r) \in Chosen(seen, Required(Resolved(decls, seen)))
    BY <1>1, <2>1, ChosenIs
  <2> QED BY <2>2, ResolvedIs
<1> QED BY <1>1, <1>2, <1>3

(* Two registries that list the same versions of a resolution's packages agree   *)
(* on all of it.                                                             *)
Agree(decls, one, two) == \A p \in Resolved(decls, one) : one[p.name] = two[p.name]

SameAnswer(one, two, r) ==
  /\ Choice(one, r) = Choice(two, r)
  /\ (Selectable(one, {r}) <=> Selectable(two, {r}))

LEMMA SameChoice ==
  ASSUME NEW one \in Registry, NEW two \in Registry, NEW r \in Asked,
         one[r.name] = two[r.name]
  PROVE  SameAnswer(one, two, r)
<1>1. Candidates(one, r) = Candidates(two, r)
  BY DEF Candidates
<1> QED BY <1>1 DEF Choice, Selectable, SameAnswer

LEMMA SameChosen ==
  ASSUME NEW one \in Registry, NEW two \in Registry, NEW rs \in SUBSET Asked,
         \A r \in rs : one[r.name] = two[r.name]
  PROVE  Chosen(one, rs) = Chosen(two, rs)
<1>1. \A r \in rs : SameAnswer(one, two, r)
  BY SameChoice
<1>2. ASSUME NEW p, NEW a \in Registry, NEW b \in Registry, p \in Chosen(a, rs),
             \A r \in rs : SameAnswer(a, b, r)
      PROVE  p \in Chosen(b, rs)
  <2>1. PICK r \in rs : Selectable(a, {r}) /\ p = Choice(a, r)
    BY <1>2 DEF Chosen
  <2>2. Selectable(b, {r}) /\ p = Choice(b, r)
    BY <1>2, <2>1 DEF SameAnswer
  <2> QED BY <2>2 DEF Chosen
<1>3. \A r \in rs : SameAnswer(two, one, r)
  BY <1>1 DEF SameAnswer
<1> QED BY <1>1, <1>2, <1>3

LEMMA SameNames ==
  ASSUME NEW decls \in Seq(Asked), NEW one \in Registry, NEW two \in Registry,
         Resolvable(decls, one), Agree(decls, one, two)
  PROVE  /\ \A r \in Range(decls) : one[r.name] = two[r.name]
         /\ \A r \in Required(Resolved(decls, one)) : one[r.name] = two[r.name]
<1>1. ASSUME NEW r \in Asked, Selectable(one, {r}), Choice(one, r) \in Resolved(decls, one)
      PROVE  one[r.name] = two[r.name]
  BY <1>1, ChoiceIs DEF Agree
<1>2. \A r \in Range(decls) : one[r.name] = two[r.name]
  BY <1>1, AllAreMet, DeclarationsAre
<1>3. ASSUME NEW r \in Required(Resolved(decls, one)) PROVE one[r.name] = two[r.name]
  <2>1. PICK p \in Resolved(decls, one) : r \in Children(p)
    BY DEF Required
  <2>2. r \in Asked
    BY <2>1, ResolvedIs, ChildrenAre
  <2> QED BY <1>1, <2>1, <2>2, AllAreMet
<1> QED BY <1>2, <1>3

LEMMA SameResolved ==
  ASSUME NEW decls \in Seq(Asked), NEW one \in Registry, NEW two \in Registry,
         Resolvable(decls, one), Agree(decls, one, two)
  PROVE  Resolved(decls, one) = Resolved(decls, two)
<1> DEFINE R1 == Resolved(decls, one)
           R2 == Resolved(decls, two)
           s1 == Chosen(one, Range(decls))
           s2 == Chosen(two, Range(decls))
           grow1 == Grow(decls, one)
           grow2 == Grow(decls, two)
<1>1. R1 = Reach(s1, grow1) /\ R2 = Reach(s2, grow2)
  BY DEF Resolved, Grow
<1>2. Widens(grow1) /\ Widens(grow2)
  BY GrowWidens
<1>3. s1 \in SUBSET Ids /\ s1 = s2
  BY SameNames, SameChosen, ChosenIs, DeclarationsAre
<1>4. /\ R1 \in SUBSET Ids /\ s1 \subseteq R1
      /\ R2 \in SUBSET Ids /\ s2 \subseteq R2
  BY ResolvedIs
<1>5. ASSUME NEW ids \in SUBSET Ids, ids \subseteq R1
      PROVE  grow1[ids] = grow2[ids]
  <2>1. Required(ids) \subseteq Required(R1) /\ Required(ids) \in SUBSET Asked
    BY <1>4, <1>5, RequiredIs
  <2>2. Chosen(one, Required(ids)) = Chosen(two, Required(ids))
    BY <2>1, SameNames, SameChosen
  <2> QED BY <2>2 DEF Grow
<1>6. ASSUME NEW decls1 \in Seq(Asked), NEW seen \in Registry, NEW ids \in SUBSET Ids,
             ids \subseteq Resolved(decls1, seen)
      PROVE  Grow(decls1, seen)[ids] \subseteq Resolved(decls1, seen)
  <2> DEFINE R == Resolved(decls1, seen)
  <2>1. /\ Required(ids) \in SUBSET Asked /\ Required(R) \in SUBSET Asked
        /\ Required(ids) \subseteq Required(R)
    BY <1>6, ResolvedIs, RequiredIs
  <2>2. Chosen(seen, Required(ids)) \subseteq Chosen(seen, Required(R))
    BY <2>1 DEF Chosen
  <2> QED BY <1>6, <2>2, ResolvedIs DEF Grow
<1> HIDE DEF R1, R2, s1, s2, grow1, grow2
<1>7. R2 \subseteq R1
  <2>1. KeptWithin(R1, grow2)
    <3>1. ASSUME NEW ids \in SUBSET Ids, ids \subseteq R1 PROVE grow2[ids] \subseteq R1
      BY <1>5, <1>6, <3>1 DEF R1, grow1
    <3> QED BY <3>1 DEF KeptWithin
  <2> QED BY <1>1, <1>2, <1>3, <1>4, <2>1, ReachIsLeast
<1>8. R1 \subseteq R2
  <2>1. KeptWithin(R2, grow1)
    <3>1. ASSUME NEW ids \in SUBSET Ids, ids \subseteq R2 PROVE grow1[ids] \subseteq R2
      <4>1. ids \subseteq R1
        BY <1>7, <3>1
      <4> QED BY <1>5, <1>6, <3>1, <4>1 DEF R2, grow2
    <3> QED BY <3>1 DEF KeptWithin
  <2> QED BY <1>1, <1>2, <1>3, <1>4, <2>1, ReachIsLeast
<1> QED BY <1>7, <1>8 DEF R1, R2

(* The update of an edit computes what its preflight did, when it is answered the *)
(* same (newDependencyEditMemoBackends).                                      *)
LEMMA SameResolution ==
  ASSUME NEW decls \in Seq(Asked), NEW one \in Registry, NEW two \in Registry, NEW endpoint,
         Resolvable(decls, one), Agree(decls, one, two)
  PROVE  Resolvable(decls, two) /\ Resolution(decls, one, endpoint) = Resolution(decls, two, endpoint)
<1> DEFINE ids == Resolved(decls, one)
           asks == {<<Root(decls[i].name), decls[i]>> : i \in DOMAIN decls}
                   \cup (UNION {{<<p, r>> : r \in Children(p)} : p \in ids})
<1>1. Resolved(decls, two) = ids
  BY SameResolved
<1>2. \A r \in Range(decls) : SameAnswer(one, two, r)
  BY SameNames, SameChoice, DeclarationsAre
<1>3. \A p \in ids : \A r \in Children(p) : SameAnswer(one, two, r)
  <2>1. \A p \in ids : \A r \in Children(p) : r \in Asked /\ r \in Required(ids)
    BY ResolvedIs, ChildrenAre DEF Required
  <2> QED BY <2>1, SameNames, SameChoice
<1>4. Resolvable(decls, two)
  <2>1. Selectable(two, {decls[i] : i \in DOMAIN decls})
    BY <1>2, AllAreMet, DeclarationsAre DEF Selectable, SameAnswer
  <2>2. ASSUME NEW p \in ids PROVE Selectable(two, Children(p))
    <3>1. \A r \in Children(p) : Selectable(two, {r})
      BY <1>3, AllAreMet DEF SameAnswer
    <3> QED BY <3>1 DEF Selectable
  <2> QED BY <1>1, <2>1, <2>2 DEF Resolvable
<1>5. ASSUME NEW a \in asks PROVE Choice(one, a[2]) = Choice(two, a[2])
  <2>1. CASE \E i \in DOMAIN decls : a = <<Root(decls[i].name), decls[i]>>
    <3>1. PICK i \in DOMAIN decls : a = <<Root(decls[i].name), decls[i]>>
      BY <2>1
    <3>2. a[2] = decls[i] /\ decls[i] \in Range(decls)
      BY <3>1, DeclarationsAre
    <3> HIDE DEF asks, ids
    <3> QED BY <1>2, <3>2 DEF SameAnswer
  <2>2. CASE \E p \in ids : \E r \in Children(p) : a = <<p, r>>
    <3>1. PICK p \in ids : \E r \in Children(p) : a = <<p, r>>
      BY <2>2
    <3>2. PICK r \in Children(p) : a = <<p, r>>
      BY <3>1
    <3>3. a[2] = r
      BY <3>2
    <3> HIDE DEF asks, ids
    <3> QED BY <1>3, <3>3 DEF SameAnswer
  <2> QED BY <1>5, <2>1, <2>2
<1>6. {[from |-> a[1], to |-> Choice(one, a[2])] : a \in asks}
      = {[from |-> a[1], to |-> Choice(two, a[2])] : a \in asks}
  <2> HIDE DEF asks
  <2> QED BY <1>5
<1>7. {Requirement(a[1], a[2], Choice(one, a[2])) : a \in asks}
      = {Requirement(a[1], a[2], Choice(two, a[2])) : a \in asks}
  <2> HIDE DEF asks
  <2> QED BY <1>5
<1>8. Resolution(decls, one, endpoint) = Resolution(decls, two, endpoint)
  <2>1. \A seen \in {one, two} : Resolution(decls, seen, endpoint) = RebuildModuleInstances(
          [state |-> "whole", packages |-> [p \in ids |-> endpoint],
           edges |-> {[from |-> a[1], to |-> Choice(seen, a[2])] : a \in asks},
           requirements |-> {Requirement(a[1], a[2], Choice(seen, a[2])) : a \in asks}, links |-> {}])
    BY <1>1 DEF Resolution
  <2> HIDE DEF asks, ids
  <2> QED BY <1>6, <1>7, <2>1
<1> QED BY <1>4, <1>8

-----------------------------------------------------------------------------
(* What a lock is (Resolution, Preserved).                                      *)

LockFields == {"state", "packages", "edges", "requirements", "links"}

(* What a lock names was published, and its edges lead to its packages.         *)
Sound(l, listed) ==
  /\ DOMAIN l = LockFields /\ l = [f \in LockFields |-> l[f]]
  /\ l.state \in {"missing", "torn", "whole"}
  /\ Packages(l) \in SUBSET Ids
  /\ \A p \in Packages(l) : p.version \in listed[p.name]
  /\ \A e \in l.edges : e.to \in Packages(l)

LEMMA EmptyLocksAreSound == \A listed : Sound(NoLock, listed) /\ Sound(Torn, listed)
BY DEF Sound, LockFields, NoLock, Torn, Packages

LEMMA SoundLocksStaySound ==
  ASSUME NEW l, NEW before \in Registry, NEW after \in Registry, Sound(l, before),
         \A n \in Names : before[n] \subseteq after[n]
  PROVE  Sound(l, after)
BY DEF Sound, Ids

Asks(decls, ids) ==
  {<<Root(decls[i].name), decls[i]>> : i \in DOMAIN decls} \cup (UNION {{<<p, r>> : r \in Children(p)} : p \in ids})

LEMMA ResolutionFields ==
  ASSUME NEW decls \in Seq(Asked), NEW seen \in Registry, NEW endpoint
  PROVE  LET l == Resolution(decls, seen, endpoint)
         IN /\ DOMAIN l = LockFields /\ l = [f \in LockFields |-> l[f]]
            /\ l.state = "whole" /\ Packages(l) = Resolved(decls, seen)
            /\ l.edges = {[from |-> a[1], to |-> Choice(seen, a[2])] : a \in Asks(decls, Resolved(decls, seen))}
<1> DEFINE ids == Resolved(decls, seen)
           asks == Asks(decls, ids)
           edges == {[from |-> a[1], to |-> Choice(seen, a[2])] : a \in asks}
           requirements == {Requirement(a[1], a[2], Choice(seen, a[2])) : a \in asks}
           l == Resolution(decls, seen, endpoint)
<1>1. l = RebuildModuleInstances([state |-> "whole", packages |-> [p \in ids |-> endpoint], edges |-> edges,
                                  requirements |-> requirements, links |-> {}])
  BY DEF Resolution, Asks
<1> HIDE DEF l, ids, edges, requirements
<1>2. l = [[state |-> "whole", packages |-> [p \in ids |-> endpoint], edges |-> edges,
            requirements |-> requirements, links |-> {}]
           EXCEPT !.links = {e \in edges : IsRoot(e.from)}]
  BY <1>1 DEF RebuildModuleInstances
<1>3. /\ DOMAIN l = LockFields /\ l = [f \in LockFields |-> l[f]]
      /\ l.state = "whole" /\ l.packages = [p \in ids |-> endpoint] /\ l.edges = edges
  BY <1>2 DEF LockFields
<1>4. Packages(l) = ids
  BY <1>3 DEF Packages
<1> QED BY <1>3, <1>4 DEF l, ids, edges

(* Each declaration and each requirement of a package asks once.                 *)
LEMMA AsksAre ==
  ASSUME NEW decls, NEW ids, NEW a
  PROVE  /\ (a \in Asks(decls, ids)) => \/ \E i \in DOMAIN decls : a = <<Root(decls[i].name), decls[i]>>
                                      \/ \E p \in ids : \E r \in Children(p) : a = <<p, r>>
         /\ \A i \in DOMAIN decls : <<Root(decls[i].name), decls[i]>> \in Asks(decls, ids)
         /\ \A p \in ids : \A r \in Children(p) : <<p, r>> \in Asks(decls, ids)
BY DEF Asks

LEMMA ResolutionIsSound ==
  ASSUME NEW decls \in Seq(Asked), NEW seen \in Registry, NEW endpoint, Resolvable(decls, seen)
  PROVE  LET l == Resolution(decls, seen, endpoint) IN Sound(l, seen) /\ l.state = "whole"
<1> DEFINE l == Resolution(decls, seen, endpoint)
           ids == Resolved(decls, seen)
<1>1. /\ DOMAIN l = LockFields /\ l = [f \in LockFields |-> l[f]]
      /\ l.state = "whole" /\ Packages(l) = ids
      /\ l.edges = {[from |-> a[1], to |-> Choice(seen, a[2])] : a \in Asks(decls, ids)}
  BY ResolutionFields
<1> HIDE DEF l
<1>2. ASSUME NEW e \in l.edges PROVE e.to \in ids
  <2>1. PICK a \in Asks(decls, ids) : e = [from |-> a[1], to |-> Choice(seen, a[2])]
    BY <1>1
  <2>2. CASE \E i \in DOMAIN decls : a = <<Root(decls[i].name), decls[i]>>
    <3>1. PICK i \in DOMAIN decls : a = <<Root(decls[i].name), decls[i]>>
      BY <2>2
    <3>2. a[2] = decls[i] /\ decls[i] \in Range(decls)
      BY <3>1, DeclarationsAre
    <3>3. e.to = Choice(seen, decls[i])
      BY <2>1, <3>2
    <3> QED BY <3>2, <3>3, AllAreMet
  <2>3. CASE \E p \in ids : \E r \in Children(p) : a = <<p, r>>
    <3>1. PICK p \in ids : \E r \in Children(p) : a = <<p, r>>
      BY <2>3
    <3>2. PICK r \in Children(p) : a = <<p, r>>
      BY <3>1
    <3>3. a[2] = r
      BY <3>2
    <3>4. e.to = Choice(seen, r)
      BY <2>1, <3>3
    <3> QED BY <3>4, AllAreMet
  <2> QED BY <2>2, <2>3, AsksAre
<1>3. ids \in SUBSET Ids /\ \A p \in ids : p.version \in seen[p.name]
  BY ResolvedIs
<1>4. Sound(l, seen)
  BY <1>1, <1>2, <1>3 DEF Sound
<1> QED BY <1>1, <1>4 DEF l

(* A resolution leads from each of its roots and packages to a version that what *)
(* it asks for admits.                                                         *)
LEMMA ResolutionAnswers ==
  ASSUME NEW decls \in Seq(Asked), NEW seen \in Registry, NEW endpoint, Resolvable(decls, seen)
  PROVE  Answers(decls, Resolution(decls, seen, endpoint))
<1> DEFINE l == Resolution(decls, seen, endpoint)
           ids == Resolved(decls, seen)
<1>1. /\ l.edges = {[from |-> a[1], to |-> Choice(seen, a[2])] : a \in Asks(decls, ids)}
      /\ Packages(l) = ids
  BY ResolutionFields
<1> HIDE DEF l
<1>2. ASSUME NEW from, NEW r \in Asked, Selectable(seen, {r}), <<from, r>> \in Asks(decls, ids)
      PROVE  Leads(l, from, r)
  <2> DEFINE e == [from |-> from, to |-> Choice(seen, r)]
  <2>1. e.to.name = r.name /\ e.to.version \in r.range /\ e.from = from
    BY <1>2, ChoiceIs
  <2>2. e = [from |-> <<from, r>>[1], to |-> Choice(seen, <<from, r>>[2])]
    OBVIOUS
  <2> HIDE DEF e, ids
  <2>3. e \in l.edges
    BY <1>1, <1>2, <2>2
  <2> QED BY <2>1, <2>3 DEF Leads
<1>3. ASSUME NEW e \in l.edges, IsRoot(e.from) PROVE Declares(decls, e.to.name)
  <2>1. PICK a \in Asks(decls, ids) : e = [from |-> a[1], to |-> Choice(seen, a[2])]
    BY <1>1
  <2>2. CASE \E i \in DOMAIN decls : a = <<Root(decls[i].name), decls[i]>>
    <3>1. PICK i \in DOMAIN decls : a = <<Root(decls[i].name), decls[i]>>
      BY <2>2
    <3>2. e.to = Choice(seen, decls[i])
      <4>1. a[2] = decls[i]
        BY <3>1
      <4> QED BY <2>1, <4>1
    <3>3. decls[i] \in Asked /\ Selectable(seen, {decls[i]})
      BY AllAreMet, DeclarationsAre
    <3>4. e.to.name = decls[i].name
      BY <3>2, <3>3, ChoiceIs
    <3> QED BY <3>4 DEF Declares
  <2>3. CASE \E p \in ids : \E r \in Children(p) : a = <<p, r>>
    <3>1. PICK p \in ids : a[1] = p
      BY <2>3
    <3>2. p.version \in Nat \ {0}
      BY ResolvedIs, LifecycleAssumption DEF Ids
    <3>3. e.from = p
      BY <2>1, <3>1
    <3> QED BY <1>3, <3>2, <3>3 DEF IsRoot
  <2> QED BY <2>2, <2>3, AsksAre
<1>4. ASSUME NEW i \in DOMAIN decls PROVE Leads(l, Root(decls[i].name), decls[i])
  <2>1. decls[i] \in Asked /\ Selectable(seen, {decls[i]})
    BY AllAreMet, DeclarationsAre
  <2>2. <<Root(decls[i].name), decls[i]>> \in Asks(decls, ids)
    BY AsksAre
  <2> QED BY <1>2, <2>1, <2>2
<1>5. ASSUME NEW p \in ids, NEW r \in Children(p) PROVE Leads(l, p, r)
  <2>1. r \in Asked /\ Selectable(seen, {r})
    BY AllAreMet, ResolvedIs, ChildrenAre
  <2>2. <<p, r>> \in Asks(decls, ids)
    BY AsksAre
  <2> QED BY <1>2, <2>1, <2>2
<1> QED BY <1>1, <1>3, <1>4, <1>5 DEF Answers, l

(* packageClosureForNames finds packages of the lock.                            *)
LEMMA ClosureIsLocked ==
  ASSUME NEW l, NEW listed, Sound(l, listed), NEW query
  PROVE  ClosureForName(l, query) \subseteq Packages(l)
<1> DEFINE start == {e.to : e \in {x \in l.edges : IsLifecycleRoot(x.from) /\ x.to.name = query}}
           step == [ids \in SUBSET Ids |-> ids \cup {e.to : e \in {x \in l.edges : x.from \in ids}}]
<1>1. ClosureForName(l, query) = Reach(start, step)
  BY DEF ClosureForName
<1>2. Packages(l) \in SUBSET Ids /\ \A e \in l.edges : e.to \in Packages(l)
  BY DEF Sound
<1>3. start \subseteq Packages(l) /\ start \in SUBSET Ids
  BY <1>2
<1>4. Widens(step)
  <2>1. \A ids \in SUBSET Ids : ids \cup {e.to : e \in {x \in l.edges : x.from \in ids}} \in SUBSET Ids
    BY <1>2
  <2> QED BY <2>1 DEF Widens
<1>5. KeptWithin(Packages(l), step)
  <2>1. \A ids \in SUBSET Ids : step[ids] = ids \cup {e.to : e \in {x \in l.edges : x.from \in ids}}
    OBVIOUS
  <2> QED BY <1>2, <2>1 DEF KeptWithin
<1> HIDE DEF start, step
<1> QED BY <1>1, <1>3, <1>4, <1>5, ReachIsLeast

(* A targeted update keeps the packages of the old lock that are outside its    *)
(* closure there: those of the new lock's closure are in the new lock anyway.   *)
LEMMA PreservedIsSound ==
  ASSUME NEW old, NEW next, NEW listed, Sound(old, listed), Sound(next, listed), NEW query
  PROVE  LET l == Preserved(old, next, query)
         IN /\ Sound(l, listed) /\ l.state = next.state
            /\ \A p \in Packages(old) \ ClosureForName(old, query) : p \in Packages(l)
<1> DEFINE closure == ClosureForName(old, query) \cup ClosureForName(next, query)
           kept == Packages(old) \ closure
           l == Preserved(old, next, query)
           edges == {e \in next.edges : Touches(e, closure)} \cup {e \in old.edges : ~Touches(e, closure)}
<1>1. /\ DOMAIN l = LockFields /\ l = [f \in LockFields |-> l[f]]
      /\ l.state = next.state
      /\ DOMAIN l.packages = Packages(next) \cup kept
      /\ l.edges = edges
  <2>1. DOMAIN next = LockFields /\ next = [f \in LockFields |-> next[f]]
    BY DEF Sound
  <2> HIDE DEF kept, closure
  <2> QED BY <2>1 DEF Preserved, LockFields, Packages, closure, kept
<1> HIDE DEF l
<1>2. Packages(l) = Packages(next) \cup kept
  BY <1>1 DEF Packages
<1>3. ASSUME NEW e \in l.edges PROVE e.to \in Packages(l)
  <2>1. CASE e \in next.edges
    BY <1>2, <2>1 DEF Sound
  <2>2. CASE e \in old.edges /\ ~Touches(e, closure)
    <3>1. e.to \in Packages(old) /\ e.to \notin closure
      BY <2>2 DEF Sound, Touches
    <3> QED BY <1>2, <3>1
  <2> QED BY <1>1, <2>1, <2>2
<1>4. Sound(l, listed)
  <2> HIDE DEF edges, closure
  <2>1. /\ Packages(next) \in SUBSET Ids /\ \A p \in Packages(next) : p.version \in listed[p.name]
        /\ Packages(old) \in SUBSET Ids /\ \A p \in Packages(old) : p.version \in listed[p.name]
        /\ next.state \in {"missing", "torn", "whole"}
    BY DEF Sound
  <2>2. /\ Packages(l) \in SUBSET Ids /\ \A p \in Packages(l) : p.version \in listed[p.name]
    BY <1>2, <2>1
  <2> HIDE DEF kept
  <2> QED BY <1>1, <1>3, <2>1, <2>2 DEF Sound
<1>5. ClosureForName(next, query) \subseteq Packages(next)
  BY ClosureIsLocked
<1>6. \A p \in Packages(old) \ ClosureForName(old, query) : p \in Packages(l)
  BY <1>2, <1>5
<1> QED BY <1>1, <1>4, <1>6 DEF l

(* What is pinned asks for the same names.                                       *)
LEMMA PinnedIs ==
  ASSUME NEW decls \in Seq(Asked), NEW l, NEW listed, Sound(l, listed), NEW query
  PROVE  Pinned(decls, l, query) \in Seq(Asked)
<1>1. \A name : LockedVersions(l, name) \in SUBSET Versions
  BY DEF LockedVersions, Sound, Ids
<1>2. \A i \in DOMAIN decls : decls[i] \in Asked
  OBVIOUS
<1>3. \A r \in Asked : \A versions \in SUBSET Versions : [r EXCEPT !.range = versions] \in Asked
  BY DEF Asked
<1> DEFINE pinned == Pinned(decls, l, query)
<1>4. pinned = [i \in DOMAIN decls |-> pinned[i]] /\ \A i \in DOMAIN decls : pinned[i] \in Asked
  BY <1>1, <1>2, <1>3 DEF Pinned
<1>5. DOMAIN decls = 1 .. Len(decls) /\ Len(decls) \in Nat
  OBVIOUS
<1> HIDE DEF pinned
<1> QED BY <1>4, <1>5 DEF pinned

-----------------------------------------------------------------------------
(* Why what is locked is stored: a lock is written only when the packages of   *)
(* it are stored, or are those of the lock before it.                        *)
Fields == {"pc", "op", "name", "range", "code", "base", "original", "planned", "before", "memo",
           "next", "preview", "users"}
Shaped == command.pc # "idle" => DOMAIN command = Fields /\ command = [f \in Fields |-> command[f]]

StoredInvariant ==
  /\ Shaped
  /\ Packages(lock) \subseteq stored
  /\ command.pc \in {"lock", "fill"} => Packages(command.next) \subseteq stored

(* A lock that is not whole names no package.                               *)
LEMMA NothingIsLocked == Packages(NoLock) = {} /\ Packages(Torn) = {}
BY DEF Packages, NoLock, Torn

(* Every step of a command leaves a command, with the same operation
   (RunAddDependency, RunRemoveDependency, Update, Sync).                   *)
LEMMA CommandsKeepTheirShape == ASSUME Shaped, [Next]_vars PROVE Shaped'
<1> USE DEF Shaped, Fields
<1>1. CASE Load \/ Plan \/ WritePlannedFile
  BY <1>1 DEF Load, Plan, WritePlannedFile, Fail, To
<1>2. CASE Preflight \/ Resolve
  BY <1>2 DEF Preflight, Resolve, Refused, Fail
<1>3. CASE Populate \/ TruncateLock \/ WriteLock \/ Rollback \/ Sync
  BY <1>3 DEF Populate, TruncateLock, WriteLock, Rollback, Sync, Refused, Fail, To
<1>4. CASE World
  BY <1>4 DEF World, Start, UserEdits, Publish, Kill, UserRemovesLock, Running, To
<1>5. CASE UNCHANGED vars
  BY <1>5 DEF vars
<1> QED
  BY <1>1, <1>2, <1>3, <1>4, <1>5 DEF Next, Step

(* No step locks a package that is not stored.                              *)
LEMMA StoredInvariantIsKept == ASSUME StoredInvariant, [Next]_vars PROVE StoredInvariant'
<1> USE CommandsKeepTheirShape DEF StoredInvariant, Files
<1>1. CASE Load \/ Plan \/ WritePlannedFile
  BY <1>1 DEF Load, Plan, WritePlannedFile, Fail, To, Shaped, Fields, Packages
<1>2. CASE Preflight
  BY <1>2 DEF Preflight, Refused, Fail, Shaped, Fields, Packages
<1>3. CASE Resolve
  BY <1>3 DEF Resolve, Refused, Fail, HasPackageChanges, Shaped, Fields, Packages
<1>4. CASE Populate
  BY <1>4 DEF Populate, Refused, Fail, To, Shaped, Fields, Packages
<1>5. CASE TruncateLock \/ WriteLock
  BY <1>5, NothingIsLocked DEF TruncateLock, WriteLock, Fail, To, Shaped, Fields, Packages
<1>6. CASE Rollback \/ Sync
  BY <1>6 DEF Rollback, Sync, Fail, To, Shaped, Fields, Packages
<1>7. CASE World
  <2>1. ASSUME NEW c \in Commands, Start(c) PROVE StoredInvariant'
    BY <2>1, <1>7 DEF Start, Packages
  <2>2. ASSUME NEW s \in Manifests, UserEdits(s) PROVE StoredInvariant'
    BY <2>2, <1>7 DEF UserEdits, Running, Shaped, Fields, Packages
  <2>3. CASE Kill
    BY <2>3, <1>7 DEF Kill, Running, To, Shaped, Fields, Packages
  <2>4. CASE UserRemovesLock
    BY <2>4, <1>7, NothingIsLocked DEF UserRemovesLock, Running, Packages
  <2>5. ASSUME NEW n \in Names, NEW v \in Versions, Publish(n, v) PROVE StoredInvariant'
    BY <2>5, <1>7 DEF Publish, Packages
  <2> QED
    BY <1>7, <2>1, <2>2, <2>3, <2>4, <2>5 DEF World
<1>8. CASE UNCHANGED vars
  BY <1>8 DEF vars, Packages
<1> QED
  BY <1>1, <1>2, <1>3, <1>4, <1>5, <1>6, <1>7, <1>8 DEF Next, Step

(* For any packages, versions and manifests: what the lockfile names is stored, *)
(* whatever is edited, fails or is killed.                                   *)
THEOREM LocksAreBacked == Spec => []LockedIsStored
<1>1. Init => StoredInvariant
  BY NothingIsLocked DEF Init, StoredInvariant, Shaped, Idle
<1>2. StoredInvariant /\ [Next]_vars => StoredInvariant'
  BY StoredInvariantIsKept
<1>3. StoredInvariant => LockedIsStored
  BY DEF StoredInvariant, LockedIsStored
<1> QED
  BY <1>1, <1>2, <1>3, PTL DEF Spec

-----------------------------------------------------------------------------
(* Why a failed edit leaves no trace: until its plan is written the manifest is *)
(* the user's, and then it is the plan, over what the user had written, or what *)
(* the user has written since.                                              *)
TraceInvariant ==
  /\ Shaped
  /\ Running /\ Edits =>
       /\ command.pc \in {"load", "plan", "write"} => command.users = manifest
       /\ command.pc \in {"preflight", "resolve", "populate", "rollback"} =>
            manifest = command.users \/ (manifest = command.planned /\ command.users = command.original)
       /\ command.pc \notin {"lock", "fill"} => lock = command.before

(* Each step of an add or a remove, and each edit of the user, keeps it.     *)
LEMMA TraceInvariantIsKept == ASSUME TraceInvariant, [Next]_vars PROVE TraceInvariant'
<1> USE CommandsKeepTheirShape DEF TraceInvariant, Files, Running, Edits, Shaped, Fields
<1>1. CASE Load \/ Plan \/ WritePlannedFile
  <2>1. CASE Load
    BY <2>1 DEF Load, Fail, To
  <2>2. CASE Plan
    BY <2>2 DEF Plan, Fail, To
  <2>3. CASE WritePlannedFile
    BY <2>3 DEF WritePlannedFile, Fail, To
  <2> QED
    BY <1>1, <2>1, <2>2, <2>3
<1>2. CASE Preflight \/ Resolve
  <2>1. CASE Preflight
    BY <2>1 DEF Preflight, Refused, Fail
  <2>2. CASE Resolve
    BY <2>2 DEF Resolve, Refused, Fail
  <2> QED
    BY <1>2, <2>1, <2>2
<1>3. CASE Populate \/ TruncateLock \/ WriteLock
  <2>1. CASE Populate
    BY <2>1 DEF Populate, Refused, Fail, To
  <2>2. CASE TruncateLock
    BY <2>2 DEF TruncateLock, Fail, To
  <2>3. CASE WriteLock
    BY <2>3 DEF WriteLock, Fail, To
  <2> QED
    BY <1>3, <2>1, <2>2, <2>3
<1>4. CASE Rollback \/ Sync
  <2>1. CASE Rollback
    BY <2>1 DEF Rollback, Fail, To
  <2>2. CASE Sync
    BY <2>2 DEF Sync, Fail, To
  <2> QED
    BY <1>4, <2>1, <2>2
<1>5. CASE World
  <2>1. ASSUME NEW c \in Commands, Start(c) PROVE TraceInvariant'
    BY <2>1, <1>5 DEF Start
  <2>2. ASSUME NEW s \in Manifests, UserEdits(s) PROVE TraceInvariant'
    BY <2>2, <1>5 DEF UserEdits
  <2>3. CASE Kill
    BY <2>3, <1>5 DEF Kill, To
  <2>4. CASE UserRemovesLock
    BY <2>4, <1>5 DEF UserRemovesLock
  <2>5. ASSUME NEW n \in Names, NEW v \in Versions, Publish(n, v) PROVE TraceInvariant'
    BY <2>5, <1>5 DEF Publish
  <2> QED
    BY <1>5, <2>1, <2>2, <2>3, <2>4, <2>5 DEF World
<1>6. CASE UNCHANGED vars
  BY <1>6 DEF vars
<1> QED
  BY <1>1, <1>2, <1>3, <1>4, <1>5, <1>6 DEF Next, Step

(* In every step that fails an add or a remove, the manifest is the user's.   *)
LEMMA FailuresLeaveNoTrace == ASSUME TraceInvariant, [Next]_vars PROVE FailsWithoutTrace
<1> USE DEF TraceInvariant, FailsWithoutTrace, Files, Running, Edits, Shaped, Fields
<1>1. CASE Load \/ Plan \/ WritePlannedFile
  <2>1. CASE Load
    BY <2>1 DEF Load, Fail, To
  <2>2. CASE Plan
    BY <2>2 DEF Plan, Fail, To
  <2>3. CASE WritePlannedFile
    BY <2>3 DEF WritePlannedFile, Fail, To
  <2> QED
    BY <1>1, <2>1, <2>2, <2>3
<1>2. CASE Preflight \/ Resolve
  <2>1. CASE Preflight
    BY <2>1 DEF Preflight, Refused, Fail
  <2>2. CASE Resolve
    BY <2>2 DEF Resolve, Refused, Fail
  <2> QED
    BY <1>2, <2>1, <2>2
<1>3. CASE Populate \/ TruncateLock \/ WriteLock
  <2>1. CASE Populate
    BY <2>1 DEF Populate, Refused, Fail, To
  <2>2. CASE TruncateLock
    BY <2>2 DEF TruncateLock, Fail, To
  <2>3. CASE WriteLock
    BY <2>3 DEF WriteLock, Fail, To
  <2> QED
    BY <1>3, <2>1, <2>2, <2>3
<1>4. CASE Rollback \/ Sync
  <2>1. CASE Rollback
    BY <2>1 DEF Rollback, Fail, To
  <2>2. CASE Sync
    BY <2>2 DEF Sync, Fail, To
  <2> QED
    BY <1>4, <2>1, <2>2
<1>5. CASE World
  BY <1>5 DEF World, Start, UserEdits, Publish, Kill, UserRemovesLock, To
<1>6. CASE UNCHANGED vars
  BY <1>6 DEF vars
<1> QED
  BY <1>1, <1>2, <1>3, <1>4, <1>5, <1>6 DEF Next, Step


-----------------------------------------------------------------------------
(* The invariant of what the commands do: the files, the running command, and what *)
(* each of its steps may rely on.                                             *)

FilesAreSound ==
  /\ manifest \in Seq(Asked) /\ published \in Registry
  /\ Sound(lock, published)
  /\ stored \in SUBSET Ids /\ \A p \in stored : p.version \in published[p.name]

CommandIsSound ==
  command.pc # "idle" =>
    /\ command.range \in SUBSET Versions /\ (command.op = "add" => command.name \in Names)
    /\ command.base \in Seq(Asked) /\ command.original \in Seq(Asked) /\ command.planned \in Seq(Asked)
    /\ DOMAIN command.memo \in SUBSET Names /\ \A n \in DOMAIN command.memo : command.memo[n] \subseteq published[n]
    /\ Sound(command.next, published)

(* What is computed is the resolution of what was read, and locked when done.    *)
NextIsWanted ==
  /\ command.pc \in {"load", "plan", "write", "preflight", "resolve"} => command.next = NoLock
  /\ command.pc \in {"plan", "write", "preflight", "resolve"} => Edits
  /\ command.pc # "idle" /\ ~Targeted /\ command.next.state = "whole" =>
       Answers(command.base, command.next) /\ (command.pc = "done" => lock = command.next)
  /\ ClosureIsRespected

(* Asking again gets what the preflight got.                                    *)
PreviewStands ==
  command.pc = "resolve" =>
    /\ Resolvable(command.base, Seen)
    /\ command.preview = Resolution(command.base, Seen, Endpoint)
    /\ \A p \in Resolved(command.base, Seen) : p.name \in DOMAIN command.memo

EditInvariant == Shaped /\ FilesAreSound /\ CommandIsSound /\ NextIsWanted /\ PreviewStands

(* A value of the memo stands for its name, the registry for the others.          *)
LEMMA SeenIs ==
  ASSUME Shaped, FilesAreSound, CommandIsSound, command.pc # "idle"
  PROVE  Seen \in Registry /\ \A n \in Names : Seen[n] \subseteq published[n]
<1>1. ASSUME NEW n \in Names PROVE Seen[n] \in SUBSET Versions /\ Seen[n] \subseteq published[n]
  BY DEF Seen, FilesAreSound, CommandIsSound, Registry
<1>2. Seen = [n \in Names |-> Seen[n]]
  BY DEF Seen
<1> QED BY <1>1, <1>2 DEF Registry

(* What is resolved is declared by the manifest, or pinned by the lock.          *)
LEMMA WantedIs ==
  ASSUME FilesAreSound
  PROVE  Wanted \in Seq(Asked) /\ (~Targeted => Wanted = manifest)
<1>1. Pinned(manifest, lock, command.name) \in Seq(Asked)
  BY PinnedIs DEF FilesAreSound
<1> QED BY <1>1 DEF FilesAreSound, Wanted

(* What an update computes is sound, and what the manifest asks for if it is full. *)
LEMMA NextLockIs ==
  ASSUME Shaped, FilesAreSound, CommandIsSound, command.pc # "idle", ~UpdateRefuses
  PROVE  /\ Sound(NextLock, published) /\ NextLock.state = "whole"
         /\ ~Targeted => Answers(manifest, NextLock)
         /\ Targeted /\ lock.state = "whole" =>
              \A p \in Packages(lock) \ ClosureForName(lock, command.name) : p \in Packages(NextLock)
<1> DEFINE next == Resolution(Wanted, Seen, Endpoint)
<1>1. Wanted \in Seq(Asked) /\ Seen \in Registry /\ Resolvable(Wanted, Seen)
  BY SeenIs, WantedIs DEF UpdateRefuses
<1>2. Sound(next, Seen) /\ next.state = "whole"
  BY <1>1, ResolutionIsSound
<1>3. Sound(next, published) /\ Sound(lock, published)
  BY <1>1, <1>2, SeenIs, SoundLocksStaySound DEF FilesAreSound
<1>4. ~Targeted => Answers(manifest, next)
  <2>1. Valid(manifest)
    BY DEF UpdateRefuses
  <2> QED BY <1>1, <2>1, WantedIs, ResolutionAnswers
<1>5. CASE Targeted /\ lock.state = "whole"
  <2>1. NextLock = Preserved(lock, next, command.name)
    BY <1>5 DEF NextLock
  <2> HIDE DEF next
  <2> QED BY <1>2, <1>3, <1>5, <2>1, PreservedIsSound
<1>6. CASE ~(Targeted /\ lock.state = "whole")
  <2>1. NextLock = next
    BY <1>6 DEF NextLock
  <2> HIDE DEF next
  <2> QED BY <1>2, <1>3, <1>4, <1>6, <2>1
<1> QED BY <1>5, <1>6

(* Every file gets what a command holds, or the user's.                          *)
LEMMA FilesStaySound == ASSUME EditInvariant, [Next]_vars PROVE FilesAreSound'
<1> USE DEF Files
<1>1. Shaped /\ FilesAreSound /\ CommandIsSound
  BY DEF EditInvariant
<1>2. ASSUME UNCHANGED <<manifest, published, lock, stored>> PROVE FilesAreSound'
  BY <1>1, <1>2 DEF FilesAreSound, Sound, Packages
<1>3. CASE Load \/ Plan \/ Preflight \/ Resolve
  BY <1>2, <1>3 DEF Load, Plan, Preflight, Resolve
<1>4. CASE WritePlannedFile \/ Rollback
  <2>1. UNCHANGED <<published, lock, stored>> /\ manifest' \in {manifest, command.planned, command.original}
    BY <1>4 DEF WritePlannedFile, Rollback
  <2>2. command.pc # "idle"
    BY <1>4 DEF WritePlannedFile, Rollback
  <2>3. manifest' \in Seq(Asked)
    BY <1>1, <2>1, <2>2 DEF FilesAreSound, CommandIsSound
  <2> QED BY <1>1, <2>1, <2>3 DEF FilesAreSound, Sound, Packages
<1>5. CASE Populate \/ Sync
  <2>1. UNCHANGED <<manifest, published, lock>>
    BY <1>5 DEF Populate, Sync
  <2>2. command.pc # "idle"
    BY <1>5 DEF Populate, Sync
  <2>3. CASE Populate
    <3>1. stored' \subseteq stored \cup Packages(command.next)
      BY <2>3 DEF Populate
    <3> QED BY <1>1, <2>1, <2>2, <3>1 DEF FilesAreSound, CommandIsSound, Sound, Packages
  <2>4. CASE Sync
    <3>1. stored' \subseteq stored \cup Packages(lock)
      BY <2>4 DEF Sync
    <3> QED BY <1>1, <2>1, <3>1 DEF FilesAreSound, Sound, Packages
  <2> QED BY <1>5, <2>3, <2>4
<1>6. CASE TruncateLock \/ WriteLock
  <2>1. UNCHANGED <<manifest, published, stored>> /\ lock' \in {lock, Torn, command.next}
    BY <1>6 DEF TruncateLock, WriteLock
  <2>2. command.pc # "idle"
    BY <1>6 DEF TruncateLock, WriteLock
  <2>3. Sound(lock', published)
    BY <1>1, <2>1, <2>2, EmptyLocksAreSound DEF FilesAreSound, CommandIsSound
  <2> QED BY <1>1, <2>1, <2>3 DEF FilesAreSound, Sound, Packages
<1>7. CASE World
  <2>1. CASE (\E c \in Commands : Start(c)) \/ Kill
    BY <1>2, <2>1 DEF Start, Kill
  <2>2. ASSUME NEW s \in Manifests, UserEdits(s) PROVE FilesAreSound'
    <3>1. manifest' \in Seq(Asked)
      BY <2>2, LifecycleAssumption DEF UserEdits
    <3> QED BY <1>1, <2>2, <3>1 DEF UserEdits, FilesAreSound, Sound, Packages
  <2>3. ASSUME NEW n \in Names, NEW v \in Versions, Publish(n, v) PROVE FilesAreSound'
    <3>1. published' \in Registry /\ \A m \in Names : published[m] \subseteq published'[m]
      BY <1>1, <2>3 DEF Publish, FilesAreSound, Registry
    <3>2. UNCHANGED <<manifest, lock, stored>>
      BY <2>3 DEF Publish
    <3>3. Sound(lock, published')
      BY <1>1, <3>1, SoundLocksStaySound DEF FilesAreSound
    <3>4. \A p \in stored : p.version \in published'[p.name]
      BY <1>1, <3>1 DEF FilesAreSound, Ids
    <3> QED BY <1>1, <3>1, <3>2, <3>3, <3>4 DEF FilesAreSound, Sound, Packages
  <2>4. CASE UserRemovesLock
    <3>1. lock' = NoLock /\ UNCHANGED <<manifest, published, stored>>
      BY <2>4 DEF UserRemovesLock
    <3> QED BY <1>1, <3>1, EmptyLocksAreSound DEF FilesAreSound, Sound, Packages
  <2> QED BY <1>7, <2>1, <2>2, <2>3, <2>4 DEF World
<1>8. CASE UNCHANGED vars
  BY <1>2, <1>8 DEF vars
<1> QED BY <1>3, <1>4, <1>5, <1>6, <1>7, <1>8 DEF Next, Step

(* A step that fails, waits or writes keeps what was read and computed.          *)
Continues ==
  /\ command.pc # "idle" /\ command'.pc # "idle"
  /\ \A f \in {"op", "name", "range", "base", "original", "planned", "before", "memo", "next", "preview"} :
       command'[f] = command[f]

(* What a command holds, and what was published, is what it was.                 *)
LEMMA CommandsStaySound ==
  ASSUME EditInvariant, Continues, UNCHANGED published
  PROVE  CommandIsSound'
<1> USE DEF EditInvariant, CommandIsSound, Continues
<1>1. Sound(command.next, published)
  OBVIOUS
<1>2. Sound(command'.next, published')
  BY <1>1
<1> QED BY <1>2 DEF Sound, Packages

LEMMA NextsStayWanted ==
  ASSUME EditInvariant, Continues, command'.pc \notin {"load", "plan", "write", "resolve"},
         command'.pc = "preflight" => command.pc = "write",
         command'.pc = "done" /\ ~Targeted /\ command.next.state = "whole" => lock' = command.next
  PROVE  NextIsWanted' /\ PreviewStands'
<1>1. command.next = command'.next /\ command.before = command'.before /\ command.base = command'.base
  BY DEF Continues
<1>2. (Targeted <=> Targeted') /\ (Edits <=> Edits') /\ command'.name = command.name
  BY DEF Targeted, Edits, Continues
<1>3. ClosureIsRespected'
  BY <1>1, <1>2 DEF EditInvariant, NextIsWanted, ClosureIsRespected, ClosureForName, Packages
<1>4. command.next.state = "whole" /\ ~Targeted => Answers(command.base, command.next)
  BY DEF EditInvariant, NextIsWanted, Continues
<1>5. command'.next.state = "whole" /\ ~Targeted' => Answers(command'.base, command'.next)
  BY <1>1, <1>2, <1>4
<1>6. (command'.next.state = "whole" /\ ~Targeted' /\ command'.pc = "done") => lock' = command'.next
  BY <1>1, <1>2
<1>7. command'.pc = "preflight" => command'.next = NoLock /\ Edits'
  BY <1>1, <1>2 DEF EditInvariant, NextIsWanted
<1>8. PreviewStands'
  BY DEF PreviewStands
<1> QED BY <1>3, <1>5, <1>6, <1>7, <1>8 DEF NextIsWanted, Answers, Leads, Declares

LEMMA OutcomesContinue ==
  ASSUME Shaped, command.pc # "idle"
  PROVE  /\ \A code : (Fail(code) \/ Refused(code)) => Continues /\ command'.pc \in {"failed", "rollback"}
         /\ \A pc : To(pc) /\ pc # "idle" => Continues /\ command'.pc = pc
BY DEF Shaped, Fields, Fail, Refused, To, Continues

CommandIsKept == CommandIsSound' /\ NextIsWanted' /\ PreviewStands'

LEMMA FailuresAreKept ==
  ASSUME EditInvariant, command.pc # "idle", UNCHANGED published, NEW code, Fail(code) \/ Refused(code)
  PROVE  CommandIsKept
<1>1. Continues /\ command'.pc \in {"failed", "rollback"}
  BY OutcomesContinue DEF EditInvariant
<1> QED BY <1>1, CommandsStaySound, NextsStayWanted DEF CommandIsKept

(* RunAddDependency, RunRemoveDependency: the manifest is read.                  *)
LEMMA LoadKeeps == ASSUME EditInvariant, Load PROVE CommandIsKept
<1> USE DEF Files
<1>1. CASE Fail("MANIFEST_INVALID")
  BY <1>1, FailuresAreKept DEF Load
<1>2. CASE command' = [command EXCEPT !.pc = "plan", !.base = manifest]
  <2>1. /\ command'.pc = "plan" /\ command'.base = manifest /\ command'.next = NoLock
        /\ command'.op = command.op /\ command'.name = command.name /\ command'.range = command.range
        /\ command'.original = command.original /\ command'.planned = command.planned
        /\ command'.memo = command.memo /\ published' = published /\ Edits
    BY <1>2 DEF Load, EditInvariant, NextIsWanted, Shaped, Fields
  <2>2. CommandIsSound'
    BY <2>1, EmptyLocksAreSound DEF Load, EditInvariant, CommandIsSound, FilesAreSound, Sound, Packages
  <2>3. NextIsWanted' /\ PreviewStands'
    BY <2>1 DEF NextIsWanted, PreviewStands, Edits, Targeted, ClosureIsRespected, NoLock
  <2> QED BY <2>2, <2>3 DEF CommandIsKept
<1> QED BY <1>1, <1>2 DEF Load

LEMMA ReplacedIs ==
  ASSUME NEW S, NEW s \in Seq(S), NEW i, NEW d \in S
  PROVE  [s EXCEPT ![i] = d] \in Seq(S)
<1>1. s \in [1 .. Len(s) -> S] /\ Len(s) \in Nat
  OBVIOUS
<1>2. [s EXCEPT ![i] = d] \in [1 .. Len(s) -> S]
  BY <1>1
<1> QED BY <1>1, <1>2

(* The edit is of names and versions.                                            *)
LEMMA ProjectionIs ==
  ASSUME EditInvariant, command.pc = "plan", Applies(Edit, manifest)
  PROVE  Projected(Edit, manifest) \in Seq(Asked)
<1>1. manifest \in Seq(Asked) /\ (command.op = "add" => command.name \in Names /\ command.range \in SUBSET Versions)
  BY DEF EditInvariant, FilesAreSound, CommandIsSound
<1>2. command.op = "add" => AddDeclaration \in Asked
  BY <1>1 DEF AddDeclaration, Asked, FromVersion
<1>3. CASE command.op = "remove"
  <2>1. Edit.kind = "removed" /\ Edit.index \in DOMAIN manifest
    BY <1>3 DEF Edit, Applies
  <2>2. Projected(Edit, manifest) = RemoveAt(manifest, Edit.index)
    BY <2>1 DEF Projected
  <2> QED BY <1>1, <2>1, <2>2 DEF RemoveAt
<1>4. CASE command.op = "add"
  <2>1. Edit.declaration \in Asked /\ Edit.kind \in {"changed", "added"}
    BY <1>2, <1>4 DEF Edit
  <2>2. CASE Edit.kind = "added"
    <3>1. Projected(Edit, manifest) = Append(manifest, Edit.declaration)
      BY <2>2 DEF Projected
    <3> QED BY <1>1, <2>1, <3>1
  <2>3. CASE Edit.kind = "changed"
    <3>1. Projected(Edit, manifest) = [manifest EXCEPT ![Edit.index] = Edit.declaration]
      BY <2>3 DEF Projected
    <3> QED BY <1>1, <2>1, <3>1, ReplacedIs
  <2> QED BY <2>1, <2>2, <2>3
<1> QED BY <1>3, <1>4 DEF EditInvariant, NextIsWanted, Edits

(* PlanFile: the source is read, and the edit aimed at it.                        *)
LEMMA PlanKeeps == ASSUME EditInvariant, Plan PROVE CommandIsKept
<1> USE DEF Files
<1>0. command.pc = "plan" /\ published' = published
  BY DEF Plan
<1>1. CASE To("done")
  <2>1. Continues /\ command'.pc = "done" /\ command.next.state = "missing"
    BY <1>0, <1>1, OutcomesContinue DEF EditInvariant, NextIsWanted, NoLock
  <2> QED BY <1>0, <2>1, CommandsStaySound, NextsStayWanted DEF CommandIsKept
<1>2. CASE Fail("VERSION_SELECTION_FAILED") \/ Fail("PROJECTION_UNSAFE")
  BY <1>0, <1>2, FailuresAreKept
<1>3. CASE ~Nothing /\ Applies(Edit, manifest) /\ ~To("done") /\ ~Fail("VERSION_SELECTION_FAILED") /\ ~Fail("PROJECTION_UNSAFE")
  <2> DEFINE planned == Projected(Edit, manifest)
             memo == IF command.op = "add" THEN Remember({command.name}) ELSE command.memo
  <2>1. command' = [command EXCEPT !.original = manifest, !.planned = planned, !.memo = memo,
                                   !.pc = IF planned = manifest THEN "done" ELSE "write"]
    BY <1>3 DEF Plan
  <2>2. planned \in Seq(Asked) /\ manifest \in Seq(Asked)
    BY <1>0, <1>3, ProjectionIs DEF EditInvariant, FilesAreSound
  <2>3. DOMAIN memo \in SUBSET Names /\ \A n \in DOMAIN memo : memo[n] \subseteq published[n]
    <3>1. command.op = "add" => command.name \in Names
      BY <1>0 DEF EditInvariant, CommandIsSound
    <3>2. \A n \in Names : Seen[n] \subseteq published[n]
      BY <1>0, SeenIs DEF EditInvariant
    <3>3. DOMAIN command.memo \in SUBSET Names /\ \A n \in DOMAIN command.memo : command.memo[n] \subseteq published[n]
      BY <1>0 DEF EditInvariant, CommandIsSound
    <3> QED BY <3>1, <3>2, <3>3 DEF Remember
  <2> HIDE DEF planned, memo
  <2>4. /\ command'.pc \in {"done", "write"} /\ command'.next = command.next /\ command'.base = command.base
        /\ command'.op = command.op /\ command'.name = command.name /\ command'.range = command.range
        /\ command'.original = manifest /\ command'.planned = planned /\ command'.memo = memo
    BY <2>1 DEF EditInvariant, Shaped, Fields
  <2>5. command'.next = NoLock /\ Edits
    BY <1>0, <2>4 DEF EditInvariant, NextIsWanted
  <2>6. CommandIsSound'
    BY <1>0, <2>2, <2>3, <2>4, <2>5, EmptyLocksAreSound DEF EditInvariant, CommandIsSound, Sound, Packages
  <2>7. NextIsWanted' /\ PreviewStands'
    BY <2>4, <2>5 DEF NextIsWanted, PreviewStands, Edits, Targeted, ClosureIsRespected, NoLock
  <2> QED BY <2>6, <2>7 DEF CommandIsKept
<1> QED BY <1>1, <1>2, <1>3 DEF Plan

(* WritePlannedFile, RestorePlannedFile                                         *)
LEMMA WritesKeep == ASSUME EditInvariant, WritePlannedFile \/ Rollback PROVE CommandIsKept
<1> USE DEF Files
<1>0. published' = published /\ command.pc \in {"write", "rollback"}
  BY DEF WritePlannedFile, Rollback
<1>1. CASE \E code : Fail(code)
  BY <1>0, <1>1, FailuresAreKept
<1>2. CASE To("preflight") /\ command.pc = "write"
  <2>1. Continues /\ command'.pc = "preflight"
    BY <1>2, OutcomesContinue DEF EditInvariant
  <2> QED BY <1>0, <1>2, <2>1, CommandsStaySound, NextsStayWanted DEF CommandIsKept
<1>3. CASE To("failed")
  <2>1. Continues /\ command'.pc = "failed"
    BY <1>0, <1>3, OutcomesContinue DEF EditInvariant
  <2> QED BY <1>0, <2>1, CommandsStaySound, NextsStayWanted DEF CommandIsKept
<1> QED BY <1>1, <1>2, <1>3 DEF WritePlannedFile, Rollback

(* populateStoreParallel, os.WriteFile, Sync                                     *)
LEMMA LocksKeep == ASSUME EditInvariant, Populate \/ TruncateLock \/ WriteLock \/ Sync PROVE CommandIsKept
<1>0. published' = published /\ command.pc \in {"populate", "lock", "fill", "load"}
  BY DEF Populate, TruncateLock, WriteLock, Sync
<1>1. CASE \E code : Fail(code) \/ Refused(code)
  BY <1>0, <1>1, FailuresAreKept
<1>2. CASE To("lock") \/ To("fill")
  <2>1. Continues /\ command'.pc \in {"lock", "fill"}
    BY <1>0, <1>2, OutcomesContinue DEF EditInvariant
  <2> QED BY <1>0, <2>1, CommandsStaySound, NextsStayWanted DEF CommandIsKept
<1>3. CASE To("done") /\ (lock' = command.next \/ command.pc = "load")
  <2>1. Continues /\ command'.pc = "done"
    BY <1>0, <1>3, OutcomesContinue DEF EditInvariant
  <2>2. command.pc = "load" => command.next.state = "missing"
    BY DEF EditInvariant, NextIsWanted, NoLock
  <2> QED BY <1>0, <1>3, <2>1, <2>2, CommandsStaySound, NextsStayWanted DEF CommandIsKept
<1> QED BY <1>1, <1>2, <1>3 DEF Populate, TruncateLock, WriteLock, Sync

(* The preflight: what it computed is the resolution of what it read, and the     *)
(* names it asked for are remembered.                                          *)
LEMMA PreflightKeeps == ASSUME EditInvariant, Preflight PROVE CommandIsKept
<1> USE DEF Files
<1>0. command.pc = "preflight" /\ UNCHANGED <<manifest, published>>
  BY DEF Preflight
<1>1. CASE Refused("REFUSED") \/ Refused("RESOLVE_FAILED")
  BY <1>0, <1>1, FailuresAreKept
<1>2. CASE ~UpdateRefuses /\ command' = [command EXCEPT !.pc = "resolve", !.preview = NextLock, !.base = manifest,
                                            !.memo = Remember({p.name : p \in Packages(NextLock)})]
  <2> DEFINE memo == Remember({p.name : p \in Packages(NextLock)})
             ids == Resolved(manifest, Seen)
  <2>1. Edits /\ ~Targeted /\ command.next = NoLock
    BY <1>0 DEF EditInvariant, NextIsWanted, Edits, Targeted
  <2>2. Seen \in Registry /\ (\A n \in Names : Seen[n] \subseteq published[n]) /\ manifest \in Seq(Asked)
    BY <1>0, SeenIs DEF EditInvariant, FilesAreSound
  <2>3. Resolvable(manifest, Seen) /\ NextLock = Resolution(manifest, Seen, Endpoint)
    BY <1>2, <2>1, WantedIs DEF UpdateRefuses, NextLock, EditInvariant
  <2>4. Packages(NextLock) = ids /\ ids \in SUBSET Ids
    BY <2>2, <2>3, ResolutionFields, ResolvedIs
  <2>5. DOMAIN command.memo \in SUBSET Names
    BY <1>0 DEF EditInvariant, CommandIsSound
  <2>6. memo = [n \in DOMAIN command.memo \cup {p.name : p \in ids} |-> Seen[n]]
    BY <2>1, <2>4 DEF Remember
  <2>7. DOMAIN memo \in SUBSET Names /\ \A n \in DOMAIN memo : memo[n] = Seen[n]
    BY <2>4, <2>5, <2>6 DEF Ids
  <2>8. \A p \in ids : p.name \in DOMAIN memo
    BY <2>6
  <2> HIDE DEF memo
  <2>9. /\ command'.pc = "resolve" /\ command'.preview = NextLock /\ command'.base = manifest /\ command'.memo = memo
        /\ command'.op = command.op /\ command'.name = command.name /\ command'.range = command.range
        /\ command'.original = command.original /\ command'.planned = command.planned /\ command'.next = NoLock
    BY <1>2, <2>1 DEF memo, EditInvariant, Shaped, Fields
  <2>10. Seen' = Seen
    <3>1. \A n \in Names : n \notin DOMAIN memo => Seen[n] = published[n]
      BY <2>6 DEF Seen, memo
    <3>2. \A n \in Names : (IF n \in DOMAIN command'.memo THEN command'.memo[n] ELSE published'[n]) = Seen[n]
      BY <1>0, <2>7, <2>9, <3>1
    <3>3. Seen' = [n \in Names |-> IF n \in DOMAIN command'.memo THEN command'.memo[n] ELSE published'[n]]
      BY DEF Seen
    <3>4. Seen = [n \in Names |-> Seen[n]]
      BY DEF Seen
    <3> QED BY <3>2, <3>3, <3>4
  <2>11. CommandIsSound'
    <3>1. \A n \in DOMAIN memo : memo[n] \subseteq published[n]
      BY <2>2, <2>7
    <3> QED BY <1>0, <2>2, <2>7, <2>9, <3>1, EmptyLocksAreSound DEF EditInvariant, CommandIsSound, Sound, Packages
  <2>12. NextIsWanted'
    <3>1. Edits' /\ ~Targeted' /\ command'.next = NoLock /\ NoLock.state = "missing"
      BY <2>1, <2>9 DEF Edits, Targeted, NoLock
    <3> HIDE DEF ids
    <3> QED BY <3>1 DEF NextIsWanted, ClosureIsRespected
  <2>13. PreviewStands'
    <3>1. Endpoint' = Endpoint
      BY <2>9 DEF Endpoint
    <3> QED BY <2>3, <2>8, <2>9, <2>10, <3>1 DEF PreviewStands
  <2> QED BY <2>11, <2>12, <2>13 DEF CommandIsKept
<1> QED BY <1>1, <1>2 DEF Preflight

(* The update: what it computed is what it will store and lock.                  *)
LEMMA ResolveKeeps == ASSUME EditInvariant, Resolve PROVE CommandIsKept
<1> USE DEF Files
<1>0. command.pc \in {"load", "resolve"} /\ UNCHANGED <<manifest, published, lock>>
  BY DEF Resolve
<1>1. CASE Refused("REFUSED") \/ Refused("RESOLVE_FAILED")
  BY <1>0, <1>1, FailuresAreKept
<1>2. CASE ~UpdateRefuses /\ command' = [command EXCEPT !.next = NextLock, !.before = lock, !.base = manifest,
               !.pc = IF ~Targeted \/ HasPackageChanges(lock, NextLock) THEN "populate"
                      ELSE IF HasRequirementChanges(lock, NextLock) THEN "lock" ELSE "done"]
  <2>1. /\ Sound(NextLock, published) /\ NextLock.state = "whole"
        /\ (~Targeted => Answers(manifest, NextLock))
        /\ (Targeted /\ lock.state = "whole" =>
              \A p \in Packages(lock) \ ClosureForName(lock, command.name) : p \in Packages(NextLock))
    BY <1>0, <1>2, NextLockIs DEF EditInvariant
  <2> DEFINE next == NextLock
  <2>2. /\ command'.pc \in {"populate", "lock", "done"} /\ (command'.pc = "done" => Targeted)
        /\ command'.next = next /\ command'.before = lock /\ command'.base = manifest
        /\ command'.op = command.op /\ command'.name = command.name /\ command'.range = command.range
        /\ command'.original = command.original /\ command'.planned = command.planned
        /\ command'.memo = command.memo
    BY <1>2 DEF EditInvariant, Shaped, Fields
  <2> HIDE DEF next
  <2>3. Sound(next, published) /\ manifest \in Seq(Asked)
    BY <2>1 DEF next, EditInvariant, FilesAreSound
  <2>4. CommandIsSound'
    BY <1>0, <2>2, <2>3 DEF EditInvariant, CommandIsSound, Sound, Packages
  <2>5. Targeted <=> Targeted'
    BY <1>0, <2>2 DEF Targeted
  <2>6. ClosureIsRespected'
    BY <2>1, <2>2, <2>5 DEF next, ClosureIsRespected, ClosureForName, Packages
  <2>7. command'.next.state = "whole" /\ ~Targeted' =>
          Answers(command'.base, command'.next) /\ (command'.pc = "done" => lock' = command'.next)
    BY <2>1, <2>2, <2>5 DEF next
  <2>8. NextIsWanted' /\ PreviewStands'
    BY <2>2, <2>6, <2>7 DEF NextIsWanted, PreviewStands, Answers, Leads, Declares
  <2> QED BY <2>4, <2>8 DEF CommandIsKept
<1> QED BY <1>1, <1>2 DEF Resolve

(* A command starts on the files as they are; the user's edit is noticed.          *)
LEMMA StartKeeps == ASSUME EditInvariant, NEW c \in Commands, Start(c) PROVE CommandIsKept
<1>1. /\ command'.pc = "load" /\ command'.next = NoLock /\ command'.memo = << >>
      /\ command'.base = manifest /\ command'.original = manifest /\ command'.planned = manifest
      /\ command'.op = c.op /\ command'.name = c.name /\ command'.range = c.range
  BY DEF Start
<1>2. published' = published /\ manifest \in Seq(Asked)
  BY DEF Start, Files, EditInvariant, FilesAreSound
<1>3. c.range \in SUBSET Versions /\ (c.op = "add" => c.name \in Names)
  BY LifecycleAssumption
<1>4. DOMAIN command'.memo = {}
  BY <1>1
<1>5. CommandIsSound'
  BY <1>1, <1>2, <1>3, <1>4, EmptyLocksAreSound DEF CommandIsSound, Sound, Packages
<1>6. NextIsWanted' /\ PreviewStands'
  BY <1>1 DEF NextIsWanted, PreviewStands, ClosureIsRespected, NoLock
<1> QED BY <1>5, <1>6 DEF CommandIsKept

LEMMA UserEditsKeep == ASSUME EditInvariant, NEW s \in Manifests, UserEdits(s) PROVE CommandIsKept
<1>1. /\ \A f \in {"pc", "op", "name", "range", "base", "original", "planned", "before", "memo", "next", "preview"} :
           command.pc # "idle" => command'[f] = command[f]
      /\ command.pc = "idle" => command' = command
      /\ UNCHANGED <<published, lock>>
  BY DEF UserEdits, Running, EditInvariant, Shaped, Fields
<1>2. CASE command.pc = "idle"
  BY <1>1, <1>2 DEF CommandIsKept, EditInvariant, CommandIsSound, NextIsWanted, PreviewStands, ClosureIsRespected, Targeted
<1>3. CASE command.pc # "idle"
  <2>1. Continues /\ command'.pc = command.pc
    BY <1>1, <1>3 DEF Continues
  <2>2. CommandIsSound'
    BY <1>1, <2>1, CommandsStaySound
  <2>3. /\ command'.op = command.op /\ command'.name = command.name /\ command'.base = command.base
        /\ command'.memo = command.memo /\ command'.next = command.next /\ command'.preview = command.preview
        /\ command'.before = command.before
    BY <2>1 DEF Continues
  <2>4. NextIsWanted'
    <3>1. (Targeted <=> Targeted') /\ (Edits <=> Edits')
      BY <2>1, <2>3, <1>3 DEF Targeted, Edits
    <3>2. ClosureIsRespected'
      BY <2>3, <3>1 DEF EditInvariant, NextIsWanted, ClosureIsRespected, ClosureForName, Packages
    <3>3. command'.next.state = "whole" /\ ~Targeted' =>
            Answers(command'.base, command'.next) /\ (command'.pc = "done" => lock' = command'.next)
      BY <1>1, <1>3, <2>1, <2>3, <3>1 DEF EditInvariant, NextIsWanted
    <3> QED BY <2>1, <2>3, <3>1, <3>2, <3>3 DEF EditInvariant, NextIsWanted, Answers, Leads, Declares
  <2>5. Seen' = Seen /\ Endpoint' = Endpoint
    BY <1>1, <2>3 DEF Seen, Endpoint
  <2>6. PreviewStands'
    BY <2>1, <2>3, <2>5 DEF EditInvariant, PreviewStands
  <2> QED BY <2>2, <2>4, <2>6 DEF CommandIsKept
<1> QED BY <1>2, <1>3

(* What was remembered is what is seen, whatever is published.                    *)
LEMMA PublishKeeps == ASSUME EditInvariant, NEW n \in Names, NEW v \in Versions, Publish(n, v) PROVE CommandIsKept
<1>0. published \in Registry /\ UNCHANGED <<command, lock>>
  BY DEF Publish, EditInvariant, FilesAreSound
<1>1. published' \in Registry /\ \A m \in Names : published[m] \subseteq published'[m]
  BY <1>0 DEF Publish, Registry
<1>2. CommandIsSound'
  <2> SUFFICES ASSUME command.pc # "idle" PROVE CommandIsSound'
    BY <1>0 DEF CommandIsSound
  <2>1. Sound(command.next, published')
    BY <1>0, <1>1, SoundLocksStaySound DEF EditInvariant, CommandIsSound
  <2>2. \A m \in DOMAIN command.memo : command.memo[m] \subseteq published'[m]
    BY <1>1 DEF EditInvariant, CommandIsSound
  <2> QED BY <1>0, <2>1, <2>2 DEF EditInvariant, CommandIsSound, Sound, Packages
<1>3. NextIsWanted'
  BY <1>0 DEF EditInvariant, NextIsWanted, ClosureIsRespected, ClosureForName, Targeted, Edits, Packages, Answers, Leads, Declares
<1>4. PreviewStands'
  <2> SUFFICES ASSUME command.pc = "resolve" PROVE PreviewStands'
    BY <1>0 DEF PreviewStands
  <2> DEFINE base == command.base
  <2>1. base \in Seq(Asked) /\ Seen \in Registry
    BY SeenIs DEF EditInvariant, CommandIsSound
  <2>2. Seen' \in Registry /\ \A m \in DOMAIN command.memo : m \in Names => Seen'[m] = Seen[m]
    <3>1. ASSUME NEW m \in Names PROVE Seen'[m] \in SUBSET Versions /\ (m \in DOMAIN command.memo => Seen'[m] = Seen[m])
      BY <1>0, <1>1, <2>1 DEF Seen, Registry
    <3>2. Seen' = [m \in Names |-> Seen'[m]]
      BY DEF Seen
    <3> QED BY <3>1, <3>2 DEF Registry
  <2>3. /\ Resolvable(base, Seen)
        /\ command.preview = Resolution(base, Seen, Endpoint)
        /\ \A p \in Resolved(base, Seen) : p.name \in DOMAIN command.memo
    BY DEF EditInvariant, PreviewStands
  <2>4. Agree(base, Seen, Seen')
    BY <2>1, <2>2, <2>3, ResolvedIs DEF Agree, Ids
  <2> HIDE DEF base
  <2>5. Resolvable(base, Seen') /\ Resolution(base, Seen, Endpoint) = Resolution(base, Seen', Endpoint)
    BY <2>1, <2>2, <2>3, <2>4, SameResolution
  <2>6. Resolved(base, Seen) = Resolved(base, Seen')
    BY <2>1, <2>2, <2>3, <2>4, SameResolved
  <2>7. Endpoint' = Endpoint /\ base = command'.base
    BY <1>0 DEF Endpoint, base
  <2> QED BY <1>0, <2>3, <2>5, <2>6, <2>7 DEF PreviewStands
<1> QED BY <1>2, <1>3, <1>4 DEF CommandIsKept

LEMMA WorldKeeps == ASSUME EditInvariant, World PROVE CommandIsKept
<1>1. CASE Kill
  <2>1. command.pc # "idle" /\ UNCHANGED <<published, lock>> /\ To("killed")
    BY <1>1 DEF Kill, Running, Files
  <2>2. Continues /\ command'.pc = "killed"
    BY <2>1, OutcomesContinue DEF EditInvariant
  <2> QED BY <2>1, <2>2, CommandsStaySound, NextsStayWanted DEF CommandIsKept
<1>2. CASE UserRemovesLock
  <2>1. UNCHANGED <<published, command>> /\ lock = Torn /\ Torn.state = "torn"
    BY <1>2 DEF UserRemovesLock, Torn, NoLock
  <2>2. Seen' = Seen /\ Endpoint' = Endpoint
    BY <2>1 DEF Seen, Endpoint
  <2> QED BY <2>1, <2>2 DEF CommandIsKept, EditInvariant, CommandIsSound, NextIsWanted, PreviewStands, ClosureIsRespected,
        ClosureForName, Targeted, Edits, Packages, Answers, Leads, Declares, Sound
<1> QED BY <1>1, <1>2, StartKeeps, UserEditsKeep, PublishKeeps DEF World

LEMMA EditInvariantIsKept == ASSUME EditInvariant, [Next]_vars PROVE EditInvariant'
<1>1. CASE Next
  <2>1. CommandIsKept
    BY <1>1, LoadKeeps, PlanKeeps, WritesKeep, PreflightKeeps, ResolveKeeps, LocksKeep, WorldKeeps DEF Next, Step
  <2> QED BY <1>1, <2>1, CommandsKeepTheirShape, FilesStaySound DEF EditInvariant, CommandIsKept
<1>2. CASE UNCHANGED vars
  <2>1. Seen' = Seen /\ Endpoint' = Endpoint /\ UNCHANGED <<manifest, lock, stored, published, command>>
    BY <1>2 DEF vars, Seen, Endpoint
  <2>2. Shaped' /\ FilesAreSound' /\ CommandIsSound'
    BY <2>1 DEF EditInvariant, Shaped, FilesAreSound, CommandIsSound, Targeted, Edits, Packages, Sound
  <2>3. NextIsWanted'
    BY <2>1 DEF EditInvariant, NextIsWanted, ClosureIsRespected, ClosureForName, Targeted, Edits, Packages
  <2>4. PreviewStands'
    BY <2>1 DEF EditInvariant, PreviewStands, Targeted, Edits, Packages
  <2> QED BY <2>2, <2>3, <2>4 DEF EditInvariant
<1> QED BY <1>1, <1>2

LEMMA EditsBegin == Init => EditInvariant
<1> SUFFICES ASSUME Init PROVE EditInvariant
  OBVIOUS
<1>1. command.pc = "idle" /\ manifest \in Manifests /\ lock = NoLock /\ stored = {}
      /\ published = [n \in Names |-> {Min(Versions)}]
  BY DEF Init, Idle
<1>2. manifest \in Seq(Asked)
  BY <1>1, LifecycleAssumption
<1>3. published \in Registry
  <2>1. \E x \in Versions : \A y \in Versions : x <= y
    BY Least, LifecycleAssumption
  <2>2. Min(Versions) \in Versions
    BY <2>1 DEF Min
  <2> QED BY <1>1, <2>2 DEF Registry
<1> QED BY <1>1, <1>2, <1>3, EmptyLocksAreSound DEF EditInvariant, Shaped, FilesAreSound, CommandIsSound, NextIsWanted,
      PreviewStands, ClosureIsRespected, Targeted

LEMMA EditInvariantHolds == Spec => []EditInvariant
<1> QED BY EditsBegin, EditInvariantIsKept, PTL DEF Spec

(* The update of an add or a remove locks what its preflight announced: nothing     *)
(* that is published in between is seen (newDependencyEditMemoBackends).        *)
LEMMA UpdatesKeepPreflight == ASSUME EditInvariant, [Next]_vars PROVE KeepsPreflight
<1> SUFFICES ASSUME command.pc = "resolve", command'.pc = "populate", manifest = command.base
             PROVE  command'.next = command.preview
  BY DEF KeepsPreflight
<1>1. CASE Resolve
  <2>1. ~UpdateRefuses /\ command'.next = NextLock
    BY <1>1 DEF Resolve, Refused, Fail, EditInvariant, Shaped, Fields
  <2>2. Edits /\ ~Targeted
    BY DEF EditInvariant, NextIsWanted, Edits, Targeted
  <2>3. NextLock = Resolution(manifest, Seen, Endpoint)
    BY <2>2, WantedIs DEF NextLock, EditInvariant
  <2> QED BY <2>1, <2>3 DEF EditInvariant, PreviewStands
<1>2. CASE World
  BY <1>2 DEF World, Start, UserEdits, Publish, Kill, UserRemovesLock, Running, To, EditInvariant, Shaped, Fields
<1>3. CASE UNCHANGED vars
  BY <1>3 DEF vars
<1> QED BY <1>1, <1>2, <1>3 DEF Next, Step, Load, Plan, WritePlannedFile, Preflight, Populate, TruncateLock, WriteLock,
      Rollback, Sync

(* For any manifests, registry and failures: an add or a remove that fails before   *)
(* the lockfile is opened leaves the manifest as its user last wrote it and the     *)
(* lock as it was, and one that goes on locks what its preflight computed, also     *)
(* when the registry publishes in between (dependency_edit.go, memo backends).    *)
THEOREM EditsAreAllOrNothing == Spec => EditsAreAtomic
<1>1. Init => TraceInvariant
  BY DEF Init, TraceInvariant, Shaped, Idle, Running
<1>2. TraceInvariant /\ [Next]_vars => TraceInvariant'
  BY TraceInvariantIsKept
<1>3. TraceInvariant /\ EditInvariant /\ [Next]_vars => [FailsWithoutTrace /\ KeepsPreflight]_vars
  BY FailuresLeaveNoTrace, UpdatesKeepPreflight
<1> QED
  BY <1>1, <1>2, <1>3, EditInvariantHolds, PTL DEF Spec, EditsAreAtomic

(* For any manifests, registry and failures: the lock names published packages and  *)
(* leads to no other, a full update that succeeded locks what the manifest asks     *)
(* for, and a targeted one loses nothing outside the closure of its dependency      *)
(* (Update, preserveNonSelectedTargetedLockEntries).                            *)
THEOREM LocksAreReliable == Spec => []LockIsReliable
<1>1. EditInvariant => LockIsReliable
  <2> SUFFICES ASSUME EditInvariant PROVE LockIsReliable
    OBVIOUS
  <2>1. TypeOK
    BY DEF TypeOK, EditInvariant, FilesAreSound, CommandIsSound, Sound
  <2>2. AcceptedIsLocked
    BY DEF AcceptedIsLocked, EditInvariant, NextIsWanted
  <2>3. ClosureIsRespected
    BY DEF EditInvariant, NextIsWanted
  <2> QED BY <2>1, <2>2, <2>3 DEF LockIsReliable
<1> QED BY <1>1, EditInvariantHolds, PTL
=============================================================================
