--------------------------- MODULE Builds_proofs ---------------------------
(***************************************************************************)
(* Proofs about what a build is used for: the tests of a workflow run          *)
(* (BuiltTests), the creation of a Skyrim fixture and what a run of Skyrim      *)
(* deploys (Skyrim), and the page that shows it (BrowserRuntime).              *)
(***************************************************************************)
EXTENDS BuiltTests, Skyrim, BrowserRuntime, TLAPS, WellFoundedInduction

Leading == {"building", "compiling", "emitting", "compiled"}
Placing == {"verified", "locked", "removed", "copied"}
Place_ == {"planned", "following", "testing", "done", "failed"} \cup Leading \cup Placing
FixtureThere ==
  {Nothing, Unmanaged, Projection}
  \cup [owner : {"fixture"}, producer : BuildTargets, hash : Content \cup {Absent}, files : Content \cup {Absent}]

BuildTypes ==
  /\ TypeOK
  /\ at \in [Effects -> Place_]
  /\ nth \in [Effects -> Nat \ {0}]
  /\ fixture \in [Destinations -> FixtureThere]

(* A test that leads a target has the coordinator's call of it to itself; one *)
(* that follows has somebody to follow; what was received is what was called. *)
Leaders ==
  /\ \A e \in Effects : at[e] \in Leading =>
       todo[e] # <<>> /\ (e \in Tests => calls[Head(todo[e])] = Pending)
  /\ \A e, f \in Tests : (at[e] \in Leading /\ at[f] \in Leading /\ Head(todo[e]) = Head(todo[f])) => e = f
  /\ \A e \in Effects : at[e] = "following" => e \in Tests /\ todo[e] # <<>> /\ calls[Head(todo[e])] # Free
  /\ \A e \in Tests, t \in BuildTargets : got[e][t] # Absent => calls[t] = got[e][t]

CoordinatorInv == BuildTypes /\ Leaders

(* A target that only the coordinator builds stays as it was delivered.       *)
Ours(t) == \A b \in Builds : t \notin ToSet(Plan(b))
Stable ==
  /\ \A b \in Builds : ToSet(todo[b]) \subseteq ToSet(Plan(b))
  /\ \A t \in BuildTargets : (Ours(t) /\ calls[t] \in Content) => output[t] = calls[t]

(* What is known of a test among its fixtures.                                *)
There(e, f) ==
  /\ got[e][f.producer] # Absent
  /\ fixture[f.at] = Built(f.producer, got[e][f.producer], got[e][f.producer])

AtFixtures(e) ==
  /\ todo[e] # <<>> => nth[e] = 1
  /\ at[e] \in Placing => /\ e \in Tests /\ todo[e] = <<>> /\ nth[e] \in DOMAIN Fixtures(e)
                          /\ got[e][Fixture(e).producer] # Absent
  /\ at[e] = "copied" => (Undisturbed(Fixture(e)) => staged[e] = got[e][Fixture(e).producer])
  /\ at[e] = "testing" => todo[e] = <<>> /\ e \notin flawed /\ nth[e] > Len(Fixtures(e))
  /\ e \in Tests \ flawed =>
       \A i \in DOMAIN Fixtures(e) : (i < nth[e] /\ Undisturbed(Fixtures(e)[i])) => There(e, Fixtures(e)[i])

FixtureInv == CoordinatorInv /\ Stable /\ \A e \in Effects : AtFixtures(e)

-----------------------------------------------------------------------------
(* Contents, and the names of the states of a call, are told apart.           *)
LEMMA Names ==
  /\ Absent \notin Content /\ Failed \notin Content /\ Pending \notin Content /\ Free \notin Content
  /\ Absent # Failed /\ Absent # Pending /\ Absent # Free /\ Failed # Pending /\ Failed # Free
  /\ Pending # Free
  /\ \A i \in DOMAIN Revisions : Revisions[i] \in Content
BY EffectAssumption DEF Content, Absent, Failed, Pending, Free, Partial, Versions, ToSet

LEMMA HeadAndTail ==
  ASSUME NEW q \in Seq(BuildTargets), q # <<>>
  PROVE  /\ Head(q) \in BuildTargets /\ Tail(q) \in Seq(BuildTargets)
         /\ Head(q) \in ToSet(q) /\ ToSet(Tail(q)) \subseteq ToSet(q)
BY DEF ToSet

LEMMA ElementOf == ASSUME NEW S, NEW q \in Seq(S), NEW i \in DOMAIN q PROVE q[i] \in S
OBVIOUS

LEMMA EffectTypes ==
  /\ Tests \subseteq Effects /\ Builds = Effects \ Tests
  /\ \A e \in Effects : Fixtures(e) \in Seq([producer : BuildTargets, at : Destinations])
  /\ \A e \in Tests : \A i \in DOMAIN Fixtures(e) :
       Fixtures(e)[i].producer \in BuildTargets /\ Fixtures(e)[i].at \in Destinations
<1>1. Tests \subseteq Effects /\ Builds = Effects \ Tests
  BY DEF Tests, Builds
<1>2. \A e \in Tests : Fixtures(e) \in Seq([producer : BuildTargets, at : Destinations])
  BY EffectAssumption
<1>3. \A e \in Effects \ Tests : Fixtures(e) = <<>>
  BY DEF Fixtures
<1>4. ASSUME NEW e \in Tests, NEW i \in DOMAIN Fixtures(e)
      PROVE  Fixtures(e)[i].producer \in BuildTargets /\ Fixtures(e)[i].at \in Destinations
  <2>1. Fixtures(e)[i] \in [producer : BuildTargets, at : Destinations]
    BY <1>2, ElementOf
  <2> QED
    BY <2>1
<1>5. <<>> \in Seq([producer : BuildTargets, at : Destinations])
  OBVIOUS
<1>6. ASSUME NEW e \in Effects PROVE Fixtures(e) \in Seq([producer : BuildTargets, at : Destinations])
  BY <1>2, <1>3, <1>5
<1> QED
  BY <1>1, <1>4, <1>6

-----------------------------------------------------------------------------
(* An effect whose asking or building of a target is over.                    *)
ReceiveEffect(e, t, result) ==
  /\ todo' = [todo EXCEPT ![e] = Tail(@)]
  /\ got' = [got EXCEPT ![e][t] = IF result = Failed THEN Absent ELSE result]
  /\ at' = [at EXCEPT ![e] = IF result = Failed THEN "failed" ELSE "planned"]
  /\ UNCHANGED <<source, output, fixture, lock, expired, nth, staged, flawed>>
  /\ \/ /\ calls' = calls /\ at[e] = "following" /\ result \in {Failed, calls[t]}
     \/ calls' = calls /\ e \in Builds
     \/ /\ e \in Tests /\ at[e] \in Leading /\ calls' = [calls EXCEPT ![t] = result]
        /\ result \in {Failed, output[t]}

LEMMA ReceivesInv ==
  ASSUME FixtureInv, NEW e \in Effects, at[e] \in Leading \cup {"following"}, todo[e] # <<>>,
         NEW t \in BuildTargets, t = Head(todo[e]), NEW result \in Content \cup {Failed},
         ReceiveEffect(e, t, result)
  PROVE  FixtureInv'
<1> USE DEF FixtureInv, CoordinatorInv
<1>1. /\ todo[e] \in Seq(BuildTargets) /\ todo \in [Effects -> Seq(BuildTargets)]
      /\ got \in [Effects -> [BuildTargets -> Content \cup {Absent}]]
      /\ at \in [Effects -> Place_]
      /\ calls \in [BuildTargets -> Content \cup {Free, Pending, Failed}]
      /\ output \in [BuildTargets -> Content \cup {Absent}]
  BY DEF BuildTypes, TypeOK
<1>2. /\ todo'[e] = Tail(todo[e]) /\ todo' \in [Effects -> Seq(BuildTargets)]
      /\ ToSet(todo'[e]) \subseteq ToSet(todo[e])
      /\ \A f \in Effects \ {e} : todo'[f] = todo[f] /\ got'[f] = got[f] /\ at'[f] = at[f]
      /\ got' \in [Effects -> [BuildTargets -> Content \cup {Absent}]]
      /\ \A u \in BuildTargets \ {t} : got'[e][u] = got[e][u]
      /\ got'[e][t] = IF result = Failed THEN Absent ELSE result
      /\ at'[e] \in {"failed", "planned"} /\ at' \in [Effects -> Place_]
  BY <1>1, HeadAndTail DEF ReceiveEffect, Place_
<1>3. calls' \in [BuildTargets -> Content \cup {Free, Pending, Failed}]
  BY <1>1 DEF ReceiveEffect
<1>4. BuildTypes'
  BY <1>2, <1>3 DEF BuildTypes, TypeOK, ReceiveEffect
<1>5. \A u \in BuildTargets : calls'[u] = calls[u]
        \/ (u = t /\ e \in Tests /\ at[e] \in Leading /\ calls[t] = Pending /\ calls'[t] = result)
  BY <1>1 DEF ReceiveEffect, Leaders
<1>6. Leaders'
  <2>1. ASSUME NEW f \in Effects, at'[f] \in Leading
        PROVE  todo'[f] # <<>> /\ (f \in Tests => calls'[Head(todo'[f])] = Pending)
    <3>1. f # e /\ todo'[f] = todo[f] /\ at'[f] = at[f]
      BY <1>2, <2>1 DEF Leading
    <3>2. todo[f] # <<>> /\ (f \in Tests => calls[Head(todo[f])] = Pending)
      BY <2>1, <3>1 DEF Leaders
    <3>3. todo[f] \in Seq(BuildTargets) /\ Head(todo[f]) \in BuildTargets
      BY <1>1, <3>2, HeadAndTail
    <3>4. f \in Tests /\ e \in Tests /\ at[e] \in Leading => Head(todo[f]) # t
      BY <2>1, <3>1 DEF Leaders
    <3> QED
      BY <1>5, <3>1, <3>2, <3>3, <3>4
  <2>2. \A f, g \in Tests : (at'[f] \in Leading /\ at'[g] \in Leading /\ Head(todo'[f]) = Head(todo'[g])) => f = g
    <3>1. \A f \in Tests : at'[f] \in Leading => f # e
      BY <1>2 DEF Leading
    <3>2. \A f \in Tests \ {e} : at'[f] = at[f] /\ todo'[f] = todo[f]
      BY <1>2, EffectTypes
    <3> QED
      BY <3>1, <3>2 DEF Leaders
  <2>3. ASSUME NEW f \in Effects, at'[f] = "following"
        PROVE  f \in Tests /\ todo'[f] # <<>> /\ calls'[Head(todo'[f])] # Free
    <3>1. f # e /\ todo'[f] = todo[f] /\ at'[f] = at[f]
      BY <1>2, <2>3
    <3>2. f \in Tests /\ todo[f] # <<>> /\ calls[Head(todo[f])] # Free
      BY <2>3, <3>1 DEF Leaders
    <3>3. Head(todo[f]) \in BuildTargets
      BY <1>1, <3>2, HeadAndTail
    <3> QED
      BY <1>5, <3>1, <3>2, <3>3, Names
  <2>4. ASSUME NEW f \in Tests, NEW u \in BuildTargets, got'[f][u] # Absent
        PROVE  calls'[u] = got'[f][u]
    <3>1. CASE f = e /\ u = t
      <4>1. result # Failed /\ got'[e][t] = result
        BY <1>2, <2>4, <3>1
      <4>2. e \notin Builds
        BY <2>4, <3>1 DEF Builds
      <4> QED
        BY <1>1, <3>1, <4>1, <4>2 DEF ReceiveEffect
    <3>2. CASE f # e \/ u # t
      <4>1. got'[f][u] = got[f][u] /\ got[f][u] \in Content
        BY <1>1, <1>2, <2>4, <3>2, EffectTypes
      <4>2. calls[u] = got[f][u]
        BY <2>4, <4>1 DEF Leaders
      <4> QED
        BY <1>5, <4>1, <4>2, Names
    <3> QED
      BY <3>1, <3>2
  <2> QED
    BY <2>1, <2>2, <2>3, <2>4 DEF Leaders
<1>7. Stable'
  <2>1. \A b \in Builds : ToSet(todo'[b]) \subseteq ToSet(Plan(b))
    BY <1>2, EffectTypes DEF Stable
  <2>2. ASSUME NEW u \in BuildTargets, Ours(u), calls'[u] \in Content PROVE output'[u] = calls'[u]
    <3>1. CASE calls'[u] = calls[u]
      BY <2>2, <3>1 DEF Stable, ReceiveEffect
    <3>2. CASE u = t /\ e \in Tests /\ at[e] \in Leading /\ calls[t] = Pending /\ calls'[t] = result
      <4>1. result # Failed /\ e \notin Builds /\ at[e] # "following"
        BY <2>2, <3>2, Names DEF Builds, Leading
      <4> QED
        BY <3>2, <4>1 DEF ReceiveEffect
    <3> QED
      BY <1>5, <3>1, <3>2
  <2> QED
    BY <2>1, <2>2 DEF Stable
<1>8. ASSUME NEW f \in Effects PROVE AtFixtures(f)'
  <2>0. UNCHANGED <<nth, fixture, staged, flawed>> /\ AtFixtures(f) /\ AtFixtures(e)
    BY DEF ReceiveEffect
  <2>1. CASE f = e
    <3>1. nth[e] = 1 /\ at'[e] \notin Placing /\ at'[e] # "copied" /\ at'[e] # "testing"
      BY <1>2, <2>0 DEF AtFixtures, Placing
    <3>2. \A i \in DOMAIN Fixtures(e) : ~(i < nth'[e])
      BY <2>0, <3>1, EffectTypes
    <3> QED
      BY <2>0, <2>1, <3>1, <3>2 DEF AtFixtures
  <2>2. CASE f # e
    BY <1>2, <2>0, <2>2 DEF AtFixtures, There, Fixture
  <2> QED
    BY <2>1, <2>2
<1> QED
  BY <1>4, <1>6, <1>7, <1>8

-----------------------------------------------------------------------------
(* An effect at its build: nothing of its plan changes.                       *)
AtBuild(e, where) ==
  /\ at' = [at EXCEPT ![e] = where]
  /\ UNCHANGED <<source, fixture, lock, expired, todo, got, nth, staged, flawed>>

LEMMA AtBuildInv ==
  ASSUME FixtureInv, BuildTypes', NEW e \in Effects, at[e] \notin Placing, NEW where \in Place_ \ Placing, where # "testing",
         AtBuild(e, where)
  PROVE  \A f \in Effects : AtFixtures(f)'
<1> SUFFICES ASSUME NEW f \in Effects PROVE AtFixtures(f)'
  OBVIOUS
<1> USE DEF AtBuild
<1>0. AtFixtures(f) /\ at \in [Effects -> Place_]
  BY DEF FixtureInv, CoordinatorInv, BuildTypes
<1>1. at'[e] = where /\ \A g \in Effects \ {e} : at'[g] = at[g]
  BY <1>0
<1>2. CASE f = e
  BY <1>0, <1>1, <1>2 DEF AtFixtures, There, Fixture, Placing
<1>3. CASE f # e
  BY <1>0, <1>1, <1>3 DEF AtFixtures, There, Fixture
<1> QED
  BY <1>2, <1>3

LEMMA AskInv ==
  ASSUME FixtureInv, NEW e \in Effects, Ask(e)
  PROVE  FixtureInv'
<1> USE DEF FixtureInv, CoordinatorInv
<1>0. /\ todo \in [Effects -> Seq(BuildTargets)] /\ at \in [Effects -> Place_]
      /\ calls \in [BuildTargets -> Content \cup {Free, Pending, Failed}]
      /\ got \in [Effects -> [BuildTargets -> Content \cup {Absent}]]
  BY DEF BuildTypes, TypeOK
<1>1. at[e] = "planned" /\ todo[e] # <<>> /\ todo[e] \in Seq(BuildTargets) /\ Head(todo[e]) \in BuildTargets
  BY <1>0, HeadAndTail DEF Ask
<1>a. PICK t \in BuildTargets : t = Head(todo[e])
  BY <1>1
<1>b. PICK where \in {"failed", "building", "following"} :
        /\ at' = [at EXCEPT ![e] = where]
        /\ \/ calls' = calls /\ (where = "building" => e \in Builds)
                           /\ (where = "following" => e \in Tests /\ calls[t] # Free)
           \/ e \in Tests /\ where = "building" /\ calls[t] = Free /\ calls' = [calls EXCEPT ![t] = Pending]
  BY <1>a, EffectTypes DEF Ask, Goes, Leads
<1>2. /\ UNCHANGED <<source, output, fixture, lock, expired, todo, got, nth, staged, flawed>>
      /\ at'[e] = where /\ at' \in [Effects -> Place_] /\ \A f \in Effects \ {e} : at'[f] = at[f]
      /\ calls' \in [BuildTargets -> Content \cup {Free, Pending, Failed}]
      /\ \A u \in BuildTargets : calls'[u] = calls[u] \/ (u = t /\ calls[t] = Free /\ calls'[t] = Pending)
  BY <1>0, <1>b DEF Ask, Place_, Leading
<1>3. BuildTypes'
  BY <1>2 DEF BuildTypes, TypeOK
<1>4. Leaders'
  <2>1. ASSUME NEW f \in Effects, at'[f] \in Leading
        PROVE  todo'[f] # <<>> /\ (f \in Tests => calls'[Head(todo'[f])] = Pending)
    <3>1. CASE f = e
      <4>1. where = "building"
        BY <1>2, <1>b, <2>1, <3>1 DEF Leading
      <4>2. e \in Tests => calls' = [calls EXCEPT ![t] = Pending]
        BY <1>b, <4>1 DEF Builds
      <4> QED
        BY <1>0, <1>1, <1>2, <1>a, <3>1, <4>2
    <3>2. CASE f # e
      <4>1. todo[f] # <<>> /\ (f \in Tests => calls[Head(todo[f])] = Pending)
        BY <1>2, <2>1, <3>2 DEF Leaders
      <4>2. Head(todo[f]) \in BuildTargets
        BY <1>0, <4>1, HeadAndTail
      <4> QED
        BY <1>2, <4>1, <4>2
    <3> QED
      BY <3>1, <3>2
  <2>2. ASSUME NEW f \in Tests, NEW g \in Tests, at'[f] \in Leading, at'[g] \in Leading,
               Head(todo'[f]) = Head(todo'[g])
        PROVE  f = g
    <3>1. CASE f # e /\ g # e
      BY <1>2, <2>2, <3>1, EffectTypes DEF Leaders
    <3>2. ASSUME NEW h \in Tests \ {e}, e \in Tests, at'[h] \in Leading, at'[e] \in Leading,
                 Head(todo[h]) = Head(todo[e])
          PROVE  FALSE
      <4>1. calls[t] = Pending
        BY <1>2, <1>a, <3>2, EffectTypes DEF Leaders
      <4>2. where = "building"
        BY <1>2, <1>b, <3>2 DEF Leading
      <4>3. calls[t] = Free
        BY <1>b, <3>2, <4>2 DEF Builds
      <4> QED
        BY <4>1, <4>3, Names
    <3> QED
      BY <1>2, <2>2, <3>1, <3>2
  <2>3. ASSUME NEW f \in Effects, at'[f] = "following"
        PROVE  f \in Tests /\ todo'[f] # <<>> /\ calls'[Head(todo'[f])] # Free
    <3>1. CASE f = e
      BY <1>1, <1>2, <1>a, <1>b, <2>3, <3>1
    <3>2. CASE f # e
      <4>1. f \in Tests /\ todo[f] # <<>> /\ calls[Head(todo[f])] # Free
        BY <1>2, <2>3, <3>2 DEF Leaders
      <4>2. Head(todo[f]) \in BuildTargets
        BY <1>0, <4>1, HeadAndTail
      <4> QED
        BY <1>2, <4>1, <4>2
    <3> QED
      BY <3>1, <3>2
  <2>4. ASSUME NEW f \in Tests, NEW u \in BuildTargets, got'[f][u] # Absent
        PROVE  calls'[u] = got'[f][u]
    <3>1. got[f][u] \in Content /\ calls[u] = got[f][u]
      BY <1>0, <1>2, <2>4, EffectTypes DEF Leaders
    <3> QED
      BY <1>2, <3>1, Names
  <2> QED
    BY <2>1, <2>2, <2>3, <2>4 DEF Leaders
<1>5. Stable'
  BY <1>2, Names DEF Stable
<1>6. \A f \in Effects : AtFixtures(f)'
  <2>1. AtBuild(e, where) /\ where \in Place_ \ Placing /\ where # "testing" /\ at[e] \notin Placing
    BY <1>1, <1>2, <1>b DEF AtBuild, Place_, Placing, Leading
  <2> QED
    BY <1>3, <2>1, AtBuildInv
<1> QED
  BY <1>3, <1>4, <1>5, <1>6

(* The output of the target an effect leads is cleaned and written.           *)
LEMMA OutputInv ==
  ASSUME FixtureInv, NEW e \in Effects, at[e] \in Leading, NEW where \in Leading, NEW x \in Content \cup {Absent},
         NEW t, t = Head(todo[e]), AtBuild(e, where), output' = [output EXCEPT ![t] = x], calls' = calls
  PROVE  FixtureInv'
<1> USE DEF FixtureInv, CoordinatorInv
<1>0. /\ todo \in [Effects -> Seq(BuildTargets)] /\ at \in [Effects -> Place_] /\ where \in Place_
      /\ output \in [BuildTargets -> Content \cup {Absent}] /\ todo[e] # <<>>
  BY DEF BuildTypes, TypeOK, Leaders, Place_
<1>1. t \in BuildTargets /\ t \in ToSet(todo[e])
  BY <1>0, HeadAndTail
<1>2. /\ UNCHANGED <<source, fixture, lock, expired, todo, got, nth, staged, flawed>>
      /\ at'[e] = where /\ at' \in [Effects -> Place_] /\ \A f \in Effects \ {e} : at'[f] = at[f]
      /\ output' \in [BuildTargets -> Content \cup {Absent}]
      /\ \A u \in BuildTargets \ {t} : output'[u] = output[u]
  BY <1>0, <1>1 DEF AtBuild
<1>3. BuildTypes'
  BY <1>2 DEF BuildTypes, TypeOK
<1>4. \A f \in Effects : (at'[f] \in Leading => at[f] \in Leading) /\ (at'[f] = "following" => at[f] = "following")
  BY <1>2 DEF Leading
<1>5. Leaders'
  <2>1. UNCHANGED <<todo, got, calls>>
    BY <1>2
  <2>2. \A f \in Effects : at[f] \in Leading =>
          todo[f] # <<>> /\ (f \in Tests => calls[Head(todo[f])] = Pending)
    BY DEF Leaders
  <2>3. \A f, g \in Tests : (at'[f] \in Leading /\ at'[g] \in Leading /\ Head(todo[f]) = Head(todo[g])) => f = g
    BY <1>4, EffectTypes DEF Leaders
  <2>4. \A f \in Effects : at'[f] = "following" => f \in Tests /\ todo[f] # <<>> /\ calls[Head(todo[f])] # Free
    BY <1>4 DEF Leaders
  <2>5. \A f \in Tests, u \in BuildTargets : got[f][u] # Absent => calls[u] = got[f][u]
    BY DEF Leaders
  <2> QED
    BY <1>4, <2>1, <2>2, <2>3, <2>4, <2>5 DEF Leaders
<1>6. Stable'
  <2>1. CASE e \in Tests
    <3>1. calls[t] = Pending
      BY <2>1 DEF Leaders
    <3> QED
      BY <1>2, <3>1, Names DEF Stable
  <2>2. CASE e \in Builds
    <3>1. ~Ours(t)
      BY <1>1, <2>2 DEF Stable, Ours
    <3> QED
      BY <1>2, <3>1 DEF Stable
  <2> QED
    BY <2>1, <2>2, EffectTypes
<1>7. \A f \in Effects : AtFixtures(f)'
  <2>1. at[e] \notin Placing /\ where \in Place_ \ Placing /\ where # "testing"
    BY <1>0 DEF Leading, Placing
  <2> QED
    BY <1>3, <2>1, AtBuildInv
<1> QED
  BY <1>3, <1>5, <1>6, <1>7

-----------------------------------------------------------------------------
(* An effect among its fixtures: no target is built, and a fixture that a test *)
(* relies on is not replaced by anything else.                               *)
AmongFixtures(e, where) ==
  /\ at' = [at EXCEPT ![e] = where]
  /\ UNCHANGED <<source, output, calls, expired, todo, got>>
  /\ \A f \in Effects \ {e} :
       nth'[f] = nth[f] /\ staged'[f] = staged[f] /\ (f \in flawed' <=> f \in flawed)
  /\ \A f \in Tests, i \in Nat :
       (i \in DOMAIN Fixtures(f) /\ Undisturbed(Fixtures(f)[i]) /\ There(f, Fixtures(f)[i]))
         => There(f, Fixtures(f)[i])'

LEMMA AmongFixturesInv ==
  ASSUME FixtureInv, BuildTypes', NEW e \in Effects, NEW where \in Place_ \ (Leading \cup {"following"}),
         at[e] \notin Leading \cup {"following"}, AmongFixtures(e, where), AtFixtures(e)'
  PROVE  FixtureInv'
<1> USE DEF FixtureInv, CoordinatorInv
<1>1. /\ UNCHANGED <<source, output, calls, expired, todo, got>>
      /\ at'[e] = where /\ \A f \in Effects \ {e} : at'[f] = at[f]
  BY DEF AmongFixtures, BuildTypes
<1>2. \A f \in Effects : (at'[f] \in Leading => at[f] \in Leading) /\ (at'[f] = "following" => at[f] = "following")
  BY <1>1
<1>3. Leaders'
  <2>1. UNCHANGED <<todo, got, calls>>
    BY <1>1
  <2>2. \A f \in Effects : at[f] \in Leading =>
          todo[f] # <<>> /\ (f \in Tests => calls[Head(todo[f])] = Pending)
    BY DEF Leaders
  <2>3. \A f, g \in Tests : (at'[f] \in Leading /\ at'[g] \in Leading /\ Head(todo[f]) = Head(todo[g])) => f = g
    BY <1>2, EffectTypes DEF Leaders
  <2>4. \A f \in Effects : at'[f] = "following" => f \in Tests /\ todo[f] # <<>> /\ calls[Head(todo[f])] # Free
    BY <1>2 DEF Leaders
  <2>5. \A f \in Tests, u \in BuildTargets : got[f][u] # Absent => calls[u] = got[f][u]
    BY DEF Leaders
  <2> QED
    BY <1>2, <2>1, <2>2, <2>3, <2>4, <2>5 DEF Leaders
<1>4. Stable'
  BY <1>1 DEF Stable
<1>5. ASSUME NEW f \in Effects \ {e} PROVE AtFixtures(f)'
  <2>1. /\ AtFixtures(f) /\ at'[f] = at[f] /\ nth'[f] = nth[f] /\ staged'[f] = staged[f]
        /\ (f \in flawed' <=> f \in flawed)
        /\ todo'[f] = todo[f] /\ got'[f] = got[f]
    BY <1>1 DEF AmongFixtures
  <2>2. ASSUME f \in Tests \ flawed, NEW i \in DOMAIN Fixtures(f), i < nth[f], Undisturbed(Fixtures(f)[i])
        PROVE  There(f, Fixtures(f)[i])'
    <3>1. There(f, Fixtures(f)[i])
      BY <2>1, <2>2 DEF AtFixtures
    <3>2. i \in Nat
      BY EffectTypes
    <3> QED
      BY <2>2, <3>1, <3>2 DEF AmongFixtures
  <2>3. Fixture(f)' = Fixture(f)
    BY <2>1 DEF Fixture
  <2> HIDE DEF There, Undisturbed
  <2> QED
    BY <2>1, <2>2, <2>3 DEF AtFixtures
<1> QED
  BY <1>3, <1>4, <1>5

(* What is known of an effect at a fixture.                                   *)
LEMMA AtOneFixture ==
  ASSUME FixtureInv, NEW e \in Effects, at[e] \in Placing
  PROVE  \E p \in BuildTargets, d \in Destinations :
           /\ Fixture(e).producer = p /\ Fixture(e).at = d
           /\ e \in Tests /\ todo[e] = <<>> /\ nth[e] \in DOMAIN Fixtures(e)
           /\ got[e][p] \in Content /\ calls[p] = got[e][p]
           /\ Ours(p) => output[p] = got[e][p]
<1> USE DEF FixtureInv, CoordinatorInv
<1>1. e \in Tests /\ todo[e] = <<>> /\ nth[e] \in DOMAIN Fixtures(e) /\ got[e][Fixture(e).producer] # Absent
  BY DEF AtFixtures
<1>2. PICK p \in BuildTargets, d \in Destinations : Fixture(e).producer = p /\ Fixture(e).at = d
  BY <1>1, EffectTypes DEF Fixture
<1>3. got[e][p] \in Content /\ calls[p] = got[e][p]
  BY <1>1, <1>2 DEF Leaders, BuildTypes, TypeOK
<1>4. Ours(p) => output[p] = got[e][p]
  BY <1>3 DEF Stable
<1> QED
  BY <1>1, <1>2, <1>3, <1>4

LEMMA UndisturbedIsOurs ==
  ASSUME NEW e \in Tests, NEW i \in DOMAIN Fixtures(e), Undisturbed(Fixtures(e)[i])
  PROVE  Ours(Fixtures(e)[i].producer)
BY EffectTypes DEF Undisturbed, Ours, Plan

(* Two tests that rely on the same place rely on the same thing there.        *)
LEMMA SamePlace ==
  ASSUME FixtureInv, NEW e \in Effects, at[e] \in Placing,
         NEW f \in Tests, NEW i \in DOMAIN Fixtures(f), Undisturbed(Fixtures(f)[i]),
         There(f, Fixtures(f)[i]), Fixtures(f)[i].at = Fixture(e).at
  PROVE  /\ Fixture(e).producer = Fixtures(f)[i].producer
         /\ got[e][Fixture(e).producer] = got[f][Fixtures(f)[i].producer]
         /\ Matches(e) /\ Undisturbed(Fixture(e))
<1>1. PICK p \in BuildTargets, d \in Destinations :
           /\ Fixture(e).producer = p /\ Fixture(e).at = d
           /\ e \in Tests /\ todo[e] = <<>> /\ nth[e] \in DOMAIN Fixtures(e)
           /\ got[e][p] \in Content /\ calls[p] = got[e][p]
           /\ Ours(p) => output[p] = got[e][p]
  BY AtOneFixture
<1>2. Fixtures(f)[i].producer = p
  BY <1>1 DEF Undisturbed, Fixture
<1>3. got[f][p] # Absent /\ fixture[d] = Built(p, got[f][p], got[f][p])
  BY <1>1, <1>2 DEF There
<1>4. got[f][p] = calls[p]
  BY <1>3 DEF FixtureInv, CoordinatorInv, Leaders
<1>5. Undisturbed(Fixture(e))
  BY <1>1, <1>2 DEF Undisturbed
<1> QED
  BY <1>1, <1>2, <1>3, <1>4, <1>5 DEF Matches

(* The fixture an effect is at is settled, for better or worse.               *)
LEMMA PassesInv ==
  ASSUME FixtureInv, BuildTypes', NEW e \in Tests, todo[e] = <<>>, nth[e] \in DOMAIN Fixtures(e),
         NEW refused \in BOOLEAN, Passes(e, refused),
         UNCHANGED <<source, output, calls, expired, todo, got>>,
         \A f \in Effects \ {e} : staged'[f] = staged[f],
         at[e] \notin Leading \cup {"following"},
         \A f \in Tests, i \in Nat :
           (i \in DOMAIN Fixtures(f) /\ Undisturbed(Fixtures(f)[i]) /\ There(f, Fixtures(f)[i]))
             => There(f, Fixtures(f)[i])',
         refused \/ (Undisturbed(Fixtures(e)[nth[e]]) => \A i \in Nat : i = nth[e] => There(e, Fixtures(e)[i])')
  PROVE  FixtureInv'
<1>0. /\ nth \in [Effects -> Nat \ {0}] /\ at \in [Effects -> Place_] /\ e \in Effects
      /\ AtFixtures(e) /\ Fixtures(e) \in Seq([producer : BuildTargets, at : Destinations])
  BY EffectTypes DEF FixtureInv, CoordinatorInv, BuildTypes
<1>1. /\ nth'[e] = nth[e] + 1 /\ nth[e] \in Nat /\ at' = [at EXCEPT ![e] = "planned"] /\ at'[e] = "planned"
      /\ \A f \in Effects \ {e} : nth'[f] = nth[f] /\ (f \in flawed' <=> f \in flawed)
      /\ refused => e \in flawed'
      /\ e \in flawed => e \in flawed'
  BY <1>0 DEF Passes, Goes
<1>2. AtFixtures(e)'
  <2>1. ASSUME e \notin flawed', NEW i \in DOMAIN Fixtures(e), i < nth'[e], Undisturbed(Fixtures(e)[i])
        PROVE  There(e, Fixtures(e)[i])'
    <3>1. i \in Nat /\ ~refused /\ e \notin flawed
      BY <1>0, <1>1, <2>1
    <3>2. CASE i = nth[e]
      BY <2>1, <3>1, <3>2
    <3>3. CASE i # nth[e]
      <4>1. i < nth[e]
        BY <1>1, <2>1, <3>1, <3>3
      <4>2. There(e, Fixtures(e)[i])
        BY <1>0, <2>1, <3>1, <4>1 DEF AtFixtures
      <4> QED
        BY <2>1, <3>1, <4>2
    <3> QED
      BY <3>2, <3>3
  <2> HIDE DEF There, Undisturbed
  <2> QED
    BY <1>1, <2>1 DEF AtFixtures, Placing
<1>3. AmongFixtures(e, "planned")
  BY <1>1 DEF AmongFixtures
<1>4. "planned" \in Place_ \ (Leading \cup {"following"})
  BY DEF Place_, Leading
<1> QED
  BY <1>0, <1>2, <1>3, <1>4, AmongFixturesInv

(* A step that places nothing leaves every fixture as it is.                  *)
LEMMA FixtureKept ==
  ASSUME UNCHANGED <<fixture, got>>
  PROVE  \A f \in Tests, i \in Nat :
           (i \in DOMAIN Fixtures(f) /\ Undisturbed(Fixtures(f)[i]) /\ There(f, Fixtures(f)[i]))
             => There(f, Fixtures(f)[i])'
BY DEF There

(* A step from which an effect goes on without its fixtures, or ends.         *)
LEMMA GoesInv ==
  ASSUME FixtureInv, NEW e \in Effects, at[e] \notin Leading \cup {"following"},
         NEW where \in Place_ \ (Leading \cup {"following"}), Goes(e, where),
         UNCHANGED <<source, output, calls, fixture, expired, todo, got, nth, staged, flawed>>,
         lock' \in [Destinations -> Effects \cup {Free}],
         where \in Placing => /\ e \in Tests /\ todo[e] = <<>> /\ nth[e] \in DOMAIN Fixtures(e)
                             /\ got[e][Fixture(e).producer] # Absent,
         where # "copied",
         where = "testing" => todo[e] = <<>> /\ e \notin flawed /\ nth[e] > Len(Fixtures(e))
  PROVE  FixtureInv'
<1>0. at \in [Effects -> Place_] /\ AtFixtures(e)
  BY DEF FixtureInv, CoordinatorInv, BuildTypes
<1>1. at'[e] = where /\ at' \in [Effects -> Place_] /\ at' = [at EXCEPT ![e] = where]
  BY <1>0 DEF Goes
<1>2. BuildTypes'
  BY <1>1 DEF FixtureInv, CoordinatorInv, BuildTypes, TypeOK
<1>3. Fixture(e)' = Fixture(e) /\ \A f : There(e, f)' <=> There(e, f)
  BY DEF Fixture, There
<1>4. AtFixtures(e)'
  <2> HIDE DEF Undisturbed, There
  <2> QED
    BY <1>0, <1>1, <1>3 DEF AtFixtures
<1>5. AmongFixtures(e, where)
  BY <1>1, FixtureKept DEF AmongFixtures
<1> QED
  BY <1>2, <1>4, <1>5, AmongFixturesInv

LEMMA EndsInv ==
  ASSUME FixtureInv, NEW e \in Effects, BuildEnds(e) \/ RunTests(e) \/ TestsEnd(e)
  PROVE  FixtureInv'
<1>1. lock' \in [Destinations -> Effects \cup {Free}]
  BY DEF FixtureInv, CoordinatorInv, BuildTypes, TypeOK, BuildEnds, RunTests, TestsEnd
<1>2. "done" \in Place_ \ (Leading \cup {"following"} \cup Placing) /\ "failed" \in Place_ \ (Leading \cup {"following"} \cup Placing)
      /\ "testing" \in Place_ \ (Leading \cup {"following"} \cup Placing)
      /\ "planned" \notin Leading \cup {"following"} /\ "testing" \notin Leading \cup {"following"}
  BY DEF Place_, Leading, Placing
<1>3. CASE BuildEnds(e)
  BY <1>1, <1>2, <1>3, GoesInv DEF BuildEnds
<1>4. CASE RunTests(e)
  <2>1. CASE e \in flawed
    BY <1>1, <1>2, <1>4, <2>1, GoesInv DEF RunTests
  <2>2. CASE e \notin flawed
    BY <1>1, <1>2, <1>4, <2>2, GoesInv DEF RunTests
  <2> QED
    BY <2>1, <2>2
<1>5. CASE TestsEnd(e)
  BY <1>1, <1>2, <1>5, GoesInv DEF TestsEnd
<1> QED
  BY <1>3, <1>4, <1>5

LEMMA VerifyInv ==
  ASSUME FixtureInv, NEW e \in Effects, Verify(e)
  PROVE  FixtureInv'
<1>0. /\ nth \in [Effects -> Nat \ {0}] /\ lock \in [Destinations -> Effects \cup {Free}]
      /\ flawed \subseteq Tests /\ at \in [Effects -> Place_]
  BY DEF FixtureInv, CoordinatorInv, BuildTypes, TypeOK
<1>1. /\ e \in Tests /\ at[e] = "planned" /\ todo[e] = <<>> /\ nth[e] \in DOMAIN Fixtures(e)
      /\ UNCHANGED <<source, output, calls, fixture, lock, expired, todo, got, staged>>
  BY <1>0, EffectTypes DEF Verify, AtFixture
<1>2. CASE Verified(e)
  <2>1. Goes(e, "verified") /\ UNCHANGED <<nth, flawed>> /\ got[e][Fixture(e).producer] # Absent
    BY <1>2 DEF Verify, Verified
  <2>2. "verified" \in Place_ \ (Leading \cup {"following"}) /\ "planned" \notin Leading \cup {"following"}
    BY DEF Place_, Leading, Placing
  <2> QED
    BY <1>0, <1>1, <2>1, <2>2, GoesInv
<1>3. CASE ~Verified(e)
  <2>1. Passes(e, TRUE)
    BY <1>3 DEF Verify
  <2>2. BuildTypes'
    BY <1>0, <1>1, <2>1 DEF FixtureInv, CoordinatorInv, BuildTypes, TypeOK, Passes, Goes, Place_
  <2>3. "planned" \notin Leading \cup {"following"}
    BY DEF Leading
  <2> QED
    BY <1>1, <2>1, <2>2, <2>3, PassesInv, FixtureKept
<1> QED
  BY <1>2, <1>3

LEMMA LockInv ==
  ASSUME FixtureInv, NEW e \in Effects, Lock(e)
  PROVE  FixtureInv'
<1>1. at[e] = "verified" /\ at[e] \in Placing /\ at[e] \notin Leading \cup {"following"}
      /\ "locked" \in Place_ \ (Leading \cup {"following"})
  BY DEF Lock, Placing, Leading, Place_
<1>2. /\ e \in Tests /\ todo[e] = <<>> /\ nth[e] \in DOMAIN Fixtures(e)
      /\ got[e][Fixture(e).producer] # Absent
  BY <1>1 DEF FixtureInv, AtFixtures
<1>3. lock' \in [Destinations -> Effects \cup {Free}]
  BY DEF FixtureInv, CoordinatorInv, BuildTypes, TypeOK, Lock
<1> QED
  BY <1>1, <1>2, <1>3, GoesInv DEF Lock

LEMMA UnlockType ==
  ASSUME FixtureInv, NEW e, Unlock(e)
  PROVE  lock' \in [Destinations -> Effects \cup {Free}]
BY DEF FixtureInv, CoordinatorInv, BuildTypes, TypeOK, Unlock

LEMMA PassesTypes ==
  ASSUME BuildTypes, NEW e \in Tests, NEW refused \in BOOLEAN, Passes(e, refused)
  PROVE  nth' \in [Effects -> Nat \ {0}] /\ at' \in [Effects -> Place_] /\ flawed' \subseteq Tests
<1>1. nth \in [Effects -> Nat \ {0}] /\ at \in [Effects -> Place_] /\ flawed \subseteq Tests /\ e \in Effects
  BY EffectTypes DEF BuildTypes, TypeOK
<1>2. nth' \in [Effects -> Nat \ {0}]
  <2>1. nth' = [nth EXCEPT ![e] = nth[e] + 1] /\ nth[e] + 1 \in Nat \ {0}
    BY <1>1 DEF Passes
  <2> QED
    BY <1>1, <2>1
<1>3. at' \in [Effects -> Place_]
  <2>1. at' = [at EXCEPT ![e] = "planned"] /\ "planned" \in Place_
    BY DEF Passes, Goes, Place_
  <2> QED
    BY <1>1, <2>1
<1>4. flawed' \subseteq Tests
  BY <1>1 DEF Passes
<1> QED
  BY <1>2, <1>3, <1>4

LEMMA SettledInv ==
  ASSUME FixtureInv, NEW e \in Effects, Reuse(e) \/ RefuseUnmanaged(e)
  PROVE  FixtureInv'
<1>1. at[e] = "locked" /\ at[e] \in Placing /\ at[e] \notin Leading \cup {"following"} /\ Unlock(e)
      /\ UNCHANGED <<source, output, calls, fixture, expired, todo, got, staged>>
  BY DEF Reuse, RefuseUnmanaged, Placing, Leading
<1>2. /\ e \in Tests /\ todo[e] = <<>> /\ nth[e] \in DOMAIN Fixtures(e)
      /\ got[e][Fixture(e).producer] # Absent
  BY <1>1 DEF FixtureInv, AtFixtures
<1>3. PICK refused \in BOOLEAN : Passes(e, refused) /\ (refused \/ Matches(e))
  BY DEF Reuse, RefuseUnmanaged
<1>4. BuildTypes'
  BY <1>1, <1>2, <1>3, UnlockType, PassesTypes DEF FixtureInv, CoordinatorInv, BuildTypes, TypeOK
<1>5. ~refused => There(e, Fixtures(e)[nth[e]])
  BY <1>2, <1>3 DEF Matches, There, Fixture
<1>6. refused \/ (Undisturbed(Fixtures(e)[nth[e]]) => \A i \in Nat : i = nth[e] => There(e, Fixtures(e)[i])')
  BY <1>1, <1>5 DEF There
<1> QED
  BY <1>1, <1>2, <1>3, <1>4, <1>6, PassesInv, FixtureKept

(* Making room at a place is not done where a test relies on what is there.    *)
LEMMA PlaceChanges ==
  ASSUME FixtureInv, NEW e \in Effects, at[e] \in Placing,
         NEW x, got' = got, fixture' = [fixture EXCEPT ![Fixture(e).at] = x],
         Undisturbed(Fixture(e)) => x = Built(Fixture(e).producer, got[e][Fixture(e).producer], got[e][Fixture(e).producer])
                                     \/ ~Matches(e)
  PROVE  \A f \in Tests, i \in Nat :
           (i \in DOMAIN Fixtures(f) /\ Undisturbed(Fixtures(f)[i]) /\ There(f, Fixtures(f)[i]))
             => There(f, Fixtures(f)[i])'
<1> SUFFICES ASSUME NEW f \in Tests, NEW i \in Nat, i \in DOMAIN Fixtures(f), Undisturbed(Fixtures(f)[i]),
                    There(f, Fixtures(f)[i])
             PROVE  There(f, Fixtures(f)[i])'
  OBVIOUS
<1>1. DOMAIN fixture = Destinations /\ Fixtures(f)[i].at \in Destinations
  BY EffectTypes DEF FixtureInv, CoordinatorInv, BuildTypes, TypeOK
<1>2. CASE Fixtures(f)[i].at # Fixture(e).at
  <2>1. fixture'[Fixtures(f)[i].at] = fixture[Fixtures(f)[i].at]
    BY <1>1, <1>2
  <2> QED
    BY <2>1 DEF There
<1>3. CASE Fixtures(f)[i].at = Fixture(e).at
  <2>1. /\ Fixture(e).producer = Fixtures(f)[i].producer
        /\ got[e][Fixture(e).producer] = got[f][Fixtures(f)[i].producer]
        /\ Matches(e) /\ Undisturbed(Fixture(e))
    BY <1>3, SamePlace
  <2>2. x = Built(Fixture(e).producer, got[e][Fixture(e).producer], got[e][Fixture(e).producer])
    BY <2>1
  <2>3. fixture'[Fixtures(f)[i].at] = x
    BY <1>1, <1>3
  <2> QED
    BY <2>1, <2>2, <2>3 DEF There
<1> QED
  BY <1>2, <1>3

LEMMA RemovePreviousInv ==
  ASSUME FixtureInv, NEW e \in Effects, RemovePrevious(e)
  PROVE  FixtureInv'
<1>0. /\ at \in [Effects -> Place_] /\ fixture \in [Destinations -> FixtureThere] /\ AtFixtures(e)
  BY DEF FixtureInv, CoordinatorInv, BuildTypes
<1>1. /\ at[e] = "locked" /\ at[e] \in Placing /\ at[e] \notin Leading \cup {"following"} /\ ~Matches(e)
      /\ fixture' = [fixture EXCEPT ![Fixture(e).at] = Nothing] /\ at' = [at EXCEPT ![e] = "removed"]
      /\ UNCHANGED <<source, output, calls, lock, expired, todo, got, nth, staged, flawed>>
      /\ "removed" \in Place_ \ (Leading \cup {"following"})
  BY DEF RemovePrevious, Goes, Placing, Leading, Place_
<1>2. /\ e \in Tests /\ todo[e] = <<>> /\ nth[e] \in DOMAIN Fixtures(e)
      /\ got[e][Fixture(e).producer] # Absent
  BY <1>0, <1>1 DEF AtFixtures
<1>3. /\ at'[e] = "removed" /\ at' \in [Effects -> Place_]
      /\ fixture' \in [Destinations -> FixtureThere]
  BY <1>0, <1>1 DEF FixtureThere
<1>4. BuildTypes'
  BY <1>1, <1>3 DEF FixtureInv, CoordinatorInv, BuildTypes, TypeOK
<1>5. \A f \in Tests, i \in Nat :
           (i \in DOMAIN Fixtures(f) /\ Undisturbed(Fixtures(f)[i]) /\ There(f, Fixtures(f)[i]))
             => There(f, Fixtures(f)[i])'
  BY <1>1, PlaceChanges
<1>6. AtFixtures(e)'
  <2>1. Fixture(e)' = Fixture(e) /\ nth[e] \in Nat /\ DOMAIN Fixtures(e) \subseteq Nat
    BY <1>1, EffectTypes DEF Fixture, FixtureInv, CoordinatorInv, BuildTypes
  <2>2. ASSUME e \notin flawed, NEW i \in DOMAIN Fixtures(e), i < nth[e], Undisturbed(Fixtures(e)[i])
        PROVE  There(e, Fixtures(e)[i])'
    <3>1. There(e, Fixtures(e)[i])
      BY <1>0, <1>2, <2>2 DEF AtFixtures
    <3> QED
      BY <1>2, <1>5, <2>1, <2>2, <3>1
  <2> HIDE DEF There, Undisturbed
  <2> QED
    BY <1>1, <1>2, <1>3, <2>1, <2>2 DEF AtFixtures
<1>7. AmongFixtures(e, "removed")
  BY <1>1, <1>5 DEF AmongFixtures
<1> QED
  BY <1>1, <1>4, <1>6, <1>7, AmongFixturesInv

LEMMA CopyInv ==
  ASSUME FixtureInv, NEW e \in Effects, Copy(e)
  PROVE  FixtureInv'
<1>0. /\ at \in [Effects -> Place_] /\ staged \in [Effects -> Content \cup {Absent}] /\ AtFixtures(e)
      /\ output \in [BuildTargets -> Content \cup {Absent}]
  BY DEF FixtureInv, CoordinatorInv, BuildTypes, TypeOK
<1>1. /\ at[e] = "removed" /\ at[e] \in Placing /\ at[e] \notin Leading \cup {"following"}
      /\ UNCHANGED <<source, output, calls, fixture, expired, todo, got>>
      /\ "copied" \in Place_ \ (Leading \cup {"following"})
  BY DEF Copy, Placing, Leading, Place_
<1>2. PICK p \in BuildTargets, d \in Destinations :
           /\ Fixture(e).producer = p /\ Fixture(e).at = d
           /\ e \in Tests /\ todo[e] = <<>> /\ nth[e] \in DOMAIN Fixtures(e)
           /\ got[e][p] \in Content /\ calls[p] = got[e][p]
           /\ Ours(p) => output[p] = got[e][p]
  BY <1>1, AtOneFixture
<1>3. CASE output[p] = Absent
  <2>1. Unlock(e) /\ Passes(e, TRUE) /\ UNCHANGED staged
    BY <1>2, <1>3 DEF Copy
  <2>2. BuildTypes'
    BY <1>1, <1>2, <2>1, UnlockType, PassesTypes DEF FixtureInv, CoordinatorInv, BuildTypes, TypeOK
  <2> QED
    BY <1>1, <1>2, <2>1, <2>2, PassesInv, FixtureKept
<1>4. CASE output[p] # Absent
  <2>1. /\ staged' = [staged EXCEPT ![e] = output[p]] /\ at' = [at EXCEPT ![e] = "copied"]
        /\ UNCHANGED <<lock, nth, flawed>>
    BY <1>2, <1>4 DEF Copy, Goes
  <2>2. /\ at'[e] = "copied" /\ at' \in [Effects -> Place_] /\ staged'[e] = output[p]
        /\ staged' \in [Effects -> Content \cup {Absent}]
    BY <1>0, <1>1, <2>1
  <2>3. BuildTypes'
    BY <1>1, <2>1, <2>2 DEF FixtureInv, CoordinatorInv, BuildTypes, TypeOK
  <2>4. Undisturbed(Fixture(e)) => Ours(p)
    BY <1>2, UndisturbedIsOurs DEF Fixture
  <2>5. Fixture(e)' = Fixture(e) /\ \A f : There(e, f)' <=> There(e, f)
    BY <1>1, <2>1 DEF Fixture, There
  <2>6. AtFixtures(e)'
    <3> HIDE DEF Undisturbed, There
    <3>1. Undisturbed(Fixture(e)) => staged'[e] = got[e][Fixture(e).producer]
      BY <1>2, <2>2, <2>4
    <3>2. got[e][Fixture(e).producer] # Absent
      BY <1>2, Names
    <3> QED
      BY <1>0, <1>1, <1>2, <2>1, <2>2, <2>5, <3>1, <3>2 DEF AtFixtures
  <2>7. AmongFixtures(e, "copied")
    BY <1>1, <2>1, FixtureKept DEF AmongFixtures
  <2> QED
    BY <1>1, <2>3, <2>6, <2>7, AmongFixturesInv
<1> QED
  BY <1>3, <1>4

LEMMA PlaceInv ==
  ASSUME FixtureInv, NEW e \in Effects, Place(e)
  PROVE  FixtureInv'
<1>0. /\ at \in [Effects -> Place_] /\ staged \in [Effects -> Content \cup {Absent}] /\ AtFixtures(e)
      /\ fixture \in [Destinations -> FixtureThere]
  BY DEF FixtureInv, CoordinatorInv, BuildTypes, TypeOK
<1>1. /\ at[e] = "copied" /\ at[e] \in Placing /\ at[e] \notin Leading \cup {"following"}
      /\ Unlock(e) /\ Passes(e, FALSE) /\ staged' = [staged EXCEPT ![e] = Absent]
      /\ UNCHANGED <<source, output, calls, expired, todo, got>>
  BY DEF Place, Placing, Leading
<1>2. PICK p \in BuildTargets, d \in Destinations :
           /\ Fixture(e).producer = p /\ Fixture(e).at = d
           /\ e \in Tests /\ todo[e] = <<>> /\ nth[e] \in DOMAIN Fixtures(e)
           /\ got[e][p] \in Content /\ calls[p] = got[e][p]
           /\ Ours(p) => output[p] = got[e][p]
  BY <1>1, AtOneFixture
<1>3. fixture' = [fixture EXCEPT ![d] = Built(p, got[e][p], staged[e])]
  BY <1>2 DEF Place
<1>4. fixture' \in [Destinations -> FixtureThere]
  <2>1. Built(p, got[e][p], staged[e]) \in FixtureThere
    BY <1>0, <1>2 DEF Built, FixtureThere
  <2> QED
    BY <1>0, <1>3, <2>1
<1>5. staged' \in [Effects -> Content \cup {Absent}] /\ \A f \in Effects \ {e} : staged'[f] = staged[f]
  BY <1>0, <1>1
<1>6. BuildTypes'
  BY <1>1, <1>2, <1>4, <1>5, UnlockType, PassesTypes DEF FixtureInv, CoordinatorInv, BuildTypes, TypeOK
<1>7. Undisturbed(Fixture(e)) => staged[e] = got[e][p]
  BY <1>0, <1>1, <1>2 DEF AtFixtures
<1>8. \A f \in Tests, i \in Nat :
           (i \in DOMAIN Fixtures(f) /\ Undisturbed(Fixtures(f)[i]) /\ There(f, Fixtures(f)[i]))
             => There(f, Fixtures(f)[i])'
  BY <1>1, <1>2, <1>3, <1>7, PlaceChanges
<1>9. Undisturbed(Fixtures(e)[nth[e]]) => \A i \in Nat : i = nth[e] => There(e, Fixtures(e)[i])'
  <2> SUFFICES ASSUME Undisturbed(Fixture(e)), NEW i \in Nat, i = nth[e] PROVE There(e, Fixtures(e)[i])'
    BY DEF Fixture
  <2>1. fixture'[d] = Built(p, got[e][p], got[e][p]) /\ got[e][p] # Absent
    BY <1>0, <1>2, <1>3, <1>7, Names
  <2>2. Fixtures(e)[i].producer = p /\ Fixtures(e)[i].at = d /\ got' = got
    BY <1>1, <1>2 DEF Fixture
  <2> QED
    BY <2>1, <2>2 DEF There
<1> QED
  BY <1>1, <1>2, <1>5, <1>6, <1>8, <1>9, PassesInv

-----------------------------------------------------------------------------
(* What an effect does while it builds is one of these.                       *)
LEMMA DeliveredIsReceived ==
  ASSUME FixtureInv, NEW e \in Effects, at[e] \in Leading, NEW result, Delivers(e, result),
         NEW t, t = Head(todo[e]), result \in {Failed, output[t]},
         UNCHANGED <<source, output, fixture, lock, expired, nth, staged, flawed>>
  PROVE  ReceiveEffect(e, t, result)
BY EffectTypes DEF Delivers, Receives, Goes, ReceiveEffect

LEMMA BuildingInv ==
  ASSUME FixtureInv, NEW e \in Effects,
         Follow(e) \/ Refuse(e) \/ Clean(e) \/ Emit(e) \/ CompilerSucceeds(e) \/ CompilerFails(e) \/ Qualify(e)
  PROVE  FixtureInv'
<1>0. /\ todo \in [Effects -> Seq(BuildTargets)] /\ output \in [BuildTargets -> Content \cup {Absent}]
      /\ calls \in [BuildTargets -> Content \cup {Free, Pending, Failed}] /\ source \in DOMAIN Revisions
  BY DEF FixtureInv, CoordinatorInv, BuildTypes, TypeOK
<1>1. at[e] \in Leading \cup {"following"} /\ todo[e] # <<>>
  BY DEF Follow, Refuse, Clean, Emit, CompilerSucceeds, CompilerFails, Qualify, Leading,
         FixtureInv, CoordinatorInv, Leaders
<1>2. PICK t \in BuildTargets : t = Head(todo[e])
  BY <1>0, <1>1, HeadAndTail
<1>3. CASE Follow(e)
  <2>1. PICK result \in {Failed, calls[t]} : Receives(e, result) /\ (result = Failed \/ calls[t] # Pending)
    BY <1>2, <1>3 DEF Follow
  <2>2. at[e] = "following" /\ calls[t] # Free
    BY <1>2, <1>3 DEF Follow, FixtureInv, CoordinatorInv, Leaders
  <2>3. result \in Content \cup {Failed}
    BY <1>0, <2>1, <2>2
  <2>4. ReceiveEffect(e, t, result)
    BY <1>2, <1>3, <2>1, <2>2 DEF Follow, Receives, Goes, ReceiveEffect
  <2> QED
    BY <1>1, <1>2, <2>3, <2>4, ReceivesInv
<1>4. CASE Refuse(e) \/ CompilerFails(e) \/ Qualify(e)
  <2>1. PICK result \in {Failed, output[t]} : Delivers(e, result) /\ (result = Failed \/ output[t] # Absent)
    BY <1>2, <1>4 DEF Refuse, CompilerFails, Qualify
  <2>2. at[e] \in Leading /\ UNCHANGED <<source, output, fixture, lock, expired, nth, staged, flawed>>
    BY <1>4 DEF Refuse, CompilerFails, Qualify, Leading
  <2>3. result \in Content \cup {Failed}
    BY <1>0, <2>1
  <2>4. ReceiveEffect(e, t, result)
    BY <1>2, <2>1, <2>2, DeliveredIsReceived
  <2> QED
    BY <1>1, <1>2, <2>3, <2>4, ReceivesInv
<1>5. CASE Clean(e) \/ Emit(e) \/ CompilerSucceeds(e)
  <2>1. PICK where \in Leading, x \in Content \cup {Absent} :
          AtBuild(e, where) /\ output' = [output EXCEPT ![t] = x] /\ calls' = calls
    <3>1. Revisions[source] \in Content /\ Partial \in Content
      BY <1>0, Names DEF Content
    <3>2. CASE Clean(e)
      BY <1>2, <3>2 DEF Clean, AtBuild, Goes, Leading
    <3>3. CASE Emit(e)
      BY <1>2, <3>1, <3>3 DEF Emit, AtBuild, Goes, Leading
    <3>4. CASE CompilerSucceeds(e)
      BY <1>2, <3>1, <3>4 DEF CompilerSucceeds, AtBuild, Goes, Leading
    <3> QED
      BY <1>5, <3>2, <3>3, <3>4
  <2>2. at[e] \in Leading
    BY <1>5 DEF Clean, Emit, CompilerSucceeds, Leading
  <2> QED
    BY <1>2, <2>1, <2>2, OutputInv
<1> QED
  BY <1>3, <1>4, <1>5

(* Time passes, and somebody edits the sources.                               *)
LEMMA ElsewhereInv ==
  ASSUME FixtureInv, Edit \/ (\E e \in Effects : Expire(e)) \/ UNCHANGED vars
  PROVE  FixtureInv'
<1>1. UNCHANGED <<output, calls, fixture, lock, at, todo, got, nth, staged, flawed>>
  BY DEF Edit, Expire, vars
<1>2. expired' \subseteq Timed
  BY DEF Edit, Expire, vars, FixtureInv, CoordinatorInv, BuildTypes, TypeOK
<1>3. source' \in DOMAIN Revisions
  <2>1. Revisions \in Seq(Versions) /\ source \in DOMAIN Revisions
    BY EffectAssumption DEF FixtureInv, CoordinatorInv, BuildTypes, TypeOK
  <2> QED
    BY <2>1 DEF Edit, Expire, vars
<1>4. BuildTypes'
  BY <1>1, <1>2, <1>3 DEF FixtureInv, CoordinatorInv, BuildTypes, TypeOK
<1>5. Leaders'
  BY <1>1 DEF FixtureInv, CoordinatorInv, Leaders
<1>6. Stable'
  BY <1>1 DEF FixtureInv, Stable
<1>7. ASSUME NEW f \in Effects PROVE AtFixtures(f)'
  BY <1>1 DEF FixtureInv, AtFixtures, There, Fixture
<1> QED
  BY <1>4, <1>5, <1>6, <1>7 DEF FixtureInv, CoordinatorInv

LEMMA NextInv == FixtureInv /\ [Next]_vars => FixtureInv'
<1> SUFFICES ASSUME FixtureInv, [Next]_vars PROVE FixtureInv'
  OBVIOUS
<1>1. ASSUME NEW e \in Effects, Work(e) PROVE FixtureInv'
  BY <1>1, AskInv, BuildingInv, EndsInv, VerifyInv, LockInv, SettledInv, RemovePreviousInv, CopyInv, PlaceInv DEF Work
<1> QED
  BY <1>1, ElsewhereInv DEF Next

LEMMA InitInv == Init => FixtureInv
<1> SUFFICES ASSUME Init PROVE FixtureInv
  OBVIOUS
<1>1. /\ todo = [e \in Effects |-> Plan(e)] /\ \A e \in Effects : Plan(e) \in Seq(BuildTargets)
      /\ at = [e \in Effects |-> "planned"] /\ nth = [e \in Effects |-> 1] /\ flawed = {}
      /\ got = [e \in Effects |-> [t \in BuildTargets |-> Absent]]
      /\ staged = [e \in Effects |-> Absent] /\ lock = [d \in Destinations |-> Free]
      /\ calls = [t \in BuildTargets |-> Free] /\ expired = {} /\ source = 1
  BY EffectAssumption DEF Init
<1>2. source \in DOMAIN Revisions /\ Revisions[1] \in Content
  BY <1>1, EffectAssumption, Names
<1>3. output \in [BuildTargets -> Content \cup {Absent}]
  BY <1>2 DEF Init
<1>4. Found \subseteq FixtureThere
  BY DEF Found, FixtureThere, Built, Content
<1>5. fixture \in [Destinations -> FixtureThere]
  <2>1. fixture \in [Destinations -> Found]
    BY EffectAssumption DEF Init
  <2> QED
    BY <1>4, <2>1
<1>6. BuildTypes
  BY <1>1, <1>2, <1>3, <1>5 DEF BuildTypes, TypeOK, Place_
<1>7. Leaders
  BY <1>1, EffectTypes DEF Leaders, Leading
<1>8. Stable
  BY <1>1, EffectTypes, Names DEF Stable
<1>9. ASSUME NEW e \in Effects PROVE AtFixtures(e)
  <2>1. \A i \in DOMAIN Fixtures(e) : ~(i < 1)
    BY EffectTypes
  <2> QED
    BY <1>1, <2>1 DEF AtFixtures, Placing
<1> QED
  BY <1>6, <1>7, <1>8, <1>9 DEF FixtureInv, CoordinatorInv

LEMMA FixtureInvHolds == Spec => []FixtureInv
BY InitInv, NextInv, PTL DEF Spec

(* The coordinator keeps its types, and however builds and edits interleave, two *)
(* tests that were given a result for a target were given the same one.       *)
THEOREM CoordinatorKeepsOneBuild == Spec => []CoordinatorIsSound
<1>1. FixtureInv => CoordinatorIsSound
  BY DEF FixtureInv, CoordinatorInv, BuildTypes, Leaders, CoordinatorIsSound, OneBuildForAll
<1> QED
  BY <1>1, FixtureInvHolds, PTL

(* A test runs against the bytes its BuildResult names, at every place that no   *)
(* Build effect rebuilds and that is bound to one producer only.              *)
THEOREM TestsFindTheirBuild == Spec => []TestsRunOnTheirBuild
<1>1. ASSUME FixtureInv PROVE TestsRunOnTheirBuild
  <2> SUFFICES ASSUME NEW e \in Tests, at[e] = "testing", NEW i \in DOMAIN Fixtures(e), Undisturbed(Fixtures(e)[i])
               PROVE  There(e, Fixtures(e)[i])
    BY DEF TestsRunOnTheirBuild, There
  <2>1. AtFixtures(e) /\ nth \in [Effects -> Nat \ {0}]
        /\ Fixtures(e) \in Seq([producer : BuildTargets, at : Destinations]) /\ e \in Effects
    BY <1>1, EffectTypes DEF FixtureInv, CoordinatorInv, BuildTypes
  <2>2. e \notin flawed /\ i < nth[e]
    BY <2>1 DEF AtFixtures
  <2> QED
    BY <2>1, <2>2 DEF AtFixtures
<1> QED
  BY <1>1, FixtureInvHolds, PTL

-----------------------------------------------------------------------------
(* Why.  Until the commit the pair is the one that was planned on; between its  *)
(* two halves the sidecar still is, and the backup remembers the .ess; what is   *)
(* recorded was verified to be the candidate.                                 *)
FixtureTypeOK ==
  /\ save \in Files /\ save.ess # 0
  /\ pair \in Files /\ found \in Files /\ candidate \in Files /\ copies \in Files /\ mapping \in Files
  /\ faults \in Nat
  /\ step \in Done \cup {"sidecar", "plan", "begin", "stage", "stageSidecar", "commit", "commitSidecar",
                         "rollback", "verify", "record", "audit"}

Discovered == step # "idle" => candidate.ess # 0

Halfway ==
  /\ pair.skse = found.skse
  /\ existed = IF found.ess # 0 THEN {"ess"} ELSE {}

Committing ==
  /\ step \in {"begin", "stage", "stageSidecar", "commit"} => pair = found /\ existed = {}
  /\ step = "commitSidecar" => Halfway
  /\ step = "rollback" => Halfway /\ faults >= 1
  /\ step \in {"sidecar", "plan"} => existed = {}
  /\ step = "uncommitted" => faults >= 1 /\ (faults = 1 => pair = found)

Recording ==
  /\ step = "record" => pair = candidate
  /\ step \in {"audit", "moved", "created"} => pair = candidate /\ mapping = pair

FixtureInvariant == FixtureTypeOK /\ Discovered /\ Committing /\ Recording

(* No step of the game, of the command or of a failing write breaks it.       *)
LEMMA FixtureInvariantIsKept ==
  ASSUME FixtureInvariant, [CreateNext]_fixtureVars PROVE FixtureInvariant'
<1> USE FixtureAssumption DEF FixtureInvariant, FixtureTypeOK, Discovered, Committing, Recording, Halfway, Files, Done,
            NoFiles
<1>1. CASE SaveAgain
  BY <1>1 DEF SaveAgain
<1>2. CASE DiscoverSave \/ DiscoverSidecar
  BY <1>2 DEF DiscoverSave, DiscoverSidecar
<1>3. CASE PlanFixture \/ Begin
  BY <1>3 DEF PlanFixture, Begin, HasSidecar
<1>4. ASSUME NEW file \in {"ess", "skse"}, Stage(file) PROVE FixtureInvariant'
  BY <1>4 DEF Stage, Staged, HasSidecar, Fault
<1>5. ASSUME NEW file \in {"ess", "skse"}, Commit(file) PROVE FixtureInvariant'
  BY <1>5 DEF Commit, Existed, HasSidecar, Fault
<1>6. CASE RollBackPair
  BY <1>6 DEF RollBackPair, Former, Fault
<1>7. CASE VerifyCopies \/ Record \/ Audit
  BY <1>7 DEF VerifyCopies, Record, Audit, HasSidecar, Fault
<1>8. CASE UNCHANGED fixtureVars
  BY <1>8 DEF fixtureVars
<1> QED
  BY <1>1, <1>2, <1>3, <1>4, <1>5, <1>6, <1>7, <1>8 DEF CreateNext

(* However often the game saves and whichever writes fail: a fixture that is    *)
(* reported as created is recorded as it is, and a commit that failed alone     *)
(* leaves the pair it found.                                                 *)
THEOREM FixturesAreRecorded == FixtureSpec => []FixtureIsRecorded
<1>1. FixtureInit => FixtureInvariant
  BY FixtureAssumption DEF FixtureInit, FixtureInvariant, FixtureTypeOK, Discovered, Committing, Recording, Files, Done, NoFiles
<1>2. FixtureInvariant /\ [CreateNext]_fixtureVars => FixtureInvariant'
  BY FixtureInvariantIsKept
<1>3. FixtureInvariant => FixtureIsRecorded
  BY DEF FixtureInvariant, FixtureTypeOK, Discovered, Committing, Recording, FixtureIsRecorded, HashesMatch
<1> QED
  BY <1>1, <1>2, <1>3, PTL DEF FixtureSpec
-----------------------------------------------------------------------------
(* Runs of Skyrim.  What was deployed can be put back, until it is kept; what an *)
(* overlay changed can be restored, until it is.                              *)
Items == {"dll", "config", "ini", "plugins"}
Entries == [item : Items, existed : BOOLEAN]

SessionTypes ==
  /\ SessionAssumption
  /\ place \in Places /\ origin \in Places
  /\ overlay \in [config : BOOLEAN, ini : BOOLEAN, controller : BOOLEAN]
  /\ mishaps \in Nat /\ backup = [i \in Items |-> backup[i]]
  /\ items \in Seq(Items) /\ applied \in Seq(Entries)

Recorded ==
  /\ \A j \in DOMAIN applied : applied[j].existed = (origin[applied[j].item] # "absent")
  /\ \A j \in DOMAIN applied : applied[j].existed => backup[applied[j].item] = origin[applied[j].item]
  /\ \A j, k \in DOMAIN applied : applied[j].item = applied[k].item => j = k

Untouched == \A i \in Items : (\A j \in DOMAIN applied : applied[j].item # i) => place[i] = origin[i]

(* What is not waiting is as it is wanted.                                     *)
Deploying ==
  phase = "deploy" =>
    /\ mishaps = 0 /\ Recorded /\ Untouched
    /\ \A j, k \in DOMAIN items : items[j] = items[k] => j = k
    /\ \A j \in DOMAIN items, k \in DOMAIN applied : items[j] # applied[k].item
    /\ \A i \in Items : (\A j \in DOMAIN items : items[j] # i) => place[i] = Wanted(i)
    /\ \A j \in DOMAIN items : items[j] = "ini" => overlay.ini
    /\ \A k \in DOMAIN applied : applied[k].item = "ini" => overlay.ini

Returning ==
  /\ phase = "build" => mishaps = 0 /\ applied = <<>>
  /\ phase = "rollback" => mishaps # 0 /\ Recorded /\ (mishaps = 1 => Untouched)
  /\ DeploymentIsAtomic

INICanReturn == IF RestoresINI THEN backup["ini"] = origin["ini"] ELSE place["ini"] = origin["ini"]

Overlaid ==
  /\ phase \in {"launch", "await", "read", "play", "restoreConfig"} =>
       INICanReturn /\ place["config"] = (IF overlay.config THEN "overlay" ELSE "safe")
  /\ phase = "restoreINI" => INICanReturn /\ ("restoration" \notin trouble => place["config"] = "safe")
  /\ phase \in {"build", "deploy", "rollback", "undeployed", "restoreConfig", "restoreINI", "ended"} =>
       controller # "running"
  /\ OverlayIsTemporary

SessionInv == SessionTypes /\ Deploying /\ Returning /\ Overlaid

(* A place holds what fits its item.                                           *)
LEMMA PlacesAre ==
  /\ \A p \in Places : DOMAIN p = Items
  /\ \A p \in Places : /\ [p EXCEPT !["config"] = "safe"] \in Places
                       /\ \A q \in Places : \A i \in Items : [p EXCEPT ![i] = q[i]] \in Places
                       /\ \A i \in Items : i # "plugins" => [p EXCEPT ![i] = "odd"] \in Places
                       /\ \A i \in {"dll", "config"} : [p EXCEPT ![i] = "absent"] \in Places
BY DEF Places, Items

LEMMA WantedFits ==
  ASSUME SessionTypes, NEW i \in Items
  PROVE  [place EXCEPT ![i] = Wanted(i)] \in Places
BY DEF SessionTypes, Wanted, Places, Items

(* A sequence lists a set: every element once.                                  *)
Lists(s, S) ==
  /\ s \in Seq(S)
  /\ \A x \in S : \E j \in DOMAIN s : s[j] = x
  /\ \A j, k \in DOMAIN s : s[j] = s[k] => j = k

LEMMA ListsJoin ==
  ASSUME NEW S, NEW T, S \cap T = {}, NEW s, NEW t, Lists(s, S), Lists(t, T)
  PROVE  Lists(s \o t, S \cup T)
<1> DEFINE u == s \o t
<1>1. /\ s \in Seq(S) /\ t \in Seq(T) /\ Len(s) \in Nat /\ Len(t) \in Nat
      /\ DOMAIN s = 1 .. Len(s) /\ DOMAIN t = 1 .. Len(t)
  BY DEF Lists
<1>2. s \in Seq(S \cup T) /\ t \in Seq(S \cup T)
  BY <1>1
<1>3. /\ u \in Seq(S \cup T) /\ DOMAIN u = 1 .. Len(s) + Len(t)
      /\ \A j \in DOMAIN u : u[j] = IF j <= Len(s) THEN s[j] ELSE t[j - Len(s)]
  BY <1>1, <1>2
<1> HIDE DEF u
<1>4. ASSUME NEW x \in S \cup T PROVE \E j \in DOMAIN u : u[j] = x
  <2>1. CASE x \in S
    <3>1. PICK j \in DOMAIN s : s[j] = x
      BY <2>1 DEF Lists
    <3>2. j \in DOMAIN u /\ u[j] = x
      BY <1>1, <1>3, <3>1
    <3> QED BY <3>2
  <2>2. CASE x \in T
    <3>1. PICK j \in DOMAIN t : t[j] = x
      BY <2>2 DEF Lists
    <3>2. Len(s) + j \in DOMAIN u /\ u[Len(s) + j] = x
      BY <1>1, <1>3, <3>1
    <3> QED BY <3>2
  <2> QED BY <2>1, <2>2
<1>5. ASSUME NEW j \in DOMAIN u, NEW k \in DOMAIN u, u[j] = u[k] PROVE j = k
  <2>1. \A i \in DOMAIN u : /\ i \in Nat /\ (i <= Len(s) => i \in DOMAIN s /\ u[i] = s[i] /\ u[i] \in S)
                            /\ (~(i <= Len(s)) => i - Len(s) \in DOMAIN t /\ u[i] = t[i - Len(s)] /\ u[i] \in T)
    BY <1>1, <1>3
  <2>2. CASE j <= Len(s) /\ k <= Len(s)
    BY <1>5, <2>1, <2>2 DEF Lists
  <2>3. CASE ~(j <= Len(s)) /\ ~(k <= Len(s))
    <3>1. j - Len(s) = k - Len(s)
      BY <1>5, <2>1, <2>3 DEF Lists
    <3> QED BY <1>1, <2>1, <3>1
  <2>4. CASE (j <= Len(s)) # (k <= Len(s))
    BY <1>5, <2>1, <2>4
  <2> QED BY <2>2, <2>3, <2>4
<1> QED BY <1>3, <1>4, <1>5 DEF Lists, u

(* The plan has the items that are not as they are wanted, once each.            *)
LEMMA PlansAre ==
  ASSUME NEW plan, plan = Due("dll") \o Due("config") \o Due("ini") \o Due("plugins")
  PROVE  /\ plan \in Seq(Items)
         /\ \A j, k \in DOMAIN plan : plan[j] = plan[k] => j = k
         /\ \A i \in Items : (\A j \in DOMAIN plan : plan[j] # i) => place[i] = Wanted(i)
         /\ \A j \in DOMAIN plan : place[plan[j]] # Wanted(plan[j])
<1> DEFINE D(i) == {x \in {i} : place[x] # Wanted(x)}
<1>1. ASSUME NEW i PROVE Lists(Due(i), D(i))
  <2>1. CASE place[i] # Wanted(i)
    BY <2>1 DEF Due, Lists
  <2>2. CASE place[i] = Wanted(i)
    BY <2>2 DEF Due, Lists
  <2> QED BY <2>1, <2>2
<1>2. Lists(Due("dll") \o Due("config"), D("dll") \cup D("config"))
  <2>1. D("dll") \cap D("config") = {}
    OBVIOUS
  <2> HIDE DEF D
  <2> QED BY <1>1, <2>1, ListsJoin
<1>3. Lists((Due("dll") \o Due("config")) \o Due("ini"), (D("dll") \cup D("config")) \cup D("ini"))
  <2>1. (D("dll") \cup D("config")) \cap D("ini") = {}
    OBVIOUS
  <2> HIDE DEF D
  <2> QED BY <1>1, <1>2, <2>1, ListsJoin
<1>4. Lists(((Due("dll") \o Due("config")) \o Due("ini")) \o Due("plugins"), ((D("dll") \cup D("config")) \cup D("ini")) \cup D("plugins"))
  <2>1. ((D("dll") \cup D("config")) \cup D("ini")) \cap D("plugins") = {}
    OBVIOUS
  <2> HIDE DEF D
  <2> QED BY <1>1, <1>3, <2>1, ListsJoin
<1>5. plan = ((Due("dll") \o Due("config")) \o Due("ini")) \o Due("plugins")
  OBVIOUS
<1>6. ((D("dll") \cup D("config")) \cup D("ini")) \cup D("plugins") = {i \in Items : place[i] # Wanted(i)}
  BY DEF Items
<1>7. Lists(plan, {i \in Items : place[i] # Wanted(i)})
  <2> HIDE DEF D
  <2> QED BY <1>4, <1>5, <1>6
<1> DEFINE W == {i \in Items : place[i] # Wanted(i)}
<1>8. (\A i : i \in W <=> i \in Items /\ place[i] # Wanted(i)) /\ Lists(plan, W)
  BY <1>7
<1> HIDE DEF W
<1>9. /\ plan \in Seq(W)
      /\ \A x \in W : \E j \in DOMAIN plan : plan[j] = x
      /\ \A j, k \in DOMAIN plan : plan[j] = plan[k] => j = k
  BY <1>8 DEF Lists
<1>11. \A s \in Seq(W) : \A j \in DOMAIN s : s[j] \in W
  OBVIOUS
<1>12. \A j \in DOMAIN plan : plan[j] \in W
  BY <1>9, <1>11, Zenon
<1>10. plan \in Seq(Items)
  <2>1. W \subseteq Items
    BY <1>8
  <2> QED BY <1>9, <2>1
<1> QED BY <1>8, <1>9, <1>10, <1>12

(* buildSkyrimPlan *)
LEMMA BuildKeeps == ASSUME SessionInv, Build PROVE SessionInv'
<1> USE DEF SessionInv, LaunchKept, Mishap, NoMishap
<1>1. CASE phase' = "refused"
  BY <1>1 DEF Build, SessionTypes, Deploying, Returning, Overlaid, DeploymentIsAtomic, OverlayIsTemporary
<1>2. CASE phase' = "deploy"
  <2>1. /\ origin' = place /\ items' = Due("dll") \o Due("config") \o Due("ini") \o Due("plugins")
        /\ mishaps' = 0 /\ applied = <<>> /\ phase = "build"
        /\ UNCHANGED <<overlay, place, backup, applied, trouble, game, sampled, controller>>
    BY <1>2 DEF Build, Returning
  <2>2. /\ items' \in Seq(Items)
        /\ \A j, k \in DOMAIN items' : items'[j] = items'[k] => j = k
        /\ \A i \in Items : (\A j \in DOMAIN items' : items'[j] # i) => place[i] = Wanted(i)
        /\ \A j \in DOMAIN items' : place[items'[j]] # Wanted(items'[j])
    BY <2>1, PlansAre
  <2>3. SessionTypes'
    BY <2>1, <2>2 DEF SessionTypes
  <2>4. DOMAIN applied' = {}
    BY <2>1
  <2>5. \A i \in Items : Wanted(i)' = Wanted(i)
    BY <2>1 DEF Wanted
  <2>6. \A j \in DOMAIN items' : items'[j] = "ini" => overlay'.ini
    BY <2>1, <2>2 DEF Wanted
  <2>7. Deploying'
    BY <2>1, <2>2, <2>4, <2>5, <2>6 DEF Deploying, Recorded, Untouched
  <2>8. Returning' /\ Overlaid'
    BY <1>2, <2>1 DEF Returning, Overlaid, DeploymentIsAtomic, OverlayIsTemporary
  <2> QED BY <2>3, <2>7, <2>8
<1> QED BY <1>1, <1>2 DEF Build

(* What an entry says of its item is how it goes back.                            *)
LEMMA EntryAppended ==
  ASSUME SessionTypes, Recorded, Untouched, NEW item \in Items,
         \A k \in DOMAIN applied : applied[k].item # item,
         applied' = Applied(item), backup' = Saved(item), origin' = origin,
         \A i \in Items \ {item} : place'[i] = place[i]
  PROVE  applied' \in Seq(Entries) /\ Recorded' /\ Untouched'
<1> DEFINE entry == [item |-> item, existed |-> place[item] # "absent"]
           n == Len(applied)
<1>1. /\ applied' = Append(applied, entry) /\ applied \in Seq(Entries) /\ entry \in Entries
      /\ n \in Nat /\ DOMAIN applied = 1 .. n
  BY DEF Applied, SessionTypes, Entries
<1>2. /\ applied' \in Seq(Entries) /\ DOMAIN applied' = 1 .. n + 1
      /\ \A j \in 1 .. n : applied'[j] = applied[j] /\ j \in DOMAIN applied
      /\ applied'[n + 1] = entry
  BY <1>1
<1>3. place[item] = origin[item]
  BY DEF Untouched
<1>4. /\ place[item] # "absent" => backup'[item] = place[item]
      /\ \A i \in Items \ {item} : backup'[i] = backup[i]
  BY DEF Saved, SessionTypes
<1>5. entry.item = item /\ entry.existed = (origin[item] # "absent") /\ (entry.existed => backup'[item] = origin[item])
  BY <1>3, <1>4
<1> HIDE DEF entry, n
<1>6. \A j \in DOMAIN applied : applied[j].item \in Items /\ applied[j].item # item
  <2>1. \A j \in DOMAIN applied : applied[j] \in Entries
    BY <1>1
  <2> QED BY <2>1 DEF Entries
<1>7. \A j \in DOMAIN applied' : (j \in DOMAIN applied /\ applied'[j] = applied[j]) \/ (j = n + 1 /\ applied'[j] = entry)
  BY <1>1, <1>2
<1>8. Recorded'
  <2>1. \A j \in DOMAIN applied' : applied'[j].existed = (origin[applied'[j].item] # "absent")
    BY <1>5, <1>6, <1>7 DEF Recorded
  <2>2. \A j \in DOMAIN applied' : applied'[j].existed => backup'[applied'[j].item] = origin[applied'[j].item]
    BY <1>4, <1>5, <1>6, <1>7 DEF Recorded
  <2>3. \A j, k \in DOMAIN applied' : applied'[j].item = applied'[k].item => j = k
    BY <1>5, <1>6, <1>7 DEF Recorded
  <2> QED BY <2>1, <2>2, <2>3 DEF Recorded
<1>9. Untouched'
  <2> SUFFICES ASSUME NEW i \in Items, \A j \in DOMAIN applied' : applied'[j].item # i PROVE place'[i] = origin'[i]
    BY DEF Untouched
  <2>1. i # item
    BY <1>1, <1>2, <1>5
  <2>2. \A j \in DOMAIN applied : applied[j].item # i
    BY <1>1, <1>2
  <2> QED BY <2>1, <2>2 DEF Untouched
<1> QED BY <1>2, <1>8, <1>9

(* materializeSkyrimPlan *)
LEMMA ApplyKeeps == ASSUME SessionInv, Apply PROVE SessionInv'
<1> USE DEF SessionInv, PlanKept, LaunchKept, Mishap, NoMishap
<1> DEFINE item == Head(items)
<1>1. /\ phase = "deploy" /\ items # <<>> /\ mishaps = 0 /\ Recorded /\ Untouched
      /\ item \in Items /\ (\A k \in DOMAIN applied : applied[k].item # item) /\ (item = "ini" => overlay.ini)
      /\ \A j \in DOMAIN items : j # 1 => items[j] # item
      /\ UNCHANGED <<overlay, origin, game, sampled, controller, trouble>> /\ backup' = Saved(item)
  <2>1. items \in Seq(Items) /\ items # <<>> /\ phase = "deploy"
    BY DEF Apply, SessionTypes
  <2>2. item = items[1] /\ 1 \in DOMAIN items /\ item \in Items
    BY <2>1
  <2> HIDE DEF item
  <2>3. backup' = Saved(item) /\ UNCHANGED <<overlay, origin, game, sampled, controller, trouble>>
    BY DEF Apply, item
  <2> QED BY <2>1, <2>2, <2>3 DEF Deploying
<1>2. backup' = [i \in Items |-> backup'[i]]
  BY <1>1 DEF Saved, SessionTypes
<1> HIDE DEF item
<1>3. CASE phase' = "deploy"
  <2>1. /\ place' = [place EXCEPT ![item] = Wanted(item)] /\ applied' = Applied(item)
        /\ items' = Tail(items) /\ mishaps' = 0
    BY <1>1, <1>3 DEF Apply, item
  <2>2. DOMAIN place = Items /\ place' \in Places
    BY <1>1, <2>1, WantedFits, PlacesAre DEF SessionTypes
  <2>3. (\A i \in Items \ {item} : place'[i] = place[i]) /\ place'[item] = Wanted(item)
    BY <1>1, <2>1, <2>2
  <2>4. \A i \in Items : Wanted(i)' = Wanted(i)
    BY <1>1, <2>3 DEF Wanted, Items
  <2>5. applied' \in Seq(Entries) /\ Recorded' /\ Untouched'
    BY <1>1, <2>1, <2>3, EntryAppended
  <2>6. /\ items' \in Seq(Items)
        /\ \A j \in DOMAIN items' : j + 1 \in DOMAIN items /\ j + 1 # 1 /\ items'[j] = items[j + 1] /\ j \in Nat
        /\ \A j \in DOMAIN items : j = 1 \/ (j - 1 \in DOMAIN items' /\ items'[j - 1] = items[j])
        /\ items[1] = item
    BY <1>1, <2>1 DEF SessionTypes, item
  <2>7. \A k \in DOMAIN applied' : (k \in DOMAIN applied /\ applied'[k].item = applied[k].item) \/ applied'[k].item = item
    <3>1. applied \in Seq(Entries) /\ applied' = Append(applied, [item |-> item, existed |-> place[item] # "absent"])
      BY <2>1 DEF Applied, SessionTypes
    <3> QED BY <3>1
  <2>8. \A j, k \in DOMAIN items' : items'[j] = items'[k] => j = k
    <3> SUFFICES ASSUME NEW j \in DOMAIN items', NEW k \in DOMAIN items', items'[j] = items'[k] PROVE j = k
      OBVIOUS
    <3>1. j + 1 = k + 1
      BY <1>1, <2>6 DEF Deploying
    <3> QED BY <2>6, <3>1
  <2>9. \A j \in DOMAIN items', k \in DOMAIN applied' : items'[j] # applied'[k].item
    <3> SUFFICES ASSUME NEW j \in DOMAIN items', NEW k \in DOMAIN applied' PROVE items'[j] # applied'[k].item
      OBVIOUS
    <3>1. j + 1 \in DOMAIN items /\ items'[j] = items[j + 1] /\ items[j + 1] # item
      BY <1>1, <2>6
    <3>2. CASE applied'[k].item = item
      BY <3>1, <3>2
    <3>3. CASE k \in DOMAIN applied /\ applied'[k].item = applied[k].item
      BY <1>1, <3>1, <3>3 DEF Deploying
    <3> QED BY <2>7, <3>2, <3>3
  <2>10. \A i \in Items : (\A j \in DOMAIN items' : items'[j] # i) => place'[i] = Wanted(i)
    <3> SUFFICES ASSUME NEW i \in Items, \A j \in DOMAIN items' : items'[j] # i, i # item PROVE place[i] = Wanted(i)
      BY <2>3
    <3>1. \A j \in DOMAIN items : items[j] # i
      BY <2>6
    <3> QED BY <1>1, <3>1 DEF Deploying
  <2>11. \A j \in DOMAIN items' : items'[j] = "ini" => overlay'.ini
    BY <1>1, <2>6 DEF Deploying
  <2>12. \A k \in DOMAIN applied' : applied'[k].item = "ini" => overlay'.ini
    BY <1>1, <2>7 DEF Deploying
  <2>13. SessionTypes'
    BY <1>1, <1>2, <2>1, <2>2, <2>5, <2>6 DEF SessionTypes
  <2>14. Deploying'
    BY <2>1, <2>4, <2>5, <2>8, <2>9, <2>10, <2>11, <2>12 DEF Deploying
  <2>15. Returning' /\ Overlaid'
    BY <1>1, <1>3 DEF Returning, Overlaid, DeploymentIsAtomic, OverlayIsTemporary
  <2> QED BY <2>13, <2>14, <2>15
<1>4. CASE phase' = "rollback" /\ UNCHANGED <<place, applied, items>>
  <2>1. mishaps' = 1
    BY <1>1, <1>4 DEF Apply
  <2>2. SessionTypes'
    BY <1>1, <1>2, <1>4, <2>1 DEF SessionTypes
  <2>3. \A i \in Items \ {item} : backup'[i] = backup[i]
    BY <1>1 DEF Saved, SessionTypes
  <2>4. \A j \in DOMAIN applied : applied[j].item \in Items \ {item}
    <3>1. \A j \in DOMAIN applied : applied[j] \in Entries
      BY DEF SessionTypes
    <3> QED BY <1>1, <3>1 DEF Entries
  <2>5. Recorded' /\ Untouched'
    BY <1>1, <1>4, <2>3, <2>4 DEF Recorded, Untouched
  <2>6. Deploying' /\ Returning' /\ Overlaid'
    BY <1>1, <1>4, <2>1, <2>5 DEF Deploying, Returning, Overlaid, DeploymentIsAtomic, OverlayIsTemporary
  <2> QED BY <2>2, <2>6
<1>5. CASE phase' = "rollback" /\ item # "plugins" /\ place' = [place EXCEPT ![item] = "odd"] /\ applied' = Applied(item) /\ UNCHANGED items
  <2>1. mishaps' = 1
    BY <1>1, <1>5 DEF Apply
  <2>2. DOMAIN place = Items /\ place' \in Places
    BY <1>1, <1>5, PlacesAre DEF SessionTypes
  <2>3. \A i \in Items \ {item} : place'[i] = place[i]
    BY <1>5, <2>2
  <2>4. applied' \in Seq(Entries) /\ Recorded' /\ Untouched'
    BY <1>1, <1>5, <2>3, EntryAppended
  <2>5. SessionTypes'
    BY <1>1, <1>2, <1>5, <2>1, <2>2, <2>4 DEF SessionTypes
  <2>6. Deploying' /\ Returning' /\ Overlaid'
    BY <1>1, <1>5, <2>1, <2>4 DEF Deploying, Returning, Overlaid, DeploymentIsAtomic, OverlayIsTemporary
  <2> QED BY <2>5, <2>6
<1> QED BY <1>1, <1>3, <1>4, <1>5 DEF Apply, item

(* rollbackApplied *)
LEMMA RollBackKeeps == ASSUME SessionInv, RollBack PROVE SessionInv'
<1> USE DEF SessionInv, PlanKept, LaunchKept, Mishap, NoMishap
<1>1. /\ phase = "rollback" /\ mishaps # 0 /\ mishaps \in Nat /\ Recorded /\ (mishaps = 1 => Untouched)
      /\ UNCHANGED <<overlay, origin, backup, items, game, sampled, controller, trouble>>
  BY DEF RollBack, Returning, SessionTypes
<1>2. CASE applied = <<>>
  <2>1. phase' = "undeployed" /\ UNCHANGED <<place, applied, mishaps>>
    BY <1>2 DEF RollBack
  <2>2. mishaps = 1 => place = origin
    <3>1. DOMAIN place = Items /\ DOMAIN origin = Items /\ place \in Places /\ origin \in Places
      BY PlacesAre DEF SessionTypes
    <3> SUFFICES ASSUME mishaps = 1 PROVE place = origin
      OBVIOUS
    <3>2. \A i \in Items : place[i] = origin[i]
      BY <1>1, <1>2 DEF Untouched
    <3>3. place = [i \in Items |-> place[i]] /\ origin = [i \in Items |-> origin[i]]
      BY <3>1 DEF Places
    <3> QED BY <3>2, <3>3, Zenon
  <2>3. SessionTypes'
    BY <1>1, <2>1 DEF SessionTypes
  <2> QED BY <1>1, <2>1, <2>2, <2>3 DEF Deploying, Returning, Overlaid, DeploymentIsAtomic, OverlayIsTemporary
<1>3. CASE applied # <<>>
  <2> DEFINE entry == applied[Len(applied)]
  <2>1. /\ applied' = Front(applied) /\ phase' = "rollback"
        /\ \/ place' = [place EXCEPT ![entry.item] = Returned(entry)] /\ mishaps' = mishaps
           \/ place' = place /\ mishaps' = mishaps + 1
    BY <1>1, <1>3 DEF RollBack, Last
  <2>2. /\ applied' \in Seq(Entries) /\ Len(applied) \in DOMAIN applied /\ entry \in Entries
        /\ \A j \in DOMAIN applied' : j \in DOMAIN applied /\ j # Len(applied) /\ applied'[j] = applied[j]
        /\ \A j \in DOMAIN applied : j \in DOMAIN applied' \/ j = Len(applied)
    BY <1>3, <2>1 DEF SessionTypes, Front
  <2>3. entry.item \in Items /\ Returned(entry) = origin[entry.item]
    BY <1>1, <2>2 DEF Returned, Recorded, Entries
  <2> HIDE DEF entry
  <2>4. DOMAIN place = Items /\ place' \in Places
    <3>1. place \in Places /\ origin \in Places
      BY DEF SessionTypes
    <3>2. [place EXCEPT ![entry.item] = origin[entry.item]] \in Places
      BY <2>3, <3>1, PlacesAre
    <3> QED BY <2>1, <2>3, <3>1, <3>2, PlacesAre
  <2>5. SessionTypes'
    BY <1>1, <2>1, <2>2, <2>4 DEF SessionTypes
  <2>6. Recorded'
    BY <1>1, <2>2 DEF Recorded
  <2>7. mishaps' # 0
    BY <1>1, <2>1
  <2>8. ASSUME mishaps' = 1 PROVE Untouched'
    <3>1. mishaps = 1 /\ place' = [place EXCEPT ![entry.item] = origin[entry.item]]
      BY <1>1, <2>1, <2>3, <2>8
    <3> SUFFICES ASSUME NEW i \in Items, \A j \in DOMAIN applied' : applied'[j].item # i PROVE place'[i] = origin[i]
      BY <1>1 DEF Untouched
    <3>2. CASE i = entry.item
      BY <2>3, <2>4, <3>1, <3>2
    <3>3. CASE i # entry.item
      <4>1. \A j \in DOMAIN applied : applied[j].item # i
        BY <2>2, <3>3 DEF entry
      <4>2. place[i] = origin[i]
        BY <1>1, <3>1, <4>1 DEF Untouched
      <4> QED BY <2>4, <3>1, <3>3, <4>2
    <3> QED BY <3>2, <3>3
  <2>9. Deploying' /\ Returning' /\ Overlaid'
    BY <1>1, <2>1, <2>6, <2>7, <2>8 DEF Deploying, Returning, Overlaid, DeploymentIsAtomic, OverlayIsTemporary
  <2> QED BY <2>5, <2>9
<1> QED BY <1>2, <1>3

(* What an overlay has changed can be restored once all is deployed.              *)
LEMMA DeployedKeeps == ASSUME SessionInv, Deployed PROVE SessionInv'
<1> USE DEF SessionInv, PlanKept, DeploymentKept, LaunchKept, Mishap, NoMishap
<1>1. /\ phase = "deploy" /\ items = <<>> /\ phase' \in {"launch", "restoreConfig", "abandoned"} /\ controller # "running"
      /\ UNCHANGED <<overlay, origin, place, backup, items, applied, game, sampled, controller, trouble>>
  BY DEF Deployed, Overlaid
<1>2. /\ Recorded /\ Untouched /\ \A i \in Items : place[i] = Wanted(i)
      /\ \A k \in DOMAIN applied : applied[k].item = "ini" => overlay.ini
  BY <1>1 DEF Deploying
<1>3. INICanReturn
  <2>1. CASE RestoresINI
    <3>1. place["ini"] = "active" /\ origin["ini"] # "active" /\ origin["ini"] # "absent"
      BY <1>2, <2>1 DEF RestoresINI, Wanted, Items, SessionTypes, Places
    <3>2. PICK j \in DOMAIN applied : applied[j].item = "ini"
      BY <1>2, <3>1 DEF Untouched, Items
    <3> QED BY <1>2, <2>1, <3>1, <3>2 DEF INICanReturn, Recorded
  <2>2. CASE overlay.ini /\ ~RestoresINI
    BY <1>2, <2>2 DEF INICanReturn, RestoresINI, Wanted, Items
  <2>3. CASE ~overlay.ini
    <3>1. \A j \in DOMAIN applied : applied[j].item # "ini"
      BY <1>2, <2>3
    <3>2. place["ini"] = origin["ini"]
      BY <1>2, <3>1 DEF Untouched, Items
    <3> QED BY <2>3, <3>2 DEF INICanReturn, RestoresINI
  <2> QED BY <2>1, <2>2, <2>3
<1>4. place["config"] = (IF overlay.config THEN "overlay" ELSE "safe")
  BY <1>2 DEF Wanted, Items
<1>5. mishaps' \in Nat
  BY DEF Deployed, SessionTypes
<1>6. SessionTypes'
  BY <1>1, <1>5 DEF SessionTypes
<1>7. INICanReturn'
  BY <1>1, <1>3 DEF INICanReturn, RestoresINI
<1> QED BY <1>1, <1>4, <1>6, <1>7 DEF Deploying, Returning, Overlaid, DeploymentIsAtomic, OverlayIsTemporary

(* launchSkyrim, the game and the controller: nothing deployed changes, and the     *)
(* controller is reaped on the way out.                                         *)
LEMMA LaunchKeeps ==
  ASSUME SessionInv,
         StartController \/ StartGame \/ Sample \/ ReadLog \/ NotReady \/ Played \/ GameStep \/ ControllerStep
  PROVE  SessionInv'
<1> USE DEF SessionInv, PlanKept, DeploymentKept, LaunchKept, Mishap, NoMishap
<1>1. UNCHANGED <<overlay, origin, place, backup, items, applied>> /\ mishaps' \in Nat
  BY DEF StartController, StartGame, Sample, ReadLog, NotReady, Played, GameStep, ControllerStep, SessionTypes
<1>2. SessionTypes' /\ (INICanReturn => INICanReturn') /\ (Recorded => Recorded') /\ (Untouched => Untouched')
  BY <1>1 DEF SessionTypes, INICanReturn, RestoresINI, Recorded, Untouched
<1>3. CASE StartController \/ StartGame \/ Sample \/ ReadLog \/ NotReady \/ Played
  <2>1. /\ phase \in {"launch", "await", "read", "play"} /\ phase' \in {"launch", "await", "read", "play", "restoreConfig"}
        /\ phase' = "restoreConfig" => controller' # "running"
    BY <1>3 DEF StartController, StartGame, Sample, ReadLog, NotReady, Played, Fails, Reaped
  <2> QED BY <1>1, <1>2, <2>1 DEF Deploying, Returning, Overlaid, DeploymentIsAtomic, OverlayIsTemporary
<1>4. CASE GameStep \/ ControllerStep
  <2>1. UNCHANGED <<phase, trouble, mishaps>> /\ (controller' = controller \/ controller' # "running")
    BY <1>4 DEF GameStep, ControllerStep
  <2>2. \A i \in Items : Wanted(i)' = Wanted(i)
    BY <1>1 DEF Wanted
  <2> QED BY <1>1, <1>2, <2>1, <2>2 DEF Deploying, Returning, Overlaid, DeploymentIsAtomic, OverlayIsTemporary
<1> QED BY <1>3, <1>4

(* restoreSkyrimRuntimeConfig, then restoreSkyrimINI *)
LEMMA RestoreKeeps == ASSUME SessionInv, RestoreConfig \/ RestoreINI PROVE SessionInv'
<1> USE DEF SessionInv, PlanKept, LaunchKept, Mishap, NoMishap
<1>1. UNCHANGED <<overlay, origin, backup, items, applied, game, sampled, controller>> /\ mishaps' \in Nat /\ controller # "running"
  BY DEF RestoreConfig, RestoreINI, SessionTypes, Overlaid
<1>2. DOMAIN place = Items /\ DOMAIN origin = Items
  BY PlacesAre DEF SessionTypes
<1>3. CASE RestoreConfig
  <2>1. /\ phase = "restoreConfig" /\ phase' = "restoreINI" /\ INICanReturn
        /\ place["config"] = (IF overlay.config THEN "overlay" ELSE "safe")
        /\ place' = place \/ place' = [place EXCEPT !["config"] = "safe"]
        /\ "restoration" \notin trouble' => place'["config"] = "safe"
    BY <1>2, <1>3 DEF RestoreConfig, RestoresNow, RestoresConfig, Overlaid, Items
  <2>2. place' \in Places
    BY <2>1, PlacesAre DEF SessionTypes
  <2>3. place'["ini"] = place["ini"]
    BY <1>2, <2>1 DEF Items
  <2>4. INICanReturn'
    BY <1>1, <2>1, <2>3 DEF INICanReturn, RestoresINI
  <2>5. SessionTypes'
    BY <1>1, <2>2 DEF SessionTypes
  <2> QED BY <1>1, <2>1, <2>4, <2>5 DEF Deploying, Returning, Overlaid, DeploymentIsAtomic, OverlayIsTemporary
<1>4. CASE RestoreINI
  <2>1. /\ phase = "restoreINI" /\ phase' = "ended" /\ INICanReturn /\ ("restoration" \notin trouble => place["config"] = "safe")
        /\ (place' = place \/ (RestoresINI /\ place' = [place EXCEPT !["ini"] = backup["ini"]]))
        /\ "restoration" \notin trouble' => "restoration" \notin trouble /\ (RestoresINI => place' = [place EXCEPT !["ini"] = backup["ini"]])
    BY <1>4 DEF RestoreINI, Overlaid
  <2>2. place' \in Places
    <3>1. place \in Places /\ origin \in Places /\ "ini" \in Items
      BY DEF SessionTypes, Items
    <3>2. [place EXCEPT !["ini"] = origin["ini"]] \in Places
      BY <3>1, PlacesAre
    <3> QED BY <2>1, <3>1, <3>2 DEF INICanReturn
  <2>3. SessionTypes'
    BY <1>1, <2>2 DEF SessionTypes
  <2>4. ASSUME "restoration" \notin trouble' PROVE place'["config"] = "safe" /\ place'["ini"] = origin["ini"]
    BY <1>2, <2>1, <2>4 DEF INICanReturn, Items
  <2> QED BY <1>1, <2>1, <2>3, <2>4 DEF Deploying, Returning, Overlaid, DeploymentIsAtomic, OverlayIsTemporary
<1> QED BY <1>3, <1>4

LEMMA SessionInvInit == ASSUME SessionAssumption, SessionInit PROVE SessionInv
BY DEF SessionAssumption, SessionInit, SessionInv, SessionTypes, Deploying, Returning, Overlaid,
       DeploymentIsAtomic, OverlayIsTemporary, Places, Items

LEMMA SessionInvStep == ASSUME SessionInv, [SessionNext]_skyrimVars PROVE SessionInv'
<1>1. CASE Preflight \/ Killed
  <2> USE DEF Mishap, NoMishap, PlanKept, DeploymentKept, LaunchKept, AtRest
  <2>1. SessionTypes'
    <3>1. SessionTypes
      BY DEF SessionInv
    <3>2. CASE Preflight
      BY <3>1, <3>2 DEF SessionTypes, SessionAssumption, Preflight
    <3>3. CASE Killed
      BY <3>1, <3>3 DEF SessionTypes, Killed
    <3> QED BY <1>1, <3>2, <3>3
  <2>2. Deploying' /\ Returning' /\ Overlaid'
    BY <1>1 DEF Preflight, Killed, Deploying, Returning, Overlaid, DeploymentIsAtomic, OverlayIsTemporary
  <2> QED BY <2>1, <2>2 DEF SessionInv
<1>2. CASE UNCHANGED skyrimVars
  BY <1>2 DEF skyrimVars, SessionInv, SessionTypes, Deploying, Returning, Overlaid, Recorded, Untouched,
              INICanReturn, RestoresINI, Wanted, DeploymentIsAtomic, OverlayIsTemporary
<1> QED BY <1>1, <1>2, BuildKeeps, ApplyKeeps, RollBackKeeps, DeployedKeeps, LaunchKeeps, RestoreKeeps DEF SessionNext

(* However a run of Skyrim ends, and whatever the runs before it that were killed   *)
(* have left: a deployment that fails leaves what it found unless its rollback      *)
(* fails too, and an overlay is gone when the command ends or the command says so.  *)
THEOREM OverlaysAreTemporary == SessionAssumption /\ SessionSpec => []OverlayLeavesNoTrace
<1>1. SessionInv => OverlayLeavesNoTrace
  BY DEF SessionInv, Returning, Overlaid, OverlayLeavesNoTrace
<1>2. SessionAssumption /\ SessionInit => SessionInv
  BY SessionInvInit
<1>3. SessionInv /\ [SessionNext]_skyrimVars => SessionInv'
  BY SessionInvStep
<1> QED BY <1>1, <1>2, <1>3, PTL DEF SessionSpec

-----------------------------------------------------------------------------
(* The page.  A plan that is still the one its attachment waited for is the     *)
(* registered one; an attachment in the document's host shows it; and the       *)
(* frames are a forest, so that a frame is never below its own children.        *)
IsPage(p) ==
  /\ DOMAIN p = {"frames", "plans", "pending", "mounted", "threw"}
  /\ p.threw \in BOOLEAN

Framed(p) ==
  /\ NoFrame \notin Active(p)
  /\ \A f \in Active(p) :
       /\ DOMAIN p.frames[f] = {"parent", "state", "branches"}
       /\ p.frames[f].parent \in Active(p) \cup {NoFrame}

Forest(p) == \A F \in SUBSET Active(p) : F # {} => \E f \in F : p.frames[f].parent \notin F

Waiting(p) ==
  \A f \in DOMAIN p.pending :
    /\ f \in DOMAIN p.plans
    /\ DOMAIN p.pending[f] = {"label", "current"}
    /\ p.pending[f].current \in BOOLEAN
    /\ p.pending[f].current => p.pending[f].label = p.plans[f]

Mounted(p) ==
  \A f \in DOMAIN p.mounted :
    LET m == p.mounted[f]
    IN /\ f \in DOMAIN p.plans /\ f \notin DOMAIN p.pending
       /\ DOMAIN m = {"label", "inHost", "listens"}
       /\ m.inHost \in BOOLEAN
       /\ m.inHost => host /\ m.label = p.plans[f]
       /\ ~mutated => m.inHost

Attached(p) == Waiting(p) /\ Mounted(p)
Planned(p) == DOMAIN p.plans \subseteq DOMAIN Envelope \cup Active(p)
Kept(p) == IsPage(p) /\ Framed(p) /\ Forest(p) /\ Attached(p) /\ Planned(p)

HandledToTheEnd(f) ==
  /\ f \in Active(page)
  /\ Children(page, f) = ToSet(Shown(page, f))
  /\ {f} \cup Children(page, f) \subseteq DOMAIN page.plans
  /\ page.plans[f] = page.frames[f].state

PageInv ==
  /\ Kept(page) /\ ~page.threw
  /\ host \in BOOLEAN /\ mutated \in BOOLEAN /\ framesLoaded \in BOOLEAN /\ plansLoaded \in BOOLEAN
  /\ framesLoaded \/ Active(page) = {}
  /\ plansLoaded \/ DOMAIN page.plans = {}
  /\ dispatched # NoFrame => HandledToTheEnd(dispatched)

-----------------------------------------------------------------------------
(* Induction, from the order of the naturals.                                 *)
LEMMA Least ==
  ASSUME NEW T \in SUBSET Nat, T # {}
  PROVE  \E x \in T : \A y \in T : x <= y
<1>1. PICK x \in T : \A y \in T : ~(<<y, x>> \in OpToRel(<, Nat))
  BY WFMin, NatLessThanWellFounded, Zenon
<1>2. \A y \in T : ~(y < x)
  BY <1>1 DEF OpToRel
<1> QED BY <1>2

LEMMA SetInduction ==
  ASSUME NEW S \in SUBSET Nat, 0 \in S, \A n \in S : n + 1 \in S
  PROVE  S = Nat
<1> SUFFICES ASSUME S # Nat PROVE FALSE
  OBVIOUS
<1>1. PICK x \in Nat \ S : \A y \in Nat \ S : x <= y
  BY Least
<1>2. x # 0 /\ x - 1 \in Nat
  OBVIOUS
<1>3. x - 1 \in S
  BY <1>1, <1>2
<1> QED BY <1>1, <1>3

-----------------------------------------------------------------------------
(* What each operation on a page does to it.                                   *)

LEMMA WaitingAgain ==
  ASSUME NEW p, IsPage(p), NEW f
  PROVE  LET q == Await(p, f)
         IN /\ IsPage(q)
            /\ q.frames = p.frames /\ q.plans = p.plans /\ q.mounted = p.mounted /\ q.threw = p.threw
            /\ DOMAIN q.pending = DOMAIN p.pending \cup {f}
            /\ f \in DOMAIN p.pending => q.pending[f] = [p.pending[f] EXCEPT !.current = FALSE]
            /\ f \notin DOMAIN p.pending => q.pending[f] = [label |-> p.plans[f], current |-> TRUE]
            /\ \A x \in DOMAIN p.pending \ {f} : q.pending[x] = p.pending[x]
<1> DEFINE q == Await(p, f)
<1>1. CASE f \in DOMAIN p.pending
  BY <1>1 DEF Await, IsPage
<1>2. CASE f \notin DOMAIN p.pending
  BY <1>2 DEF Await, IsPage, Put
<1> QED BY <1>1, <1>2

(* The plans are put one by one; of a frame whose host is gone, the mounted      *)
(* element is not in the host.                                                *)
LEMMA PlanIsPut ==
  ASSUME NEW p, IsPage(p), Attached(p), NEW f, NEW label
  PROVE  LET q == PutPlan(p, f, label)
         IN /\ IsPage(q) /\ q.frames = p.frames /\ Attached(q)
            /\ p.threw => q = p
            /\ DOMAIN p.plans \subseteq DOMAIN q.plans /\ DOMAIN q.plans \subseteq DOMAIN p.plans \cup {f}
            /\ ~q.threw => f \in DOMAIN q.plans /\ q.plans[f] = label
            /\ \A x \in DOMAIN p.plans \ {f} : q.plans[x] = p.plans[x]
<1> DEFINE q == PutPlan(p, f, label)
           r == [p EXCEPT !.plans = Put(p.plans, f, label)]
<1>1. CASE p.threw \/ (f \in DOMAIN p.plans /\ p.plans[f] = label)
  <2>1. q = p
    BY <1>1 DEF PutPlan
  <2> QED BY <1>1, <2>1
<1>2. CASE ~p.threw /\ ~(f \in DOMAIN p.plans /\ p.plans[f] = label)
  <2>1. /\ IsPage(r) /\ ~r.threw
        /\ r.frames = p.frames /\ r.pending = p.pending /\ r.mounted = p.mounted
        /\ DOMAIN r.plans = DOMAIN p.plans \cup {f} /\ r.plans[f] = label
        /\ \A x \in DOMAIN p.plans \ {f} : r.plans[x] = p.plans[x]
    BY <1>2 DEF IsPage, Put
  <2>2. q = CASE f \notin DOMAIN p.mounted -> Await(r, f)
              [] f \in DOMAIN p.mounted /\ host -> [r EXCEPT !.mounted[f].label = label]
              [] OTHER -> [r EXCEPT !.threw = TRUE]
    BY <1>2 DEF PutPlan
  <2> HIDE DEF r, q
  <2>3. ASSUME IsPage(q), Attached(q), q.plans = r.plans, q.frames = r.frames
        PROVE  /\ IsPage(q) /\ q.frames = p.frames /\ Attached(q)
               /\ p.threw => q = p
               /\ DOMAIN p.plans \subseteq DOMAIN q.plans /\ DOMAIN q.plans \subseteq DOMAIN p.plans \cup {f}
               /\ ~q.threw => f \in DOMAIN q.plans /\ q.plans[f] = label
               /\ \A x \in DOMAIN p.plans \ {f} : q.plans[x] = p.plans[x]
    BY <1>2, <2>1, <2>3
  <2>4. CASE f \notin DOMAIN p.mounted
    <3>1. q = Await(r, f)
      BY <2>2, <2>4
    <3>2. /\ IsPage(q) /\ q.frames = r.frames /\ q.plans = r.plans /\ q.mounted = r.mounted
          /\ DOMAIN q.pending = DOMAIN p.pending \cup {f}
          /\ f \in DOMAIN p.pending => q.pending[f] = [p.pending[f] EXCEPT !.current = FALSE]
          /\ f \notin DOMAIN p.pending => q.pending[f] = [label |-> label, current |-> TRUE]
          /\ \A x \in DOMAIN p.pending \ {f} : q.pending[x] = p.pending[x]
      BY <2>1, <3>1, WaitingAgain
    <3>3. Waiting(q)
      <4> SUFFICES ASSUME NEW x \in DOMAIN q.pending
                   PROVE  /\ x \in DOMAIN q.plans
                          /\ DOMAIN q.pending[x] = {"label", "current"}
                          /\ q.pending[x].current \in BOOLEAN
                          /\ q.pending[x].current => q.pending[x].label = q.plans[x]
        BY DEF Waiting
      <4>1. CASE x # f
        BY <2>1, <3>2, <4>1 DEF Attached, Waiting
      <4>2. CASE x = f /\ f \in DOMAIN p.pending
        BY <2>1, <3>2, <4>2 DEF Attached, Waiting
      <4>3. CASE x = f /\ f \notin DOMAIN p.pending
        <5>1. DOMAIN q.pending[f] = {"label", "current"} /\ q.pending[f].label = label
          BY <3>2, <4>3
        <5>2. q.pending[f].current = TRUE
          BY <3>2, <4>3
        <5> QED BY <2>1, <3>2, <4>3, <5>1, <5>2
      <4> QED BY <4>1, <4>2, <4>3
    <3>4. Mounted(q)
      BY <2>1, <2>4, <3>2 DEF Attached, Mounted
    <3> QED BY <2>3, <3>2, <3>3, <3>4 DEF Attached, q
  <2>5. CASE f \in DOMAIN p.mounted /\ host
    <3>1. q = [r EXCEPT !.mounted[f].label = label]
      BY <2>2, <2>5
    <3>2. /\ IsPage(q) /\ q.frames = r.frames /\ q.plans = r.plans /\ q.pending = p.pending
          /\ DOMAIN q.mounted = DOMAIN p.mounted
          /\ \A x \in DOMAIN p.mounted \ {f} : q.mounted[x] = p.mounted[x]
          /\ q.mounted[f] = [p.mounted[f] EXCEPT !.label = label]
      BY <2>1, <2>5, <3>1 DEF IsPage
    <3>3. /\ DOMAIN q.mounted[f] = {"label", "inHost", "listens"}
          /\ q.mounted[f].label = label /\ q.mounted[f].inHost = p.mounted[f].inHost
      BY <2>5, <3>2 DEF Attached, Mounted
    <3>4. Waiting(q)
      BY <2>1, <2>5, <3>2 DEF Attached, Waiting, Mounted
    <3>5. Mounted(q)
      BY <2>1, <2>5, <3>2, <3>3 DEF Attached, Mounted
    <3> QED BY <2>3, <3>2, <3>4, <3>5 DEF Attached, q
  <2>6. CASE f \in DOMAIN p.mounted /\ ~host
    <3>1. q = [r EXCEPT !.threw = TRUE]
      BY <2>2, <2>6
    <3>2. /\ IsPage(q) /\ q.frames = r.frames /\ q.plans = r.plans /\ q.pending = p.pending /\ q.mounted = p.mounted
      BY <2>1, <3>1 DEF IsPage
    <3>3. Waiting(q)
      BY <2>1, <2>6, <3>2 DEF Attached, Waiting, Mounted
    <3>4. Mounted(q)
      BY <2>1, <2>6, <3>2 DEF Attached, Mounted
    <3> QED BY <2>3, <3>2, <3>3, <3>4 DEF Attached, q
  <2> QED BY <2>4, <2>5, <2>6 DEF q
<1> QED BY <1>1, <1>2 DEF IsPage

LEMMA ForgettingKeeps ==
  ASSUME NEW p, IsPage(p), Attached(p), NEW fs
  PROVE  LET q == Forget(p, fs)
         IN /\ IsPage(q) /\ q.frames = p.frames /\ q.threw = p.threw /\ Attached(q)
            /\ DOMAIN q.plans = DOMAIN p.plans \ fs
            /\ \A x \in DOMAIN q.plans : q.plans[x] = p.plans[x]
<1> DEFINE q == Forget(p, fs)
<1>1. /\ IsPage(q) /\ q.frames = p.frames /\ q.threw = p.threw
      /\ q.plans = Restrict(p.plans, DOMAIN p.plans \ fs)
      /\ q.pending = Restrict(p.pending, DOMAIN p.pending \ fs)
      /\ q.mounted = Restrict(p.mounted, DOMAIN p.mounted \ fs)
  BY DEF Forget, IsPage
<1> HIDE DEF q
<1>2. /\ DOMAIN q.plans = DOMAIN p.plans \ fs /\ \A x \in DOMAIN q.plans : q.plans[x] = p.plans[x]
      /\ DOMAIN q.pending = DOMAIN p.pending \ fs /\ \A x \in DOMAIN q.pending : q.pending[x] = p.pending[x]
      /\ DOMAIN q.mounted = DOMAIN p.mounted \ fs /\ \A x \in DOMAIN q.mounted : q.mounted[x] = p.mounted[x]
  BY <1>1 DEF Restrict
<1>3. Waiting(q)
  BY <1>2 DEF Attached, Waiting
<1>4. Mounted(q)
  BY <1>2 DEF Attached, Mounted
<1> QED BY <1>1, <1>2, <1>3, <1>4 DEF Attached, q

(* What is below a frame.                                                     *)
LEMMA BelowIsClosed ==
  ASSUME NEW p, NEW f \in Active(p)
  PROVE  /\ f \in Below(p, f) /\ Below(p, f) \subseteq Active(p)
         /\ \A h \in Below(p, f) : Children(p, h) \subseteq Below(p, f)
<1>1. f \in Below(p, f) /\ Below(p, f) \subseteq Active(p)
  BY DEF Below
<1>2. ASSUME NEW h \in Below(p, f), NEW g \in Children(p, h)
      PROVE  g \in Below(p, f)
  <2>1. g \in Active(p)
    BY DEF Children
  <2>2. ASSUME NEW F \in SUBSET Active(p), f \in F, \A x \in F : Children(p, x) \subseteq F
        PROVE  g \in F
    <3>1. h \in F
      BY <2>2 DEF Below
    <3> QED BY <2>2, <3>1
  <2> QED BY <2>1, <2>2 DEF Below
<1> QED BY <1>1, <1>2

(* A frame is not below its child: what is below the child would have no root.   *)
LEMMA NotBelowItsChild ==
  ASSUME NEW p, Forest(p), NEW f \in Active(p), NEW c \in Children(p, f)
  PROVE  f \notin Below(p, c)
<1> DEFINE B == Below(p, c)
<1> SUFFICES ASSUME f \in B PROVE FALSE
  OBVIOUS
<1>1. c \in Active(p) /\ p.frames[c].parent = f
  BY DEF Children
<1>2. c \in B /\ B \subseteq Active(p) /\ \A h \in B : Children(p, h) \subseteq B
  BY <1>1, BelowIsClosed
<1>3. PICK r \in B : p.frames[r].parent \notin B
  BY <1>2 DEF Forest
<1>4. r # c
  BY <1>1, <1>3
<1> DEFINE F == B \ {r}
<1>5. F \in SUBSET Active(p) /\ c \in F
  BY <1>2, <1>4
<1>6. \A h \in F : Children(p, h) \subseteq F
  BY <1>2, <1>3 DEF Children
<1>7. r \in F
  <2>1. r \in Below(p, c)
    BY <1>3
  <2> HIDE DEF F
  <2> QED BY <1>5, <1>6, <2>1 DEF Below
<1> QED BY <1>7

Gone(p, fs) == UNION {Below(p, f) : f \in fs}

LEMMA DestroyingKeeps ==
  ASSUME NEW p, Kept(p), NEW fs \in SUBSET Active(p)
  PROVE  LET q == Destroyed(p, fs)
         IN /\ Kept(q) /\ q.threw = p.threw
            /\ Active(q) = Active(p) \ Gone(p, fs) /\ fs \subseteq Gone(p, fs)
            /\ \A f \in Active(q) : q.frames[f] = p.frames[f]
            /\ DOMAIN q.plans = DOMAIN p.plans \ Gone(p, fs)
            /\ \A f \in DOMAIN q.plans : q.plans[f] = p.plans[f]
<1> DEFINE gone == Gone(p, fs)
           r == Forget(p, gone)
           q == Destroyed(p, fs)
<1>1. fs \subseteq gone /\ \A h \in gone : Children(p, h) \subseteq gone
  BY BelowIsClosed DEF Gone
<1>2. /\ IsPage(r) /\ r.frames = p.frames /\ r.threw = p.threw /\ Attached(r)
      /\ DOMAIN r.plans = DOMAIN p.plans \ gone
      /\ \A x \in DOMAIN r.plans : r.plans[x] = p.plans[x]
  <2> HIDE DEF gone
  <2> QED BY ForgettingKeeps DEF Kept
<1>3. q = [r EXCEPT !.frames = Restrict(@, DOMAIN @ \ gone)]
  BY DEF Destroyed, Gone
<1> HIDE DEF gone, q, r
<1>4. /\ IsPage(q) /\ q.threw = r.threw /\ q.plans = r.plans /\ q.pending = r.pending /\ q.mounted = r.mounted
      /\ q.frames = Restrict(p.frames, DOMAIN p.frames \ gone)
  BY <1>2, <1>3 DEF IsPage
<1>5. Active(q) = Active(p) \ gone /\ \A f \in Active(q) : q.frames[f] = p.frames[f]
  BY <1>4 DEF Active, Restrict
<1>6. Attached(q)
  BY <1>2, <1>4 DEF Attached, Waiting, Mounted
<1>7. Framed(q)
  <2>1. ASSUME NEW f \in Active(q), p.frames[f].parent \in Active(p)
        PROVE  p.frames[f].parent \in Active(q)
    BY <1>1, <1>5, <2>1 DEF Children
  <2> QED BY <1>5, <2>1 DEF Kept, Framed
<1>8. Forest(q)
  BY <1>5 DEF Kept, Forest
<1>9. Planned(q)
  BY <1>2, <1>4, <1>5 DEF Kept, Planned
<1> QED BY <1>1, <1>2, <1>4, <1>5, <1>6, <1>7, <1>8, <1>9 DEF Kept, gone, q

(* A new frame is a leaf.                                                      *)
LEMMA CreatingKeeps ==
  ASSUME NEW p, Kept(p), NEW f \in Active(p), NEW g \in DOMAIN FirstState, g \notin Active(p)
  PROVE  LET q == Created(p, f, g)
         IN /\ Kept(q) /\ Active(q) = Active(p) \cup {g}
            /\ \A h \in Active(p) : q.frames[h] = p.frames[h]
            /\ q.frames[g].parent = f
            /\ DOMAIN p.plans \subseteq DOMAIN q.plans
            /\ ~q.threw => g \in DOMAIN q.plans
<1> DEFINE new == [parent |-> f, state |-> FirstState[g], branches |-> FALSE]
           r == [p EXCEPT !.frames = Put(@, g, new)]
           q == Created(p, f, g)
<1>1. g # NoFrame
  BY PageAssumption
<1>2. /\ IsPage(r) /\ r.threw = p.threw /\ r.plans = p.plans /\ r.pending = p.pending /\ r.mounted = p.mounted
      /\ r.frames = Put(p.frames, g, new)
  <2> HIDE DEF new
  <2> QED BY DEF Kept, IsPage
<1>3. DOMAIN new = {"parent", "state", "branches"} /\ new.parent = f
  OBVIOUS
<1>4. q = PutPlan(r, g, FirstLabel[g])
  BY DEF Created
<1> HIDE DEF new, r, q
<1>5. Active(r) = Active(p) \cup {g} /\ r.frames[g] = new /\ \A h \in Active(p) : r.frames[h] = p.frames[h]
  BY <1>2 DEF Active, Put
<1>6. Attached(r)
  BY <1>2 DEF Kept, Attached, Waiting, Mounted
<1>7. /\ IsPage(q) /\ q.frames = r.frames /\ Attached(q)
      /\ DOMAIN r.plans \subseteq DOMAIN q.plans /\ DOMAIN q.plans \subseteq DOMAIN r.plans \cup {g}
      /\ ~q.threw => g \in DOMAIN q.plans
  BY <1>2, <1>4, <1>6, PlanIsPut
<1>8. Active(q) = Active(p) \cup {g} /\ q.frames[g] = new /\ \A h \in Active(p) : q.frames[h] = p.frames[h]
  BY <1>5, <1>7 DEF Active
<1>9. Framed(q)
  BY <1>1, <1>3, <1>8 DEF Kept, Framed
<1>10. Forest(q)
  <2> SUFFICES ASSUME NEW F \in SUBSET Active(q), F # {} PROVE \E h \in F : q.frames[h].parent \notin F
    BY DEF Forest
  <2>1. \A h \in Active(p) : p.frames[h].parent # g
    BY <1>1 DEF Kept, Framed
  <2>2. CASE F = {g}
    BY <1>3, <1>8, <2>2
  <2>3. CASE F # {g}
    <3>1. F \ {g} # {} /\ F \ {g} \in SUBSET Active(p)
      BY <1>8, <2>3
    <3>2. PICK h \in F \ {g} : p.frames[h].parent \notin F \ {g}
      BY <3>1 DEF Kept, Forest
    <3> QED BY <1>8, <2>1, <3>1, <3>2
  <2> QED BY <2>2, <2>3
<1>11. Planned(q)
  BY <1>2, <1>7, <1>8 DEF Kept, Planned
<1> QED BY <1>2, <1>3, <1>7, <1>8, <1>9, <1>10, <1>11 DEF Kept, q

LEMMA PlanningKeeps ==
  ASSUME NEW p, Kept(p), NEW f \in Active(p), NEW label
  PROVE  LET q == PutPlan(p, f, label)
         IN /\ Kept(q) /\ q.frames = p.frames
            /\ p.threw => q.threw
            /\ DOMAIN p.plans \subseteq DOMAIN q.plans
            /\ ~q.threw => f \in DOMAIN q.plans /\ q.plans[f] = label
            /\ \A x \in DOMAIN p.plans \ {f} : q.plans[x] = p.plans[x]
<1> DEFINE q == PutPlan(p, f, label)
<1>1. /\ IsPage(q) /\ q.frames = p.frames /\ Attached(q)
      /\ p.threw => q = p
      /\ DOMAIN p.plans \subseteq DOMAIN q.plans /\ DOMAIN q.plans \subseteq DOMAIN p.plans \cup {f}
      /\ ~q.threw => f \in DOMAIN q.plans /\ q.plans[f] = label
      /\ \A x \in DOMAIN p.plans \ {f} : q.plans[x] = p.plans[x]
  BY PlanIsPut DEF Kept
<1> HIDE DEF q
<1>2. Framed(q) /\ Forest(q)
  BY <1>1 DEF Kept, Framed, Forest, Active
<1>3. Planned(q)
  BY <1>1 DEF Kept, Planned, Active
<1> QED BY <1>1, <1>2, <1>3 DEF Kept, q

LEMMA AdoptingKeeps ==
  ASSUME NEW p, Kept(p), NEW f \in Active(p), NEW g \in DOMAIN FirstState
  PROVE  LET q == Adopted(p, f, g)
         IN /\ Kept(q) /\ Active(p) \subseteq Active(q)
            /\ \A h \in Active(p) : q.frames[h] = p.frames[h]
            /\ DOMAIN p.plans \subseteq DOMAIN q.plans
            /\ p.threw => q.threw
            /\ ~q.threw => Children(q, f) = Children(p, f) \cup {g} /\ Active(q) \ Active(p) \subseteq DOMAIN q.plans
<1> DEFINE q == Adopted(p, f, g)
<1>1. CASE p.threw
  <2>1. q = p
    BY <1>1 DEF Adopted
  <2> QED BY <1>1, <2>1
<1>2. CASE ~p.threw /\ g \notin Active(p)
  <2>1. q = Created(p, f, g)
    BY <1>2 DEF Adopted
  <2> HIDE DEF q
  <2>2. /\ Kept(q) /\ Active(q) = Active(p) \cup {g}
        /\ \A h \in Active(p) : q.frames[h] = p.frames[h]
        /\ q.frames[g].parent = f
        /\ DOMAIN p.plans \subseteq DOMAIN q.plans
        /\ ~q.threw => g \in DOMAIN q.plans
    BY <1>2, <2>1, CreatingKeeps
  <2>3. Children(q, f) = Children(p, f) \cup {g}
    BY <2>2 DEF Children
  <2> QED BY <1>2, <2>2, <2>3 DEF q
<1>3. CASE ~p.threw /\ g \in Active(p)
  <2>1. q = [p EXCEPT !.threw = p.frames[g].parent # f]
    BY <1>3 DEF Adopted
  <2> HIDE DEF q
  <2>2. /\ IsPage(q) /\ q.frames = p.frames /\ q.plans = p.plans /\ q.pending = p.pending /\ q.mounted = p.mounted
        /\ q.threw = (p.frames[g].parent # f)
    BY <2>1 DEF Kept, IsPage
  <2>3. Kept(q)
    BY <2>2 DEF Kept, Framed, Forest, Attached, Waiting, Mounted, Planned, Active
  <2>4. ~q.threw => Children(q, f) = Children(p, f) \cup {g}
    BY <1>3, <2>2 DEF Children, Active
  <2> QED BY <1>3, <2>2, <2>3, <2>4 DEF q, Active
<1> QED BY <1>1, <1>2, <1>3

(* The children are adopted one after another.                                 *)
LEMMA GrowingKeeps ==
  ASSUME NEW p, Kept(p), NEW f \in Active(p), NEW shown \in Seq(DOMAIN FirstState)
  PROVE  LET q == Grown(p, f, shown)
         IN /\ Kept(q) /\ Active(p) \subseteq Active(q)
            /\ \A h \in Active(p) : q.frames[h] = p.frames[h]
            /\ DOMAIN p.plans \subseteq DOMAIN q.plans
            /\ ~q.threw => /\ Children(q, f) = Children(p, f) \cup ToSet(shown)
                           /\ Active(q) \ Active(p) \subseteq DOMAIN q.plans
<1> DEFINE N == Len(shown)
           Is(u) == u = [n \in 0 .. N |-> IF n = 0 THEN p ELSE Adopted(u[n - 1], f, shown[n])]
           Upto(m, u) == \A n \in 0 .. m : u[n] = IF n = 0 THEN p ELSE Adopted(u[n - 1], f, shown[n])
           T == {m \in Nat : \E u : Upto(m, u)}
<1>0. N \in Nat /\ DOMAIN shown = 1 .. N /\ \A n \in 1 .. N : shown[n] \in DOMAIN FirstState
  OBVIOUS
<1>1. 0 \in T
  <2>1. Upto(0, [n \in {0} |-> p])
    OBVIOUS
  <2> QED BY <2>1
<1>2. ASSUME NEW m \in T PROVE m + 1 \in T
  <2>1. m \in Nat /\ \E u : Upto(m, u)
    OBVIOUS
  <2>2. PICK u : Upto(m, u)
    BY <2>1
  <2> DEFINE w == [n \in 0 .. m + 1 |-> IF n <= m THEN u[n] ELSE Adopted(u[m], f, shown[m + 1])]
  <2>3. Upto(m + 1, w)
    <3> SUFFICES ASSUME NEW n \in 0 .. m + 1
                 PROVE  w[n] = IF n = 0 THEN p ELSE Adopted(w[n - 1], f, shown[n])
      OBVIOUS
    <3>1. CASE n = 0
      BY <2>1, <2>2, <3>1
    <3>2. CASE n # 0 /\ n <= m
      <4>1. n - 1 \in 0 .. m /\ n \in 0 .. m /\ n - 1 \in 0 .. m + 1
        BY <2>1, <3>2
      <4>2. w[n] = u[n] /\ w[n - 1] = u[n - 1]
        BY <2>1, <3>2, <4>1
      <4>3. u[n] = Adopted(u[n - 1], f, shown[n])
        BY <2>2, <3>2, <4>1
      <4> HIDE DEF w
      <4> QED BY <3>2, <4>2, <4>3
    <3>3. CASE n = m + 1
      <4>1. m \in 0 .. m + 1 /\ n - 1 = m /\ n # 0 /\ ~(n <= m)
        BY <2>1, <3>3
      <4>2. w[n] = Adopted(u[m], f, shown[m + 1]) /\ w[m] = u[m]
        BY <2>1, <4>1
      <4> HIDE DEF w
      <4> QED BY <3>3, <4>1, <4>2
    <3> QED BY <2>1, <3>1, <3>2, <3>3
  <2>4. \E z : Upto(m + 1, z)
    <3> HIDE DEF Upto, w
    <3> QED BY <2>3
  <2> HIDE DEF Upto
  <2> QED BY <2>1, <2>4
<1>3. \E u : Is(u)
  <2>1. T = Nat
    <3> HIDE DEF T
    <3>1. T \in SUBSET Nat
      BY DEF T
    <3> QED BY <1>1, <1>2, <3>1, SetInduction
  <2>2. PICK u : Upto(N, u)
    <3> HIDE DEF Upto
    <3> QED BY <1>0, <2>1
  <2> DEFINE w == [n \in 0 .. N |-> u[n]]
  <2>3. Is(w)
    <3>1. ASSUME NEW n \in 0 .. N PROVE u[n] = IF n = 0 THEN p ELSE Adopted(w[n - 1], f, shown[n])
      <4>1. n # 0 => n - 1 \in 0 .. N
        BY <1>0
      <4> QED BY <2>2, <4>1
    <3> QED BY <3>1
  <2> QED BY <2>3
<1> DEFINE upTo == CHOOSE u : Is(u)
<1>4. Is(upTo)
  BY <1>3
<1>5. Grown(p, f, shown) = upTo[N]
  BY DEF Grown
<1> HIDE DEF upTo
<1>6. \A n \in 0 .. N : upTo[n] = IF n = 0 THEN p ELSE Adopted(upTo[n - 1], f, shown[n])
  BY <1>4
<1> HIDE DEF Is
<1> DEFINE Shows(q, m) ==
             /\ Kept(q) /\ Active(p) \subseteq Active(q)
             /\ \A h \in Active(p) : q.frames[h] = p.frames[h]
             /\ DOMAIN p.plans \subseteq DOMAIN q.plans
             /\ ~q.threw => /\ Children(q, f) = Children(p, f) \cup {shown[n] : n \in 1 .. m}
                            /\ Active(q) \ Active(p) \subseteq DOMAIN q.plans
           K == {m \in Nat : m <= N => Shows(upTo[m], m)}
<1>7. 0 \in K
  <2>1. upTo[0] = p
    BY <1>0, <1>6
  <2> QED BY <2>1
<1>8. ASSUME NEW m \in K PROVE m + 1 \in K
  <2>0. m \in Nat
    OBVIOUS
  <2> SUFFICES ASSUME m + 1 <= N PROVE Shows(upTo[m + 1], m + 1)
    BY <2>0
  <2> DEFINE r == upTo[m]
             q == upTo[m + 1]
             g == shown[m + 1]
  <2>1. Shows(r, m)
    BY <1>0, <2>0
  <2>2. q = Adopted(r, f, g) /\ g \in DOMAIN FirstState
    BY <1>0, <1>6, <2>0
  <2> HIDE DEF r, q, g, K
  <2>3. f \in Active(r)
    BY <2>1
  <2>4. /\ Kept(q) /\ Active(r) \subseteq Active(q)
        /\ \A h \in Active(r) : q.frames[h] = r.frames[h]
        /\ DOMAIN r.plans \subseteq DOMAIN q.plans
        /\ r.threw => q.threw
        /\ ~q.threw => Children(q, f) = Children(r, f) \cup {g} /\ Active(q) \ Active(r) \subseteq DOMAIN q.plans
    BY <2>1, <2>2, <2>3, AdoptingKeeps
  <2>5. {shown[n] : n \in 1 .. m + 1} = {shown[n] : n \in 1 .. m} \cup {g}
    BY <2>0 DEF g
  <2>7. Shows(q, m + 1)
    BY <2>1, <2>4, <2>5
  <2> QED BY <2>7 DEF q
<1>9. K = Nat
  <2> HIDE DEF K
  <2>1. K \in SUBSET Nat
    BY DEF K
  <2> QED BY <1>7, <1>8, <2>1, SetInduction
<1>10. Shows(upTo[N], N)
  <2> HIDE DEF Shows
  <2> QED BY <1>0, <1>9
<1>11. ToSet(shown) = {shown[n] : n \in 1 .. N}
  BY <1>0 DEF ToSet
<1> QED BY <1>5, <1>10, <1>11

(* The children that stay get their plans one after another.                    *)
LEMMA ReplanningKeeps ==
  ASSUME NEW p, Kept(p), NEW kept \in SUBSET Active(p), NEW shown \in Seq(DOMAIN FirstState)
  PROVE  LET q == Replanned(p, kept, shown)
         IN /\ Kept(q) /\ q.frames = p.frames
            /\ DOMAIN p.plans \subseteq DOMAIN q.plans
            /\ p.threw => q.threw
            /\ ~q.threw => kept \cap ToSet(shown) \subseteq DOMAIN q.plans
            /\ \A x \in DOMAIN p.plans \ (kept \cap ToSet(shown)) : q.plans[x] = p.plans[x]
<1> DEFINE N == Len(shown)
           Again(q, g) == IF g \in kept THEN PutPlan(q, g, FirstLabel[g]) ELSE q
           Is(u) == u = [n \in 0 .. N |-> IF n = 0 THEN p ELSE Again(u[n - 1], shown[n])]
           Upto(m, u) == \A n \in 0 .. m : u[n] = IF n = 0 THEN p ELSE Again(u[n - 1], shown[n])
           T == {m \in Nat : \E u : Upto(m, u)}
<1>0. N \in Nat /\ DOMAIN shown = 1 .. N /\ \A n \in 1 .. N : shown[n] \in DOMAIN FirstState
  OBVIOUS
<1> HIDE DEF Again
<1>1. 0 \in T
  <2>1. Upto(0, [n \in {0} |-> p])
    OBVIOUS
  <2> QED BY <2>1
<1>2. ASSUME NEW m \in T PROVE m + 1 \in T
  <2>1. m \in Nat /\ \E u : Upto(m, u)
    OBVIOUS
  <2>2. PICK u : Upto(m, u)
    BY <2>1
  <2> DEFINE w == [n \in 0 .. m + 1 |-> IF n <= m THEN u[n] ELSE Again(u[m], shown[m + 1])]
  <2>3. Upto(m + 1, w)
    <3> SUFFICES ASSUME NEW n \in 0 .. m + 1
                 PROVE  w[n] = IF n = 0 THEN p ELSE Again(w[n - 1], shown[n])
      OBVIOUS
    <3>1. CASE n = 0
      BY <2>1, <2>2, <3>1
    <3>2. CASE n # 0 /\ n <= m
      <4>1. n - 1 \in 0 .. m /\ n \in 0 .. m /\ n - 1 \in 0 .. m + 1
        BY <2>1, <3>2
      <4>2. w[n] = u[n] /\ w[n - 1] = u[n - 1]
        BY <2>1, <3>2, <4>1
      <4>3. u[n] = Again(u[n - 1], shown[n])
        BY <2>2, <3>2, <4>1
      <4> HIDE DEF w
      <4> QED BY <3>2, <4>2, <4>3
    <3>3. CASE n = m + 1
      <4>1. m \in 0 .. m + 1 /\ n - 1 = m /\ n # 0 /\ ~(n <= m)
        BY <2>1, <3>3
      <4>2. w[n] = Again(u[m], shown[m + 1]) /\ w[m] = u[m]
        BY <2>1, <4>1
      <4> HIDE DEF w
      <4> QED BY <3>3, <4>1, <4>2
    <3> QED BY <2>1, <3>1, <3>2, <3>3
  <2>4. \E z : Upto(m + 1, z)
    <3> HIDE DEF Upto, w
    <3> QED BY <2>3
  <2> HIDE DEF Upto
  <2> QED BY <2>1, <2>4
<1>3. \E u : Is(u)
  <2>1. T = Nat
    <3> HIDE DEF T
    <3>1. T \in SUBSET Nat
      BY DEF T
    <3> QED BY <1>1, <1>2, <3>1, SetInduction
  <2>2. PICK u : Upto(N, u)
    <3> HIDE DEF Upto
    <3> QED BY <1>0, <2>1
  <2> DEFINE w == [n \in 0 .. N |-> u[n]]
  <2>3. Is(w)
    <3>1. ASSUME NEW n \in 0 .. N PROVE u[n] = IF n = 0 THEN p ELSE Again(w[n - 1], shown[n])
      <4>1. n # 0 => n - 1 \in 0 .. N
        BY <1>0
      <4> QED BY <2>2, <4>1
    <3> QED BY <3>1
  <2> QED BY <2>3
<1> DEFINE upTo == CHOOSE u : Is(u)
<1>4. Is(upTo)
  BY <1>3
<1>5. Replanned(p, kept, shown) = upTo[N]
  BY DEF Replanned, Again
<1> HIDE DEF upTo
<1>6. \A n \in 0 .. N : upTo[n] = IF n = 0 THEN p ELSE Again(upTo[n - 1], shown[n])
  BY <1>4
<1> HIDE DEF Is
<1> DEFINE Have(q, m) ==
             /\ Kept(q) /\ q.frames = p.frames
             /\ DOMAIN p.plans \subseteq DOMAIN q.plans
             /\ p.threw => q.threw
             /\ ~q.threw => \A n \in 1 .. m : shown[n] \in kept => shown[n] \in DOMAIN q.plans
             /\ \A x \in DOMAIN p.plans : x \notin kept \cap ToSet(shown) => q.plans[x] = p.plans[x]
           K == {m \in Nat : m <= N => Have(upTo[m], m)}
<1>7. 0 \in K
  <2>1. upTo[0] = p
    BY <1>0, <1>6
  <2> QED BY <2>1
<1>8. ASSUME NEW m \in K PROVE m + 1 \in K
  <2>0. m \in Nat
    OBVIOUS
  <2> SUFFICES ASSUME m + 1 <= N PROVE Have(upTo[m + 1], m + 1)
    BY <2>0
  <2> DEFINE r == upTo[m]
             q == upTo[m + 1]
             g == shown[m + 1]
  <2>1. Have(r, m)
    BY <1>0, <2>0
  <2>2. q = Again(r, g) /\ g \in ToSet(shown)
    BY <1>0, <1>6, <2>0 DEF ToSet
  <2> HIDE DEF r, q, K
  <2>3. CASE g \notin kept
    <3>1. q = r
      BY <2>2, <2>3 DEF Again
    <3>2. ASSUME ~q.threw, NEW n \in 1 .. m + 1, shown[n] \in kept PROVE shown[n] \in DOMAIN q.plans
      BY <2>0, <2>1, <2>3, <3>1, <3>2
    <3>3. Have(q, m + 1)
      BY <2>1, <3>1, <3>2
    <3> QED BY <3>3 DEF q
  <2>4. CASE g \in kept
    <3>1. q = PutPlan(r, g, FirstLabel[g])
      BY <2>2, <2>4 DEF Again
    <3>2. g \in Active(r)
      BY <2>1, <2>4 DEF Active
    <3>3. /\ Kept(q) /\ q.frames = r.frames
          /\ r.threw => q.threw
          /\ DOMAIN r.plans \subseteq DOMAIN q.plans
          /\ ~q.threw => g \in DOMAIN q.plans
          /\ \A x \in DOMAIN r.plans \ {g} : q.plans[x] = r.plans[x]
      <4> HIDE DEF g
      <4> QED BY <2>1, <3>1, <3>2, PlanningKeeps
    <3>4. ASSUME ~q.threw, NEW n \in 1 .. m + 1, shown[n] \in kept PROVE shown[n] \in DOMAIN q.plans
      <4>1. CASE n = m + 1
        BY <3>3, <3>4, <4>1
      <4>2. CASE n # m + 1
        BY <2>0, <2>1, <3>3, <3>4, <4>2
      <4> QED BY <4>1, <4>2
    <3>5. ASSUME NEW x \in DOMAIN p.plans, x \notin kept \cap ToSet(shown) PROVE q.plans[x] = p.plans[x]
      <4>1. x # g
        BY <2>2, <2>4, <3>5
      <4> QED BY <2>1, <3>3, <3>5, <4>1
    <3>6. Have(q, m + 1)
      BY <2>1, <3>3, <3>4, <3>5
    <3> QED BY <3>6 DEF q
  <2> QED BY <2>3, <2>4
<1>9. K = Nat
  <2> HIDE DEF K
  <2>1. K \in SUBSET Nat
    BY DEF K
  <2> QED BY <1>7, <1>8, <2>1, SetInduction
<1>10. Have(upTo[N], N)
  <2> HIDE DEF Have
  <2> QED BY <1>0, <1>9
<1>11. ToSet(shown) = {shown[n] : n \in 1 .. N}
  BY <1>0 DEF ToSet
<1> QED BY <1>5, <1>10, <1>11

(* An event that is handled to the end leaves the children its state shows.       *)
LEMMA ProjectingKeeps ==
  ASSUME NEW p, Kept(p), NEW f \in Active(p)
  PROVE  LET q == Project(p, f)
         IN /\ Kept(q)
            /\ ~q.threw => /\ f \in Active(q)
                           /\ Children(q, f) = ToSet(Shown(q, f))
                           /\ {f} \cup Children(q, f) \subseteq DOMAIN q.plans
                           /\ q.plans[f] = q.frames[f].state
<1> DEFINE shown == Shown(p, f)
           fs == Children(p, f) \ ToSet(shown)
           pruned == Destroyed(p, fs)
           grown == Grown(pruned, f, shown)
           told == PutPlan(grown, f, p.frames[f].state)
           q == Replanned(told, Active(pruned), shown)
<1>1. q = Project(p, f)
  BY DEF Project
<1>2. shown \in Seq(DOMAIN FirstState)
  <2>1. CASE f \in DOMAIN Envelope /\ p.frames[f].branches /\ p.frames[f].state \in DOMAIN BranchOf[f]
    BY <2>1, PageAssumption DEF Shown
  <2>2. CASE ~(f \in DOMAIN Envelope /\ p.frames[f].branches /\ p.frames[f].state \in DOMAIN BranchOf[f])
    <3>1. shown = <<>>
      BY <2>2 DEF Shown
    <3> HIDE DEF shown
    <3> QED BY <3>1
  <2> QED BY <2>1, <2>2
<1>3. fs \in SUBSET Active(p)
  BY DEF Children
<1> HIDE DEF shown
<1>4. /\ Kept(pruned) /\ Active(pruned) = Active(p) \ Gone(p, fs) /\ fs \subseteq Gone(p, fs)
      /\ \A g \in Active(pruned) : pruned.frames[g] = p.frames[g]
  <2> HIDE DEF fs
  <2> QED BY <1>3, DestroyingKeeps
<1>5. f \notin Gone(p, fs)
  BY NotBelowItsChild DEF Kept, Gone
<1>6. f \in Active(pruned) /\ Children(pruned, f) \subseteq ToSet(shown)
  BY <1>4, <1>5 DEF Children
<1> HIDE DEF pruned
<1>7. /\ Kept(grown) /\ Active(pruned) \subseteq Active(grown)
      /\ \A h \in Active(pruned) : grown.frames[h] = pruned.frames[h]
      /\ ~grown.threw => /\ Children(grown, f) = Children(pruned, f) \cup ToSet(shown)
                         /\ Active(grown) \ Active(pruned) \subseteq DOMAIN grown.plans
  <2>1. Kept(pruned) /\ f \in Active(pruned)
    BY <1>4, <1>6
  <2> QED BY <1>2, <2>1, GrowingKeeps, Zenon
<1> HIDE DEF grown
<1>8. /\ Kept(told) /\ told.frames = grown.frames
      /\ grown.threw => told.threw
      /\ DOMAIN grown.plans \subseteq DOMAIN told.plans
      /\ ~told.threw => f \in DOMAIN told.plans /\ told.plans[f] = p.frames[f].state
  BY <1>6, <1>7, PlanningKeeps
<1> HIDE DEF told
<1>9. Active(pruned) \in SUBSET Active(told)
  BY <1>7, <1>8 DEF Active
<1>10. /\ Kept(q) /\ q.frames = told.frames
       /\ DOMAIN told.plans \subseteq DOMAIN q.plans
       /\ told.threw => q.threw
       /\ ~q.threw => Active(pruned) \cap ToSet(shown) \subseteq DOMAIN q.plans
       /\ \A x \in DOMAIN told.plans \ (Active(pruned) \cap ToSet(shown)) : q.plans[x] = told.plans[x]
  BY <1>2, <1>8, <1>9, ReplanningKeeps
<1> HIDE DEF q
<1>11. ASSUME ~q.threw
       PROVE  /\ f \in Active(q)
              /\ Children(q, f) = ToSet(Shown(q, f))
              /\ {f} \cup Children(q, f) \subseteq DOMAIN q.plans
              /\ q.plans[f] = q.frames[f].state
  <2>1. ~told.threw /\ ~grown.threw
    BY <1>8, <1>10, <1>11 DEF Kept, IsPage
  <2>2. f \in Active(q) /\ q.frames[f] = p.frames[f]
    BY <1>4, <1>6, <1>7, <1>8, <1>10 DEF Active
  <2>3. Shown(q, f) = shown
    BY <2>2 DEF Shown, shown
  <2>4. Children(q, f) = ToSet(shown)
    <3>1. Children(q, f) = Children(grown, f)
      BY <1>8, <1>10 DEF Children, Active
    <3> QED BY <1>6, <1>7, <2>1, <3>1
  <2>5. f \notin ToSet(shown)
    <3> SUFFICES ASSUME f \in Children(q, f) PROVE FALSE
      BY <2>4
    <3>1. {f} \in SUBSET Active(q) /\ q.frames[f].parent = f
      BY <2>2 DEF Children
    <3> QED BY <1>10, <3>1 DEF Kept, Forest
  <2>6. Children(q, f) \subseteq DOMAIN q.plans
    <3> SUFFICES ASSUME NEW g \in ToSet(shown) PROVE g \in DOMAIN q.plans
      BY <2>4
    <3>1. g \in Active(grown)
      BY <1>7, <2>1 DEF Children
    <3> QED BY <1>7, <1>8, <1>10, <1>11, <2>1, <3>1
  <2> QED BY <1>8, <1>10, <2>1, <2>2, <2>3, <2>4, <2>5, <2>6
<1> QED BY <1>1, <1>10, <1>11

-----------------------------------------------------------------------------
LEMMA PageInvInitially == PageInit => PageInv
<1> SUFFICES ASSUME PageInit PROVE PageInv
  OBVIOUS
<1>1. /\ IsPage(page) /\ ~page.threw
      /\ DOMAIN page.frames = {} /\ DOMAIN page.plans = {} /\ DOMAIN page.pending = {} /\ DOMAIN page.mounted = {}
  BY DEF PageInit, IsPage, Empty
<1>2. Kept(page)
  BY <1>1 DEF Kept, Framed, Forest, Attached, Waiting, Mounted, Planned, Active
<1> QED BY <1>1, <1>2 DEF PageInit, PageInv, Active

(* What a step that is no event has to keep.                                    *)
LEMMA QuietStep ==
  ASSUME PageInv, Kept(page)', page'.threw = FALSE, dispatched' = NoFrame,
         host' \in BOOLEAN, mutated' \in BOOLEAN, framesLoaded' \in BOOLEAN, plansLoaded' \in BOOLEAN,
         framesLoaded' \/ Active(page') = {}, plansLoaded' \/ DOMAIN page'.plans = {}
  PROVE  PageInv'
BY DEF PageInv, Active

LEMMA StutteringKeeps ==
  ASSUME NEW q, Kept(q), page' = q, UNCHANGED <<host, mutated>>
  PROVE  Kept(page)'
BY DEF Kept, IsPage, Framed, Forest, Attached, Waiting, Mounted, Planned, Active

LEMMA DispatchKeeps ==
  ASSUME PageInv, NEW f \in Active(page), Dispatch(f)
  PROVE  PageInv'
<1> DEFINE p == [page EXCEPT !.frames[f].state = NextState[f][@]]
           q == Handled(f)
           r == [q EXCEPT !.threw = FALSE]
<1>1. /\ page' = r /\ dispatched' = IF q.threw THEN NoFrame ELSE f
      /\ UNCHANGED <<framesLoaded, plansLoaded, host, hosts, mutated>>
  BY DEF Dispatch
<1>2. q = IF f \in DOMAIN p.plans THEN Project(p, f) ELSE [p EXCEPT !.threw = TRUE]
  BY DEF Handled
<1>3. /\ IsPage(p) /\ p.threw = page.threw /\ p.plans = page.plans /\ p.pending = page.pending /\ p.mounted = page.mounted
      /\ Active(p) = Active(page)
      /\ \A g \in Active(page) : DOMAIN p.frames[g] = DOMAIN page.frames[g] /\ p.frames[g].parent = page.frames[g].parent
  BY DEF PageInv, Kept, IsPage, Active, Framed
<1> HIDE DEF p, q
<1>4. Kept(p)
  BY <1>3 DEF PageInv, Kept, Framed, Forest, Attached, Waiting, Mounted, Planned
<1>5. CASE f \in DOMAIN p.plans
  <2>1. /\ Kept(q)
        /\ ~q.threw => /\ f \in Active(q)
                       /\ Children(q, f) = ToSet(Shown(q, f))
                       /\ {f} \cup Children(q, f) \subseteq DOMAIN q.plans
                       /\ q.plans[f] = q.frames[f].state
    BY <1>2, <1>3, <1>4, <1>5, ProjectingKeeps
  <2>2. /\ IsPage(r) /\ r.threw = FALSE
        /\ r.frames = q.frames /\ r.plans = q.plans /\ r.pending = q.pending /\ r.mounted = q.mounted
    BY <2>1 DEF Kept, IsPage
  <2>3. Kept(r)
    BY <2>1, <2>2 DEF Kept, Framed, Forest, Attached, Waiting, Mounted, Planned, Active
  <2> HIDE DEF r
  <2>4. Kept(page)'
    BY <1>1, <2>3, StutteringKeeps
  <2>5. framesLoaded /\ plansLoaded
    BY <1>3, <1>5 DEF PageInv
  <2>6. CASE q.threw
    BY <1>1, <2>2, <2>4, <2>5, <2>6 DEF PageInv
  <2>7. CASE ~q.threw
    <3>1. HandledToTheEnd(f)'
      BY <1>1, <2>1, <2>2, <2>7 DEF HandledToTheEnd, Active, Children, Shown
    <3> QED BY <1>1, <2>2, <2>4, <2>5, <2>7, <3>1 DEF PageInv
  <2> QED BY <2>6, <2>7
<1>6. CASE f \notin DOMAIN p.plans
  <2>1. q = [p EXCEPT !.threw = TRUE]
    BY <1>2, <1>6
  <2>2. IsPage(q) /\ q.threw /\ q.frames = p.frames /\ q.plans = p.plans /\ q.pending = p.pending /\ q.mounted = p.mounted
    BY <1>3, <2>1 DEF IsPage
  <2>3. /\ IsPage(r) /\ r.threw = FALSE
        /\ r.frames = p.frames /\ r.plans = p.plans /\ r.pending = p.pending /\ r.mounted = p.mounted
    BY <2>2 DEF IsPage
  <2>4. Kept(r)
    BY <1>4, <2>3 DEF Kept, Framed, Forest, Attached, Waiting, Mounted, Planned, Active
  <2> HIDE DEF r
  <2>5. Kept(page)'
    BY <1>1, <2>4, StutteringKeeps
  <2> QED BY <1>1, <1>3, <2>2, <2>3, <2>5 DEF PageInv, Active
<1> QED BY <1>5, <1>6

LEMMA LoadingFramesKeeps == ASSUME PageInv, LoadFrames PROVE PageInv'
<1> DEFINE loaded == [f \in DOMAIN Envelope |->
                        [parent |-> Envelope[f].parent, state |-> Envelope[f].state, branches |-> TRUE]]
<1>1. /\ IsPage(page)' /\ page'.threw = FALSE /\ page'.frames = loaded
      /\ page'.plans = page.plans /\ page'.pending = page.pending /\ page'.mounted = page.mounted
      /\ UNCHANGED <<host, mutated, plansLoaded>> /\ framesLoaded' = TRUE /\ dispatched' = NoFrame
  BY DEF LoadFrames, PageInv, Kept, IsPage
<1>2. /\ DOMAIN loaded = DOMAIN Envelope
      /\ \A f \in DOMAIN Envelope : DOMAIN loaded[f] = {"parent", "state", "branches"} /\ loaded[f].parent = Envelope[f].parent
  OBVIOUS
<1> HIDE DEF loaded
<1>3. Framed(page)' /\ Forest(page)'
  BY <1>1, <1>2, PageAssumption DEF Framed, Forest, Active
<1>4. Attached(page)'
  BY <1>1 DEF PageInv, Kept, Attached, Waiting, Mounted
<1>5. Planned(page)'
  BY <1>1, <1>2 DEF LoadFrames, PageInv, Kept, Planned, Active
<1>6. Kept(page)'
  BY <1>1, <1>3, <1>4, <1>5 DEF Kept
<1> QED BY <1>1, <1>6 DEF PageInv

LEMMA LoadingPlansKeeps == ASSUME PageInv, LoadPlans PROVE PageInv'
<1> DEFINE plans == [f \in DOMAIN Envelope |-> FirstLabel[f]]
           wait == [f \in DOMAIN Envelope |-> [label |-> FirstLabel[f], current |-> TRUE]]
<1>1. /\ IsPage(page)' /\ page'.threw = FALSE /\ page'.plans = plans /\ page'.pending = wait
      /\ page'.frames = page.frames /\ page'.mounted = page.mounted
      /\ UNCHANGED <<host, mutated, framesLoaded>> /\ plansLoaded' = TRUE /\ dispatched' = NoFrame
  BY DEF LoadPlans, PageInv, Kept, IsPage
<1>2. /\ DOMAIN plans = DOMAIN Envelope /\ DOMAIN wait = DOMAIN Envelope
      /\ \A f \in DOMAIN Envelope : DOMAIN wait[f] = {"label", "current"} /\ wait[f].label = plans[f]
      /\ \A f \in DOMAIN Envelope : wait[f].current = TRUE
  OBVIOUS
<1> HIDE DEF plans, wait
<1>3. Framed(page)' /\ Forest(page)'
  BY <1>1 DEF PageInv, Kept, Framed, Forest, Active
<1>4. DOMAIN page.mounted = {}
  BY DEF LoadPlans, PageInv, Kept, Attached, Mounted
<1>5. Waiting(page)'
  BY <1>1, <1>2 DEF Waiting
<1>6. Mounted(page)'
  BY <1>1, <1>4 DEF Mounted
<1>7. Planned(page)'
  BY <1>1, <1>2 DEF Planned
<1>8. Kept(page)'
  BY <1>1, <1>3, <1>5, <1>6, <1>7 DEF Kept, Attached
<1> QED BY <1>1, <1>8 DEF PageInv, Active

LEMMA DestroyKeeps == ASSUME PageInv, NEW fs, DestroyFrames(fs) PROVE PageInv'
<1> DEFINE q == Destroyed(page, fs)
<1>1. fs \in SUBSET Active(page) /\ page' = q /\ dispatched' = NoFrame /\ UNCHANGED <<framesLoaded, plansLoaded, host, hosts, mutated>>
  BY DEF DestroyFrames
<1>2. /\ Kept(q) /\ q.threw = page.threw
      /\ Active(q) = Active(page) \ Gone(page, fs)
      /\ DOMAIN q.plans = DOMAIN page.plans \ Gone(page, fs)
  BY <1>1, DestroyingKeeps DEF PageInv
<1> HIDE DEF q
<1>3. Kept(page)'
  BY <1>1, <1>2, StutteringKeeps
<1> QED BY <1>1, <1>2, <1>3 DEF PageInv, Active

LEMMA ShutdownKeeps == ASSUME PageInv, ShutdownPlans PROVE PageInv'
<1> DEFINE q == Forget(page, DOMAIN page.plans)
<1>1. page' = q /\ dispatched' = NoFrame /\ UNCHANGED <<framesLoaded, plansLoaded, host, hosts, mutated>>
  BY DEF ShutdownPlans
<1>2. /\ IsPage(q) /\ q.frames = page.frames /\ q.threw = page.threw /\ Attached(q)
      /\ DOMAIN q.plans = {}
  <2>1. IsPage(page) /\ Attached(page)
    BY DEF PageInv, Kept
  <2> QED BY <2>1, ForgettingKeeps
<1> HIDE DEF q
<1>3. Kept(q)
  BY <1>2 DEF PageInv, Kept, Framed, Forest, Planned, Active
<1>4. Kept(page)'
  BY <1>1, <1>3, StutteringKeeps
<1> QED BY <1>1, <1>2, <1>4 DEF PageInv, Active

LEMMA HostChangeKeeps == ASSUME PageInv, HostChanges PROVE PageInv'
<1>1. /\ IsPage(page)' /\ page'.threw = FALSE /\ page'.frames = page.frames /\ page'.plans = page.plans
      /\ page'.pending = page.pending
      /\ page'.mounted = [f \in DOMAIN page.mounted |-> [page.mounted[f] EXCEPT !.inHost = FALSE]]
      /\ UNCHANGED <<framesLoaded, plansLoaded>> /\ mutated' = TRUE /\ host' \in BOOLEAN /\ dispatched' = NoFrame
  BY DEF HostChanges, PageInv, Kept, IsPage
<1>2. /\ DOMAIN page'.mounted = DOMAIN page.mounted
      /\ \A f \in DOMAIN page.mounted :
           DOMAIN page'.mounted[f] = {"label", "inHost", "listens"} /\ page'.mounted[f].inHost = FALSE
  BY <1>1 DEF PageInv, Kept, Attached, Mounted
<1>3. Framed(page)' /\ Forest(page)' /\ Planned(page)'
  BY <1>1 DEF PageInv, Kept, Framed, Forest, Planned, Active
<1>4. Waiting(page)'
  BY <1>1 DEF PageInv, Kept, Attached, Waiting
<1>5. Mounted(page)'
  BY <1>1, <1>2 DEF PageInv, Kept, Attached, Mounted
<1>6. Kept(page)'
  BY <1>1, <1>3, <1>4, <1>5 DEF Kept, Attached
<1> QED BY <1>1, <1>6 DEF PageInv, Active

LEMMA ObserveKeeps == ASSUME PageInv, Observe PROVE PageInv'
<1> DEFINE lost == {f \in DOMAIN page.mounted : ~page.mounted[f].inHost}
           wait == [f \in lost \cup DOMAIN page.pending |->
                      IF f \in lost THEN [label |-> page.plans[f], current |-> TRUE] ELSE page.pending[f]]
<1>1. /\ IsPage(page)' /\ page'.threw = FALSE /\ page'.frames = page.frames /\ page'.plans = page.plans
      /\ page'.pending = wait
      /\ page'.mounted = Restrict(page.mounted, DOMAIN page.mounted \ lost)
      /\ UNCHANGED <<framesLoaded, plansLoaded, host>> /\ mutated' = FALSE /\ dispatched' = NoFrame
  BY DEF Observe, Recovered, PageInv, Kept, IsPage
<1>2. /\ DOMAIN wait = lost \cup DOMAIN page.pending
      /\ \A f \in lost : DOMAIN wait[f] = {"label", "current"} /\ wait[f].label = page.plans[f]
      /\ \A f \in lost : wait[f].current = TRUE
      /\ \A f \in DOMAIN page.pending \ lost : wait[f] = page.pending[f]
  OBVIOUS
<1> HIDE DEF wait
<1>3. /\ DOMAIN page'.mounted = DOMAIN page.mounted \ lost
      /\ \A f \in DOMAIN page.mounted \ lost : page'.mounted[f] = page.mounted[f] /\ page.mounted[f].inHost
  BY <1>1 DEF Restrict
<1>4. Framed(page)' /\ Forest(page)' /\ Planned(page)'
  BY <1>1 DEF PageInv, Kept, Framed, Forest, Planned, Active
<1>5. lost \subseteq DOMAIN page.plans
  BY DEF PageInv, Kept, Attached, Mounted
<1>6. Waiting(page)'
  <2> HIDE DEF lost
  <2> QED BY <1>1, <1>2, <1>5 DEF PageInv, Kept, Attached, Waiting
<1>7. Mounted(page)'
  <2> HIDE DEF lost
  <2>1. ASSUME NEW f \in DOMAIN page.mounted \ lost
        PROVE  /\ f \in DOMAIN page.plans /\ f \notin DOMAIN page.pending
               /\ DOMAIN page.mounted[f] = {"label", "inHost", "listens"}
               /\ page.mounted[f].inHost \in BOOLEAN
               /\ page.mounted[f].inHost => host /\ page.mounted[f].label = page.plans[f]
    BY DEF PageInv, Kept, Attached, Mounted
  <2>2. ASSUME NEW f \in DOMAIN page'.mounted
        PROVE  f \in DOMAIN page.mounted \ lost /\ page'.mounted[f] = page.mounted[f] /\ f \notin DOMAIN page'.pending
    BY <1>1, <1>2, <1>3, <2>1
  <2> QED BY <1>1, <1>3, <2>1, <2>2 DEF Mounted
<1>8. Kept(page)'
  BY <1>1, <1>4, <1>6, <1>7 DEF Kept, Attached
<1> QED BY <1>1, <1>8 DEF PageInv, Active

LEMMA MountingKeeps == ASSUME PageInv, NEW f \in DOMAIN page.pending, TryMount(f) PROVE PageInv'
<1> DEFINE new == [label |-> page.pending[f].label, inHost |-> TRUE, listens |-> f \in Active(page)]
<1>1. /\ IsPage(page)' /\ page'.threw = FALSE /\ page'.frames = page.frames /\ page'.plans = page.plans
      /\ page'.pending = Restrict(page.pending, DOMAIN page.pending \ {f})
      /\ page'.mounted = Put(page.mounted, f, new)
      /\ UNCHANGED <<framesLoaded, plansLoaded, host, mutated>> /\ dispatched' = NoFrame
  <2> HIDE DEF new
  <2>1. page' = [page EXCEPT !.pending = Restrict(@, DOMAIN @ \ {f}), !.mounted = Put(@, f, new)]
    BY DEF TryMount, new
  <2> QED BY <2>1 DEF TryMount, PageInv, Kept, IsPage
<1>2. DOMAIN new = {"label", "inHost", "listens"} /\ new.label = page.plans[f]
  BY DEF TryMount, StillRegistered, PageInv, Kept, Attached, Waiting
<1>3. new.inHost = TRUE
  OBVIOUS
<1> HIDE DEF new
<1>4. /\ DOMAIN page'.pending = DOMAIN page.pending \ {f}
      /\ \A x \in DOMAIN page.pending \ {f} : page'.pending[x] = page.pending[x]
  BY <1>1 DEF Restrict
<1>5. /\ DOMAIN page'.mounted = DOMAIN page.mounted \cup {f}
      /\ page'.mounted[f] = new
      /\ \A x \in DOMAIN page.mounted \ {f} : page'.mounted[x] = page.mounted[x]
  BY <1>1 DEF Put
<1>6. Framed(page)' /\ Forest(page)' /\ Planned(page)'
  BY <1>1 DEF PageInv, Kept, Framed, Forest, Planned, Active
<1>7. Waiting(page)'
  BY <1>1, <1>4 DEF PageInv, Kept, Attached, Waiting
<1>8. host /\ f \in DOMAIN page.plans
  BY DEF TryMount, PageInv, Kept, Attached, Waiting
<1>9. Mounted(page)'
  BY <1>1, <1>2, <1>3, <1>4, <1>5, <1>8 DEF PageInv, Kept, Attached, Mounted
<1>10. Kept(page)'
  BY <1>1, <1>6, <1>7, <1>9 DEF Kept, Attached
<1> QED BY <1>1, <1>10 DEF PageInv, Active

LEMMA GivingUpKeeps == ASSUME PageInv, NEW f \in DOMAIN page.pending, GiveUp(f) PROVE PageInv'
<1>1. /\ IsPage(page)' /\ page'.threw = FALSE /\ page'.frames = page.frames /\ page'.plans = page.plans
      /\ page'.pending = Restrict(page.pending, DOMAIN page.pending \ {f}) /\ page'.mounted = page.mounted
      /\ UNCHANGED <<framesLoaded, plansLoaded, host, mutated>> /\ dispatched' = NoFrame
  BY DEF GiveUp, PageInv, Kept, IsPage
<1>2. /\ DOMAIN page'.pending = DOMAIN page.pending \ {f}
      /\ \A x \in DOMAIN page.pending \ {f} : page'.pending[x] = page.pending[x]
  BY <1>1 DEF Restrict
<1>3. Framed(page)' /\ Forest(page)' /\ Planned(page)'
  BY <1>1 DEF PageInv, Kept, Framed, Forest, Planned, Active
<1>4. Waiting(page)'
  BY <1>1, <1>2 DEF PageInv, Kept, Attached, Waiting
<1>5. Mounted(page)'
  BY <1>1, <1>2 DEF PageInv, Kept, Attached, Mounted
<1>6. Kept(page)'
  BY <1>1, <1>3, <1>4, <1>5 DEF Kept, Attached
<1> QED BY <1>1, <1>6 DEF PageInv, Active

LEMMA PageInvIsKept == PageInv /\ [PageNext]_pageVars => PageInv'
<1> SUFFICES ASSUME PageInv, [PageNext]_pageVars PROVE PageInv'
  OBVIOUS
<1>1. CASE LoadFrames
  BY <1>1, LoadingFramesKeeps
<1>2. CASE LoadPlans
  BY <1>2, LoadingPlansKeeps
<1>3. CASE ShutdownPlans
  BY <1>3, ShutdownKeeps
<1>4. CASE HostChanges
  BY <1>4, HostChangeKeeps
<1>5. CASE Observe
  BY <1>5, ObserveKeeps
<1>6. CASE \E fs : DestroyFrames(fs)
  BY <1>6, DestroyKeeps
<1>7. CASE \E f \in Active(page) : Dispatch(f)
  BY <1>7, DispatchKeeps
<1>8. CASE \E f \in DOMAIN page.pending : TryMount(f)
  BY <1>8, MountingKeeps
<1>9. CASE \E f \in DOMAIN page.pending : GiveUp(f)
  BY <1>9, GivingUpKeeps
<1>10. CASE UNCHANGED pageVars
  BY <1>10 DEF pageVars, PageInv, HandledToTheEnd, Kept, IsPage, Framed, Forest, Attached, Waiting, Mounted, Planned, Active, Children, Shown
<1> QED BY <1>1, <1>2, <1>3, <1>4, <1>5, <1>6, <1>7, <1>8, <1>9, <1>10 DEF PageNext

LEMMA PageInvIsExact == PageInv => PageIsExact
<1> SUFFICES ASSUME PageInv PROVE PageIsExact
  OBVIOUS
<1>1. DOMAIN page.mounted \cup DOMAIN page.pending \subseteq DOMAIN page.plans /\ DOMAIN page.mounted \cap DOMAIN page.pending = {}
  BY DEF PageInv, Kept, Attached, Waiting, Mounted
<1>2. DOMAIN page.plans \subseteq DOMAIN Envelope \cup Active(page) /\ \A f \in Active(page) : page.frames[f].parent \in Active(page) \cup {NoFrame}
  BY DEF PageInv, Kept, Planned, Framed
<1>3. FramesAreExact
  BY <1>1, <1>2 DEF PageInv, HandledToTheEnd, FramesAreExact
<1>4. MountedShowsItsPlan
  BY DEF PageInv, Kept, Attached, Mounted, MountedShowsItsPlan
<1> QED BY <1>3, <1>4 DEF PageIsExact

(* However hosts come and go, scripts are loaded and plans wait, the frames and  *)
(* attachments of a page agree, a handled event leaves what its state shows, and  *)
(* what is mounted shows its registered plan (replaceComponentFrameProjection,    *)
(* destroyComponentFrame, waitForAttachmentHost, recoverDisconnectedAttachment).  *)
THEOREM PagesAreExact == PageSpec => []PageIsExact
<1>1. PageInit => PageInv
  BY PageInvInitially
<1>2. PageInv /\ [PageNext]_pageVars => PageInv'
  BY PageInvIsKept
<1>3. PageInv => PageIsExact
  BY PageInvIsExact
<1> QED BY <1>1, <1>2, <1>3, PTL DEF PageSpec
=============================================================================
