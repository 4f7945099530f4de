----------------------------- MODULE BuiltTests -----------------------------
(***************************************************************************)
(* Build and Test effects of one workflow run that are executing at once    *)
(* (ProjectOperations.RunStep).  A Build effect calls the compiler itself;   *)
(* Test effects build their prerequisites through one BuildCoordinator, copy  *)
(* the artifacts they asked for into node_modules as built fixtures, and run. *)
(*                                                                         *)
(* An effect is [kind, needs, fixtures]: "build" or "test", its targets or    *)
(* its prerequisites in the order they are built, and for a test a sequence  *)
(* of [producer, at].  Every build target has one artifact, made by a         *)
(* bundler (the artifacts of the other compilers carry no identity and cannot *)
(* be asked for).                                                            *)
(***************************************************************************)
EXTENDS BuildOrder, SequencesExt

CONSTANTS
  DependsOn,    \* build target -> sequence of build targets
  Effects,      \* the effects, with Effect saying what each one is
  Effect,
  Timed,        \* the effects that have a timeout, or may be cancelled
  Earlier,      \* what earlier runs may have left at the places in
                \* node_modules that fixtures are bound to
  Revisions     \* the sources as they are edited while the run lasts

BuildTargets == DOMAIN DependsOn

VARIABLES
  source,    \* the revision the sources are at
  output,    \* build target -> content of its artifact on disk
  calls,     \* BuildCoordinator.calls
  fixture,   \* destination -> what is there
  lock,      \* destination -> the effect that holds its fixtureLock
  expired,   \* the effects whose context is done
  at,        \* effect -> where it is
  todo,      \* effect -> the targets it has still to build or ask for
  got,       \* effect -> build target -> content its BuildResult names
  nth,       \* effect -> the built fixture it is at
  staged,    \* effect -> what it has copied
  flawed     \* the effects some fixture of which was refused

vars == <<source, output, calls, fixture, lock, expired, at, todo, got, nth, staged, flawed>>

Absent == "absent"
Partial == "partial"
Failed == "failed"
Pending == "pending"
Free == "free"
Versions == ToSet(Revisions)
Content == Versions \cup {Partial}

Unmanaged == [owner |-> "unmanaged"]
Projection == [owner |-> "projection"]
Nothing == [owner |-> "nothing"]
Built(producer, hash, files) ==
  [owner |-> "fixture", producer |-> producer, hash |-> hash, files |-> files]
Found == {Nothing, Unmanaged, Projection}
         \cup {Built(t, v, v) : t \in BuildTargets, v \in Versions}
Destinations == UNION {DOMAIN left : left \in Earlier}


Tests == {e \in Effects : Effect[e].kind = "test"}
Builds == Effects \ Tests
Fixtures(e) == IF e \in Tests THEN Effect[e].fixtures ELSE <<>>
Fixture(e) == Fixtures(e)[nth[e]]

(* RunBuild is called with all targets of a Build effect, and once for each   *)
(* prerequisite of a Test effect.                                            *)
Plan(e) ==
  IF e \in Builds THEN OrderWorkspaceBuildTargets(DependsOn, Effect[e].needs)
  ELSE FoldLeft(LAMBDA plan, t : plan \o OrderWorkspaceBuildTargets(DependsOn, <<t>>),
                <<>>, Effect[e].needs)

(* A plan that has a cycle or an undeclared target is refused before its first *)
(* target; the targets and the places of fixtures are the manifest's.          *)
ASSUME EffectAssumption ==
  /\ Revisions # <<>> /\ Revisions \in Seq(Versions)
  /\ Versions \cap {Absent, Failed, Pending, Free} = {} /\ Free \notin Effects
  /\ Earlier \subseteq [Destinations -> Found]
  /\ \A e \in Effects : /\ Effect[e].kind \in {"build", "test"}
                       /\ Plan(e) \in Seq(BuildTargets)
  /\ \A e \in Tests : Fixtures(e) \in Seq([producer : BuildTargets, at : Destinations])

Init ==
  /\ source = 1
  /\ \E first \in {Absent, Revisions[1]} : output = [t \in BuildTargets |-> first]
  /\ calls = [t \in BuildTargets |-> Free]
  /\ fixture \in Earlier
  /\ lock = [d \in Destinations |-> Free]
  /\ expired = {}
  /\ at = [e \in Effects |-> "planned"]
  /\ todo = [e \in Effects |-> Plan(e)]
  /\ got = [e \in Effects |-> [t \in BuildTargets |-> Absent]]
  /\ nth = [e \in Effects |-> 1]
  /\ staged = [e \in Effects |-> Absent]
  /\ flawed = {}

-----------------------------------------------------------------------------
Goes(e, place) == at' = [at EXCEPT ![e] = place]

(* RunBuild returns at the first target that does not succeed; a Build effect *)
(* is over after the last one, a Test effect goes on to its fixtures.         *)
Receives(e, result) ==
  LET t == Head(todo[e]) IN
  /\ todo' = [todo EXCEPT ![e] = Tail(@)]
  /\ got' = [got EXCEPT ![e][t] = IF result = Failed THEN Absent ELSE result]
  /\ Goes(e, IF result = Failed THEN "failed" ELSE "planned")

Leads_Again(t) == calls[t] # Pending

(* coordinatedBuildExecutor.BuildTarget: the first to ask for a target leads, *)
(* whatever becomes of its call.                                              *)
Leads(t) == calls[t] = Free

Ask(e) ==
  /\ at[e] = "planned" /\ todo[e] # <<>>
  /\ LET t == Head(todo[e]) IN
     IF e \in expired
     THEN Goes(e, "failed") /\ UNCHANGED calls
     ELSE IF e \in Builds THEN Goes(e, "building") /\ UNCHANGED calls
     ELSE IF Leads(t)
     THEN Goes(e, "building") /\ calls' = [calls EXCEPT ![t] = Pending]
     ELSE Goes(e, "following") /\ UNCHANGED calls
  /\ UNCHANGED <<source, output, fixture, lock, expired, todo, got, nth, staged, flawed>>

Follow(e) ==
  /\ at[e] = "following"
  /\ \/ /\ calls[Head(todo[e])] # Pending
        /\ Receives(e, calls[Head(todo[e])])
     \/ /\ e \in expired
        /\ Receives(e, Failed)
  /\ UNCHANGED <<source, output, calls, fixture, lock, expired, nth, staged, flawed>>

Delivers_Success(e, result) ==
  /\ Receives(e, result)
  /\ calls' = IF e \in Tests /\ result # Failed THEN [calls EXCEPT ![Head(todo[e])] = result] ELSE calls

(* The executor: a done context, a configuration it refuses, or the cleaning  *)
(* of the declared output, the compiler writing it, the reading of it.        *)
Delivers(e, result) ==
  /\ Receives(e, result)
  /\ calls' = IF e \in Tests THEN [calls EXCEPT ![Head(todo[e])] = result] ELSE calls

Refuse(e) ==
  /\ at[e] = "building"
  /\ Delivers(e, Failed)
  /\ UNCHANGED <<source, output, fixture, lock, expired, nth, staged, flawed>>

Clean(e) ==
  /\ at[e] = "building" /\ e \notin expired
  /\ output' = [output EXCEPT ![Head(todo[e])] = Absent]
  /\ Goes(e, "compiling")
  /\ UNCHANGED <<source, calls, fixture, lock, expired, todo, got, nth, staged, flawed>>

Emit(e) ==
  /\ at[e] = "compiling"
  /\ output' = [output EXCEPT ![Head(todo[e])] = Partial]
  /\ Goes(e, "emitting")
  /\ UNCHANGED <<source, calls, fixture, lock, expired, todo, got, nth, staged, flawed>>

CompilerSucceeds(e) ==
  /\ at[e] = "emitting"
  /\ output' = [output EXCEPT ![Head(todo[e])] = Revisions[source]]
  /\ Goes(e, "compiled")
  /\ UNCHANGED <<source, calls, fixture, lock, expired, todo, got, nth, staged, flawed>>

CompilerFails(e) ==
  /\ at[e] \in {"compiling", "emitting"}
  /\ Delivers(e, Failed)
  /\ UNCHANGED <<source, output, fixture, lock, expired, nth, staged, flawed>>

Qualify(e) ==
  /\ at[e] = "compiled"
  /\ LET now == output[Head(todo[e])] IN Delivers(e, IF now = Absent THEN Failed ELSE now)
  /\ UNCHANGED <<source, output, fixture, lock, expired, nth, staged, flawed>>

BuildEnds(e) ==
  /\ e \in Builds /\ at[e] = "planned" /\ todo[e] = <<>>
  /\ Goes(e, "done")
  /\ UNCHANGED <<source, output, calls, fixture, lock, expired, todo, got, nth, staged, flawed>>

-----------------------------------------------------------------------------
(* realizeBuiltTestFixtures, one fixture after another, refused ones too.     *)
AtFixture(e) ==
  e \in Tests /\ at[e] = "planned" /\ todo[e] = <<>> /\ nth[e] <= Len(Fixtures(e))

Passes(e, refused) ==
  /\ nth' = [nth EXCEPT ![e] = @ + 1]
  /\ flawed' = IF refused THEN flawed \cup {e} ELSE flawed
  /\ Goes(e, "planned")

Verified(e) ==
  LET t == Fixture(e).producer IN got[e][t] # Absent /\ output[t] = got[e][t]

Verify(e) ==
  /\ AtFixture(e)
  /\ IF Verified(e) THEN Goes(e, "verified") /\ UNCHANGED <<nth, flawed>>
     ELSE Passes(e, TRUE)
  /\ UNCHANGED <<source, output, calls, fixture, lock, expired, todo, got, staged>>

Lock(e) ==
  /\ at[e] = "verified" /\ lock[Fixture(e).at] = Free
  /\ lock' = [lock EXCEPT ![Fixture(e).at] = e]
  /\ Goes(e, "locked")
  /\ UNCHANGED <<source, output, calls, fixture, expired, todo, got, nth, staged, flawed>>

Unlock(e) == lock' = [lock EXCEPT ![Fixture(e).at] = Free]

Matches_Marker(e) ==
  LET f == Fixture(e) IN /\ fixture[f.at].owner = "fixture"
                         /\ fixture[f.at].producer = f.producer

(* builtFixtureMatches hashes the files that are there; only a fixture, or the *)
(* test's own module instance, is replaced.                                   *)
Matches(e) ==
  LET f == Fixture(e) IN fixture[f.at] = Built(f.producer, got[e][f.producer], got[e][f.producer])

Reuse(e) ==
  /\ at[e] = "locked" /\ Matches(e)
  /\ Unlock(e) /\ Passes(e, FALSE)
  /\ UNCHANGED <<source, output, calls, fixture, expired, todo, got, staged>>

RefuseUnmanaged(e) ==
  /\ at[e] = "locked" /\ fixture[Fixture(e).at] = Unmanaged
  /\ Unlock(e) /\ Passes(e, TRUE)
  /\ UNCHANGED <<source, output, calls, fixture, expired, todo, got, staged>>

RemovePrevious(e) ==
  /\ at[e] = "locked" /\ ~Matches(e) /\ fixture[Fixture(e).at] # Unmanaged
  /\ fixture' = [fixture EXCEPT ![Fixture(e).at] = Nothing]
  /\ Goes(e, "removed")
  /\ UNCHANGED <<source, output, calls, lock, expired, todo, got, nth, staged, flawed>>

Copy(e) ==
  /\ at[e] = "removed"
  /\ LET now == output[Fixture(e).producer] IN
     IF now = Absent
     THEN Unlock(e) /\ Passes(e, TRUE) /\ UNCHANGED staged
     ELSE /\ staged' = [staged EXCEPT ![e] = now]
          /\ Goes(e, "copied")
          /\ UNCHANGED <<lock, nth, flawed>>
  /\ UNCHANGED <<source, output, calls, fixture, expired, todo, got>>

Place(e) ==
  /\ at[e] = "copied"
  /\ LET f == Fixture(e) IN
     fixture' = [fixture EXCEPT ![f.at] = Built(f.producer, got[e][f.producer], staged[e])]
  /\ staged' = [staged EXCEPT ![e] = Absent]
  /\ Unlock(e) /\ Passes(e, FALSE)
  /\ UNCHANGED <<source, output, calls, expired, todo, got>>

(* Runs the tests, unless a fixture was refused.                             *)
RunTests(e) ==
  /\ e \in Tests /\ at[e] = "planned" /\ todo[e] = <<>> /\ nth[e] > Len(Fixtures(e))
  /\ Goes(e, IF e \in flawed THEN "failed" ELSE "testing")
  /\ UNCHANGED <<source, output, calls, fixture, lock, expired, todo, got, nth, staged, flawed>>

TestsEnd(e) ==
  /\ at[e] = "testing"
  /\ Goes(e, "done")
  /\ UNCHANGED <<source, output, calls, fixture, lock, expired, todo, got, nth, staged, flawed>>

-----------------------------------------------------------------------------
Expire(e) ==
  /\ e \in Timed \ expired
  /\ at[e] \notin {"done", "failed"}
  /\ expired' = expired \cup {e}
  /\ UNCHANGED <<source, output, calls, fixture, lock, at, todo, got, nth, staged, flawed>>

Edit ==
  /\ source < Len(Revisions)
  /\ source' = source + 1
  /\ UNCHANGED <<output, calls, fixture, lock, expired, at, todo, got, nth, staged, flawed>>

Work(e) ==
  \/ Ask(e) \/ Follow(e) \/ Refuse(e) \/ Clean(e) \/ Emit(e)
  \/ CompilerSucceeds(e) \/ CompilerFails(e) \/ Qualify(e) \/ BuildEnds(e)
  \/ Verify(e) \/ Lock(e) \/ Reuse(e) \/ RefuseUnmanaged(e) \/ RemovePrevious(e) \/ Copy(e) \/ Place(e)
  \/ RunTests(e) \/ TestsEnd(e)

Over == \A e \in Effects : at[e] \in {"done", "failed"}

Next == Edit \/ \E e \in Effects : Work(e) \/ Expire(e)

(* Every effect is a goroutine; the compiler and the tests are taken to end.  *)
Spec == Init /\ [][Next]_vars
FairSpec == Spec /\ \A e \in Effects : WF_vars(Work(e))

-----------------------------------------------------------------------------
TypeOK ==
  /\ source \in DOMAIN Revisions
  /\ output \in [BuildTargets -> Content \cup {Absent}]
  /\ calls \in [BuildTargets -> Content \cup {Free, Pending, Failed}]
  /\ DOMAIN fixture = Destinations
  /\ lock \in [Destinations -> Effects \cup {Free}]
  /\ expired \subseteq Timed /\ flawed \subseteq Tests
  /\ todo \in [Effects -> Seq(BuildTargets)]
  /\ got \in [Effects -> [BuildTargets -> Content \cup {Absent}]]
  /\ staged \in [Effects -> Content \cup {Absent}]

(* However the effects interleave and whatever is edited meanwhile, the tests *)
(* of one run are judged against one build: two tests that were given a       *)
(* result for a target were given the same one.                              *)
OneBuildForAll ==
  \A e, f \in Tests, t \in BuildTargets : got[e][t] # Absent /\ got[f][t] # Absent => got[e][t] = got[f][t]

(* The coordinator keeps its types and gives every test the same builds.      *)
CoordinatorIsSound == TypeOK /\ OneBuildForAll

(* Tests run against the bytes their BuildResult names: nothing replaces or   *)
(* rebuilds a fixture under them.  It takes that no Build effect builds the    *)
(* producer and no other test binds another producer's artifact to the same   *)
(* place, neither of which the code prevents.                                *)
Undisturbed(f) ==
  /\ \A b \in Builds : f.producer \notin ToSet(OrderWorkspaceBuildTargets(DependsOn, Effect[b].needs))
  /\ \A e \in Tests : \A i \in DOMAIN Fixtures(e) : Fixtures(e)[i].at = f.at =>
       Fixtures(e)[i].producer = f.producer

TestsRunOnTheirBuild ==
  \A e \in Tests : at[e] = "testing" =>
    \A i \in DOMAIN Fixtures(e) : Undisturbed(Fixtures(e)[i]) =>
      LET f == Fixtures(e)[i] IN fixture[f.at] = Built(f.producer, got[e][f.producer], got[e][f.producer])

(* Every effect ends, whoever fails, is cancelled or waits for whom.          *)
EffectsEnd == \A e \in Effects : <>(at[e] \in {"done", "failed"})
=============================================================================
