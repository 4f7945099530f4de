--------------------------- MODULE Materializer ---------------------------
(***************************************************************************)
(* NodeModulesMaterializer.Materialize: node_modules is made from a lock,    *)
(* one operation after another, any of which may fail half way or be cut     *)
(* off by a crash, and a marker written last says which plan it holds.       *)
(*                                                                         *)
(* tree is the set of [dest, what] on disk, one for each destination.  The   *)
(* constants give for every lock what MaterializationPlan computes.          *)
(***************************************************************************)
EXTENDS Integers, Sequences, FiniteSets, SequencesExt

CONSTANTS
  Locks,        \* the locks the workspace may have, one at a time
  LayoutOf,     \* lock -> what Materialize computes from it (see plan)
  FixtureSpots, \* the destinations of all fixtures
  InitialTrees, \* what may be on disk before the first command
  Bins,         \* the name of the .bin directory
  MaxCommands, MaxFaults, MaxDeletions  \* bounds of the environment

ASSUME MaterializerAssumption ==
  /\ MaxCommands \in Nat /\ MaxFaults \in Nat /\ MaxDeletions \in Nat

AtOrUnder(dest, dir) == Len(dest) >= Len(dir) /\ SubSeq(dest, 1, Len(dir)) = dir

(* A destination is a directory and a name in it, or more of them.           *)
IsDestination(dest) ==
  /\ Len(dest) \in Nat \ {0} /\ dest = [i \in 1 .. Len(dest) |-> dest[i]]
  /\ dest[1] = "root" => Len(dest) > 1

(* What an operation puts at its destination, if it puts anything.           *)
Places(op) == op.what.kind \notin {"prune", "refuse"}
Placement(op) ==
  [dest |-> op.dest, what |-> [op.what EXCEPT !.kind = IF @ = "conflict" THEN "bins" ELSE @]]
PlacedBy(p) == {Placement(op) : op \in {o \in ToSet(p.operations) : Places(o)}}

(* Who may put something at a destination.                                   *)
Origins ==
  FixtureSpots \cup (UNION {{x.dest : x \in t} : t \in InitialTrees})
  \cup (UNION {{op.dest : op \in ToSet(LayoutOf[l].operations)} : l \in Locks})

(* A name by which a sync notices that the instances are gone: its link leads to *)
(* one, or nobody ever puts anything there.                                  *)
LeadsToInstance(p, name) ==
  /\ <<"root", name>> \notin FixtureSpots
  /\ \/ <<"root", name>> \notin Origins
     \/ \E op \in ToSet(p.operations) :
          op.dest = <<"root", name>> /\ op.what.kind = "link" /\ op.what.to[1] = "instance"

(* Of a layout without collisions: no operation covers what an earlier one has   *)
(* put; what is put in the workspace's node_modules is below a visible name or   *)
(* .bin, and without instances each of these is put there, and the rest pruned;  *)
(* instances can be missed; fixtures have their places, or are there anyway.                       *)
SoundLayout(p) ==
  /\ p.operations \in Seq(ToSet(p.operations)) /\ p.fixtures \in Seq(ToSet(p.fixtures))
  /\ \A op \in ToSet(p.operations) :
       /\ op.what \in [kind : {"artifact", "link", "bins", "conflict", "prune", "refuse"},
                       hash : {op.what.hash}, to : {op.what.to}]
       /\ op.phase \in Nat \ {0}
       /\ op.what.kind # "prune" => IsDestination(op.dest)
       /\ Places(op) /\ op.dest[1] = "root" => op.dest[2] \in p.visible \cup {Bins}
  /\ \A i, j \in DOMAIN p.operations :
       LET earlier == p.operations[i] later == p.operations[j]
       IN i < j /\ Places(earlier) /\ Places(later) /\ AtOrUnder(earlier.dest, later.dest)
            => Placement(earlier) = Placement(later)
  /\ p.nested =>
       /\ \E op \in ToSet(p.operations) : op.what.kind = "prune"
       /\ \A name \in p.visible \cup {Bins} :
            \E op \in ToSet(p.operations) : op.dest = <<"root", name>> /\ op.what.kind # "prune"
  /\ (\E op \in ToSet(p.operations) : Places(op) /\ op.dest[1] = "instance")
       => \E name \in p.visible : LeadsToInstance(p, name)
  /\ \A f \in ToSet(p.fixtures) : f.source = f.dest \/ f.dest \in FixtureSpots

(* What the proofs use of the plans, and of the trees there may be; the same     *)
(* digest is the digest of the same operations.                              *)
ASSUME LayoutAssumption ==
  /\ \A l \in Locks : ~LayoutOf[l].collides => SoundLayout(LayoutOf[l])
  /\ \A l, m \in Locks : LayoutOf[l].digest = LayoutOf[m].digest =>
       PlacedBy(LayoutOf[l]) = PlacedBy(LayoutOf[m]) /\ LayoutOf[l].visible = LayoutOf[m].visible
  /\ \A spot \in FixtureSpots : /\ IsDestination(spot) /\ spot[1] # "instance"
                                /\ spot[1] = "root" => Len(spot) = 2
  /\ \A t \in InitialTrees : /\ \A x \in t : IsDestination(x.dest)
                             /\ \A x, y \in t : x.dest = y.dest => x = y

VARIABLES
  tree,      \* the directories and links
  root,      \* whether the workspace's node_modules exists
  marker,    \* .tspack-materialized: [state, plan]
  bound,     \* the fixture marker: the projections it lists
  req,       \* the command: [clean, force]
  plan,      \* what it computed from the lock: [digest, collides, nested,
             \* operations, visible, fixtures, refused]; visible are the names
             \* the sanity check looks for, refused the fixtures' diagnostics
  pc,        \* where it is
  queue,     \* the operations left
  failed,    \* the destinations whose operation failed
  phase,     \* the phase of the first diagnostic, 0 while there is none
  diags,     \* the diagnostics: [code, dest]
  path,      \* "fast" when the marker answered, else "long"; "none" before,
             \* and once something else has changed the tree
  touched,   \* destinations of what a sync has removed since the marker was
             \* written, and of what was deleted before that sync
  gone,      \* destinations somebody has deleted since
  commands, faults, deletions

disk == <<tree, root, marker, bound>>
run == <<req, plan, pc, queue, failed, phase, diags, path>>
count == <<commands, faults, deletions>>
history == <<touched, gone>>
vars == <<disk, run, history, count>>

Project == <<"root">>
Instances == <<"instance">>
NoMarker == [state |-> "none", plan |-> {}]
MarkerOf(p) == [state |-> "written", plan |-> p.digest]

Item(dest, kind) == [dest |-> dest, what |-> [kind |-> kind, hash |-> 0, to |-> <<>>]]
Torn(dest) == Item(dest, "torn")

InProject(dest) == dest[1] \in {"root", "instance"}

Holds(t, dest) == \E x \in t : x.dest = dest
Without(t, dest) == {x \in t : ~AtOrUnder(x.dest, dest)}
Put(t, dest, what) == Without(t, dest) \cup {[dest |-> dest, what |-> what]}

(* Where a path leads: a link to an instance, which may be a link to a       *)
(* workspace directory.                                                     *)
Follow(t, dest) ==
  IF \E x \in t : x.dest = dest /\ x.what.kind = "link"
  THEN (CHOOSE x \in t : x.dest = dest).what.to ELSE dest
Physical(t, dest) == Follow(t, Follow(t, dest))

(* os.Stat: links are followed; workspace directories exist. *)
Present(t, dest) == Physical(t, dest)[1] = "workspace" \/ Holds(t, Physical(t, dest))

Names(t) == {SubSeq(x.dest, 1, 2) : x \in {y \in t : y.dest[1] = "root"}}

-----------------------------------------------------------------------------
Init ==
  /\ tree \in InitialTrees
  /\ root = (tree # {})
  /\ marker = NoMarker /\ bound = <<>>
  /\ req = [clean |-> FALSE, force |-> FALSE]
  /\ plan = [digest |-> {}, collides |-> FALSE, nested |-> FALSE, operations |-> <<>>,
             visible |-> {}, fixtures |-> <<>>, refused |-> {}]
  /\ pc = "idle" /\ queue = <<>> /\ failed = {} /\ phase = 0 /\ diags = {} /\ path = "none"
  /\ touched = {} /\ gone = {}
  /\ commands = 0 /\ faults = 0 /\ deletions = 0

Layouts == {LayoutOf[l] : l \in Locks}

(* Materialize is called, for a lock that may have changed. *)
Begin ==
  /\ pc = "idle" /\ commands < MaxCommands
  /\ plan' \in Layouts
  /\ req' \in [clean : BOOLEAN, force : BOOLEAN]
  /\ pc' = "begun" /\ commands' = commands + 1
  /\ failed' = {} /\ phase' = 0 /\ diags' = {} /\ path' = "none" /\ queue' = <<>>
  /\ UNCHANGED <<disk, history, faults, deletions>>

Diagnose(code, dest) == diags' = diags \cup {[code |-> code, dest |-> dest]}

RefuseCollision ==
  /\ pc = "begun" /\ plan.collides
  /\ Diagnose("COLLISION", <<>>)
  /\ pc' = "idle"
  /\ UNCHANGED <<disk, req, plan, queue, failed, phase, path, history, count>>

MarkerAnswers_Unchecked ==
  ~req.clean /\ ~req.force /\ marker = MarkerOf(plan) /\ root

(* loadMaterializationMarker and markerSanityCheck *)
MarkerAnswers ==
  /\ ~req.clean /\ ~req.force
  /\ marker = MarkerOf(plan)
  /\ root
  /\ Present(tree, Append(Project, Bins))
  /\ \A name \in plan.visible : Present(tree, Append(Project, name))

TakeFastPath ==
  /\ pc = "begun" /\ ~plan.collides /\ MarkerAnswers
  /\ pc' = "fixtures" /\ path' = "fast"
  /\ UNCHANGED <<disk, req, plan, queue, failed, phase, diags, history, count>>

TakeLongPath ==
  /\ pc = "begun" /\ ~plan.collides /\ ~MarkerAnswers
  /\ pc' = IF req.clean THEN "clean" ELSE "work"
  /\ path' = "long" /\ queue' = plan.operations
  /\ touched' = touched \cup gone /\ gone' = {}
  /\ root' = (root \/ ~req.clean)
  /\ UNCHANGED <<tree, marker, bound, req, plan, failed, phase, diags, count>>

(* cleanNodeModules: only a directory with a marker is removed. *)
RefuseClean ==
  /\ pc = "clean" /\ root /\ marker = NoMarker
  /\ Diagnose("CLEAN_REFUSED", <<>>) /\ pc' = "idle"
  /\ UNCHANGED <<disk, req, plan, queue, failed, phase, path, history, count>>

Cleaned_InstancesOnly == {x \in tree : x.dest[1] # "instance"}

Cleaned == {x \in tree : ~InProject(x.dest)}

Clean ==
  /\ pc = "clean" /\ (~root \/ marker # NoMarker)
  /\ tree' = Cleaned /\ marker' = NoMarker /\ root' = TRUE /\ pc' = "work"
  /\ UNCHANGED <<bound, req, plan, queue, failed, phase, diags, path, history, count>>

(* A sync has removed or replaced what the tree had.                           *)
Touch == touched' = touched \cup {x.dest : x \in tree \ tree'}

(* Removing a directory stops at a locked file: what is gone is gone: *)
(* some directory, or all but it.                                             *)
CleanFails ==
  /\ pc = "clean" /\ root /\ marker # NoMarker /\ faults < MaxFaults
  /\ \E dest \in {x.dest : x \in {y \in tree : InProject(y.dest)}}, m \in {marker, NoMarker} :
       /\ tree' \in {Without(tree, dest), Cleaned \cup {x \in tree : x.dest = dest}}
       /\ marker' = m
  /\ Diagnose("WRITE_FAILED", Project) /\ pc' = "idle" /\ faults' = faults + 1
  /\ Touch
  /\ UNCHANGED <<root, bound, req, plan, queue, failed, phase, path, gone, commands, deletions>>

-----------------------------------------------------------------------------
Op == Head(queue)

(* materializePkg returns before it looks at the dependencies of a package  *)
(* it could not place; without instances nothing but prune looks at earlier  *)
(* diagnostics.  With instances a phase is begun only without diagnostics.    *)
Skipped ==
  IF plan.nested
  THEN \/ \E dest \in failed : AtOrUnder(Op.dest, dest) /\ Op.what.kind # "bins"
       \/ Op.what.kind = "prune" /\ phase # 0
  ELSE phase # 0 /\ Op.phase > phase

AtWork == pc = "work" /\ queue # <<>>
Next_op == queue' = Tail(queue)

Skip ==
  /\ AtWork /\ Skipped /\ Next_op
  /\ UNCHANGED <<disk, req, plan, pc, failed, phase, diags, path, history, count>>

Note_Forgotten(code) ==
  diags' = diags /\ phase' = phase /\ failed' = failed \cup {Op.dest}

Note(code) ==
  /\ Diagnose(code, Op.dest)
  /\ phase' = IF phase = 0 THEN Op.phase ELSE phase
  /\ failed' = failed \cup {Op.dest}

(* copyTree and replacePackageDirectoryLink: the destination is replaced;    *)
(* materializeRootBins replaces .bin, too, when two packages want one name.   *)
Perform ==
  /\ AtWork /\ ~Skipped /\ Op.what.kind \in {"artifact", "link", "bins", "conflict"}
  /\ tree' = Put(tree, Op.dest, [Op.what EXCEPT !.kind = IF @ = "conflict" THEN "bins" ELSE @])
  /\ IF Op.what.kind = "conflict" THEN Note("BIN_CONFLICT") ELSE UNCHANGED <<failed, phase, diags>>
  /\ Next_op
  /\ Touch
  /\ UNCHANGED <<root, marker, bound, req, plan, pc, path, gone, count>>

RefuseOperation ==
  /\ AtWork /\ ~Skipped /\ Op.what.kind = "refuse"
  /\ Note("REFUSED") /\ Next_op
  /\ UNCHANGED <<disk, req, plan, pc, path, history, count>>

(* pruneNodeModulesRoot: entries of the workspace's node_modules that no    *)
(* root names.                                                             *)
Kept == {Append(Project, name) : name \in plan.visible \cup {Bins}}
Strays == {x \in tree : x.dest[1] = "root" /\ SubSeq(x.dest, 1, 2) \notin Kept}

Prune ==
  /\ AtWork /\ ~Skipped /\ Op.what.kind = "prune"
  /\ tree' = tree \ Strays /\ Next_op
  /\ Touch
  /\ UNCHANGED <<root, marker, bound, req, plan, pc, failed, phase, diags, path, gone, count>>

(* What an operation that does not complete leaves behind: the old content  *)
(* (the store refused, staging failed), part of it (removal stopped), nothing *)
(* (the new directory could not be moved into place).                        *)
Partial ==
  IF Op.what.kind = "prune" THEN {tree \ S : S \in SUBSET Strays}
  ELSE {tree, Without(tree, Op.dest)}
       \cup (IF Holds(tree, Op.dest) THEN {Without(tree, Op.dest) \cup {Torn(Op.dest)}} ELSE {})

FailOperation ==
  /\ AtWork /\ ~Skipped /\ faults < MaxFaults /\ Op.what.kind # "refuse"
  /\ tree' \in Partial
  /\ Note("WRITE_FAILED") /\ Next_op
  /\ faults' = faults + 1
  /\ Touch
  /\ UNCHANGED <<root, marker, bound, req, plan, pc, path, gone, commands, deletions>>

(* The marker is written under another name and renamed. *)
WriteMarker ==
  /\ pc = "work" /\ queue = <<>> /\ diags = {}
  /\ marker' = MarkerOf(plan) /\ touched' = {} /\ pc' = "fixtures"
  /\ UNCHANGED <<tree, root, bound, req, plan, queue, failed, phase, diags, path, gone, count>>

FailMarker ==
  /\ pc = "work" /\ queue = <<>> /\ diags = {} /\ faults < MaxFaults
  /\ Diagnose("WRITE_FAILED", Project) /\ pc' = "idle" /\ faults' = faults + 1
  /\ UNCHANGED <<disk, req, plan, queue, failed, phase, path, history, commands, deletions>>

GiveUp ==
  /\ pc = "work" /\ queue = <<>> /\ diags # {}
  /\ pc' = "idle"
  /\ UNCHANGED <<disk, req, plan, queue, failed, phase, diags, path, history, count>>

-----------------------------------------------------------------------------
(* materializeTestFixtures *)
Fixtures == plan.fixtures

ProjectionExists(t, f) ==
  /\ Present(t, f.dest) /\ Present(t, f.source)
  /\ (f.mode = "source") = (Physical(t, f.dest) = Physical(t, f.source))

Settled == bound = Fixtures /\ \A f \in ToSet(Fixtures) : ProjectionExists(tree, f)

FixturesDone ==
  /\ pc = "fixtures"
  /\ diags' = diags \cup plan.refused
  /\ \/ plan.refused # {}
     \/ Fixtures = <<>>
     \/ Settled
  /\ pc' = "idle"
  /\ UNCHANGED <<disk, req, plan, queue, failed, phase, path, history, count>>

Unbound(S) == {x \in tree : \A f \in S : f.source = f.dest \/ ~AtOrUnder(x.dest, f.dest)}

(* The destinations recorded last time are removed, all of them or, when a  *)
(* removal fails, the others.                                               *)
ReplaceFixtures ==
  /\ pc = "fixtures" /\ plan.refused = {} /\ Fixtures # <<>> /\ ~Settled
  /\ \/ tree' = Unbound(ToSet(bound)) /\ pc' = "bind" /\ UNCHANGED <<diags, faults>>
     \/ /\ faults < MaxFaults /\ faults' = faults + 1
        /\ \E f \in ToSet(bound) :
             tree' = Unbound(ToSet(bound) \ {f}) /\ Diagnose("FIXTURE_FAILED", f.dest)
        /\ pc' = "idle"
  /\ queue' = Fixtures
  /\ UNCHANGED <<root, marker, bound, req, plan, failed, phase, path, history, commands, deletions>>

Binding == pc = "bind" /\ queue # <<>>
NextFixture == queue' = Tail(queue)
Fixture == Head(queue)

Unmanaged == Holds(tree, Fixture.dest) /\ ~req.clean /\ ~req.force

SkipFixture ==
  /\ Binding /\ Fixture.source = Fixture.dest
  /\ NextFixture
  /\ UNCHANGED <<disk, req, plan, pc, failed, phase, diags, path, history, count>>

RefuseFixture ==
  /\ Binding /\ Fixture.source # Fixture.dest
  /\ \/ ~Present(tree, Fixture.source) /\ Diagnose("FIXTURE_CONTENT", Fixture.dest)
     \/ Present(tree, Fixture.source) /\ Unmanaged /\ Diagnose("FIXTURE_UNMANAGED", Fixture.dest)
  /\ NextFixture
  /\ UNCHANGED <<disk, req, plan, pc, failed, phase, path, history, count>>

CanBind == Binding /\ Fixture.source # Fixture.dest /\ Present(tree, Fixture.source) /\ ~Unmanaged

FixtureContent(f) ==
  [kind |-> IF f.mode = "source" THEN "link" ELSE "fixture", hash |-> 0, to |-> f.source]

BindFixture ==
  /\ CanBind
  /\ tree' = Put(tree, Fixture.dest, FixtureContent(Fixture))
  /\ NextFixture
  /\ UNCHANGED <<root, marker, bound, req, plan, pc, failed, phase, diags, path, history, count>>

(* The copy may be in place when the links to its dependencies fail. *)
PartialFixture ==
  {tree, Without(tree, Fixture.dest), Put(tree, Fixture.dest, Torn(<<>>).what)}

FailFixture ==
  /\ CanBind /\ faults < MaxFaults
  /\ tree' \in PartialFixture
  /\ Diagnose("FIXTURE_FAILED", Fixture.dest)
  /\ NextFixture /\ faults' = faults + 1
  /\ UNCHANGED <<root, marker, bound, req, plan, pc, failed, phase, path, history, commands, deletions>>

WriteFixtureMarker ==
  /\ pc = "bind" /\ queue = <<>> /\ diags = {}
  /\ bound' = Fixtures /\ pc' = "idle"
  /\ UNCHANGED <<tree, root, marker, req, plan, queue, failed, phase, diags, path, history, count>>

(* os.WriteFile truncates first: a file that does not parse is no marker. *)
FailFixtureMarker ==
  /\ pc = "bind" /\ queue = <<>> /\ diags = {} /\ faults < MaxFaults
  /\ bound' \in {bound, <<>>}
  /\ Diagnose("FIXTURE_FAILED", <<>>) /\ pc' = "idle" /\ faults' = faults + 1
  /\ UNCHANGED <<tree, root, marker, req, plan, queue, failed, phase, path, history, commands, deletions>>

FixturesGiveUp ==
  /\ pc = "bind" /\ queue = <<>> /\ diags # {}
  /\ pc' = "idle"
  /\ UNCHANGED <<disk, req, plan, queue, failed, phase, diags, path, history, count>>

-----------------------------------------------------------------------------
(* The process ends anywhere, in the middle of an operation included. *)
Crash ==
  /\ pc # "idle" /\ faults < MaxFaults
  /\ CASE AtWork /\ ~Skipped /\ Op.what.kind # "refuse" -> tree' \in Partial
       [] CanBind -> tree' \in PartialFixture
       [] OTHER -> UNCHANGED tree
  /\ bound' \in IF pc = "bind" /\ queue = <<>> THEN {bound, <<>>} ELSE {bound}
  /\ pc' = "idle" /\ Diagnose("CRASHED", <<>>) /\ faults' = faults + 1
  /\ IF pc = "work" THEN Touch ELSE UNCHANGED touched
  /\ UNCHANGED <<root, marker, req, plan, queue, failed, phase, path, gone, commands, deletions>>

(* node_modules is disposable: somebody removes an entry of it, a directory    *)
(* anywhere in it, all instances, or all of it.                              *)
Delete ==
  /\ pc = "idle" /\ deletions < MaxDeletions /\ root
  /\ \/ /\ \E dest \in Names(tree) \cup {x.dest : x \in {y \in tree : InProject(y.dest)}} \cup {Instances} :
            tree' = Without(tree, dest) /\ gone' = gone \cup {dest}
        /\ UNCHANGED <<root, marker>>
     \/ /\ tree' = Cleaned
        /\ root' = FALSE /\ marker' = NoMarker /\ UNCHANGED gone
  /\ deletions' = deletions + 1
  /\ path' = "none"
  /\ UNCHANGED <<bound, req, plan, pc, queue, failed, phase, diags, touched, commands, faults>>

Work == Skip \/ Perform \/ RefuseOperation \/ Prune \/ FailOperation
        \/ WriteMarker \/ FailMarker \/ GiveUp

Fix == FixturesDone \/ ReplaceFixtures \/ SkipFixture \/ RefuseFixture \/ BindFixture
       \/ FailFixture \/ WriteFixtureMarker \/ FailFixtureMarker \/ FixturesGiveUp

Command == RefuseCollision \/ TakeFastPath \/ TakeLongPath \/ RefuseClean \/ Clean \/ CleanFails
           \/ Work \/ Fix

Finished == pc = "idle" /\ commands = MaxCommands /\ UNCHANGED vars

Next ==
  \/ Begin
  \/ Command
  \/ Crash
  \/ Delete
  \/ Finished

Spec == Init /\ [][Next]_vars /\ WF_vars(Command)

-----------------------------------------------------------------------------
(* What is to be in the tree, but below a fixture, which may be bound where a   *)
(* root is linked.                                                          *)
Placed == PlacedBy(plan)

UnderFixture(dest) == \E spot \in FixtureSpots : AtOrUnder(dest, spot)

Whole == \A x \in Placed : x \in tree \/ UnderFixture(x.dest)

Succeeded(way) == pc = "idle" /\ path = way /\ diags = {}

(* The types of the variables, and a tree that has one item at a            *)
(* destination.                                                             *)
TypeOK ==
  /\ \A x, y \in tree : x.dest = y.dest => x = y
  /\ marker.state \in {"none", "written"}
  /\ req \in [clean : BOOLEAN, force : BOOLEAN]
  /\ pc \in {"idle", "begun", "clean", "work", "fixtures", "bind"}
  /\ path \in {"none", "fast", "long"}
  /\ root \in BOOLEAN
  /\ commands \in 0..MaxCommands /\ faults \in 0..MaxFaults /\ deletions \in 0..MaxDeletions

(* A sync that went the long way and reports nothing has put every package, *)
(* every link and every .bin of its lock in place, whatever failed or         *)
(* crashed before it and whatever was on disk.                               *)
SyncedIsWhole == Succeeded("long") => Whole /\ marker = MarkerOf(plan)

(* What the sanity check stats: the names of the roots and .bin, and where a name *)
(* leads among the instances; one name at least leads there while no other sync   *)
(* has changed where they lead.                                              *)
LookedAt(dest) ==
  \/ dest = Instances /\ touched = {}
  \/ \E name \in plan.visible \cup {Bins} :
       LET entry == Append(Project, name)
           end   == Follow(tree, entry)
       IN /\ entry \notin FixtureSpots
          /\ AtOrUnder(entry, dest) \/ (end[1] = "instance" /\ AtOrUnder(end, dest))

Disturbed(dest)  == \E d \in touched : AtOrUnder(dest, d)
Overlooked(dest) == \E d \in gone : AtOrUnder(dest, d) /\ ~LookedAt(d)

Accounted(x) == x \in tree \/ UnderFixture(x.dest) \/ Disturbed(x.dest) \/ Overlooked(x.dest)

(* A sync that the marker answered leaves the tree of its lock behind, but for    *)
(* what is not seen from the root: what somebody has deleted below the entries     *)
(* that markerSanityCheck stats ("intentionally not a full integrity verifier",    *)
(* docs/materialization.md:85-89), and what another sync had removed that did not  *)
(* come to its own marker (materialize.go:135-147 leaves the old one in place).     *)
VouchedIsWhole == Succeeded("fast") => \A x \in Placed : Accounted(x)

(* The marker has its type and vouches only for what is there or cannot be seen    *)
(* to be missing.                                                            *)
MarkerIsSound == TypeOK /\ VouchedIsWhole

(* After sync --clean, and after a long sync of a lock without instances, the *)
(* workspace's node_modules holds the plan and nothing else.                  *)
CleanIsExact ==
  Succeeded("long") /\ (req.clean \/ plan.nested) =>
    \A x \in tree : x.dest[1] = "root" =>
      x \in Placed \/ x.dest \in FixtureSpots

=============================================================================
