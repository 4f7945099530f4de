-------------------------- MODULE MCMaterializer --------------------------
(***************************************************************************)
(* Materializer for the locks of a small workspace.  The application 1 is   *)
(* at the root, the member 2 has a directory.  Packages are 11 (needs 12,    *)
(* and 13 as a peer), its later version 21, 12, 13, and the workspace        *)
(* package 31, which a test of the application takes as a fixture.           *)
(***************************************************************************)
EXTENDS Materializer

P == INSTANCE MaterializationPlan WITH
  MaxDepth <- 4, TypeProviders <- {}, Commands <- [id \in 0..31 |-> IF id \in {11, 14} THEN {1} ELSE {}]

Package(id, name, source, dir) ==
  [id |-> id, name |-> name, source |-> source, version |-> 1, usage |-> name, hash |-> id, path |-> dir]
npm(id, name) == Package(id, name, "npm", 0)
Edge(from, to, kind, ref) == [from |-> from, to |-> to, kind |-> kind, ref |-> ref]

(* Roots 101: a target of 1; 102: a test of 1; 103: a target of 2. *)
RootsOf == [r \in 101..103 |->
  [consumer |-> IF r = 103 THEN 2 ELSE 1, section |-> IF r = 102 THEN "test" ELSE "target"]]

Peer(of, name) ==
  [id |-> of, of |-> of, source |-> "npm", name |-> name, ref |-> name, kind |-> "peer",
   optional |-> FALSE, status |-> "ok", selected |-> 0]

Lock(packages, edges, requirements) ==
  [packages |-> packages, roots |-> RootsOf, edges |-> edges, requirements |-> requirements,
   targets |-> {}, instances |-> P!NoInstances, rootInstances |-> {}]

LockOne == P!RebuildModuleInstances(Lock({npm(11, 11), npm(12, 12), npm(13, 13)},
  {Edge(101, 11, "runtime", 11), Edge(11, 12, "dep", 12), Edge(103, 13, "runtime", 13),
   Edge(102, 13, "test", 13)}, {Peer(11, 13)}))

LockTwo == P!RebuildModuleInstances(Lock({npm(21, 11), Package(31, 31, "workspace", 3)},
  {Edge(101, 21, "runtime", 11), Edge(102, 31, "test", 31)}, {}))

(* A lock of an earlier tspack, with a cycle. *)
LockOld == Lock({npm(11, 11), npm(12, 12)},
  {Edge(101, 11, "runtime", 11), Edge(11, 12, "dep", 12), Edge(12, 11, "dep", 11),
   Edge(102, 12, "test", 12)}, {})

(* Two roots with one command, and a package without a hash. *)
LockBad == Lock({npm(11, 11), npm(14, 14), [npm(13, 13) EXCEPT !.hash = 0]},
  {Edge(101, 11, "runtime", 11), Edge(101, 14, "runtime", 14), Edge(14, 13, "dep", 13)}, {})

(* Two packages under one name. *)
LockClash == P!RebuildModuleInstances(Lock({npm(11, 11), [npm(12, 12) EXCEPT !.usage = 11]},
  {Edge(101, 11, "runtime", 11), Edge(101, 12, "runtime", 11)}, {}))

Data == [l \in {"one", "two", "old", "bad", "clash"} |->
  CASE l = "one" -> LockOne [] l = "two" -> LockTwo [] l = "old" -> LockOld [] l = "bad" -> LockBad [] OTHER -> LockClash]
Members == {2}

CONSTANT FixtureBinding

(* The fixtures of the tests: the workspace package's directory under        *)
(* FixtureBinding, a copy of 13 under 42, 12 where it is anyway.              *)
Fixture102(ref, binding, mode) ==
  <<[from |-> 102, ref |-> ref, binding |-> binding, mode |-> mode, owner |-> 1, path |-> 3]>>
Declared == [l \in {"one", "two", "old", "bad", "clash"} |->
  CASE l = "one" -> Fixture102(13, 42, "package") [] l = "two" -> Fixture102(31, FixtureBinding, "source")
    [] l = "old" -> Fixture102(12, 12, "package") [] OTHER -> <<>>]

Layout(lock, declared) ==
  LET entries == P!Plan(lock, Members)
      bindings == P!FixtureProjections(lock, Members, declared)
  IN [digest |-> entries, collides |-> P!Collisions(entries) # {}, nested |-> ~P!HasInstances(lock),
      operations |-> P!Operations(lock, Members), visible |-> P!RootVisible(lock),
      fixtures |-> bindings.projections, refused |-> bindings.diagnostics]

MCLayoutOf == [l \in Locks |-> Layout(Data[l], Declared[l])]

(* The layouts of more locks: some edges among two packages and a workspace  *)
(* package, with and without instances, and a root of the application.        *)
ManyEdges ==
  {Edge(101, 11, "runtime", 11), Edge(101, 12, "runtime", 12), Edge(101, 31, "runtime", 31),
   Edge(102, 12, "test", 12), Edge(103, 12, "runtime", 12),
   Edge(11, 12, "dep", 12), Edge(12, 11, "dep", 11), Edge(11, 31, "dep", 31)}

ManyLocks ==
  {Lock({npm(11, 11), npm(12, 12), Package(31, 31, "workspace", 3)}, edges, {}) :
     edges \in {E \in SUBSET ManyEdges : \E e \in E : e.from = 101}}

ManyLayouts ==
  {p \in {Layout(lock, <<>>) : lock \in ManyLocks \cup {P!RebuildModuleInstances(l) : l \in ManyLocks}} :
     ~p.collides}

ASSUME LayoutsAreSound ==
  /\ \A p \in ManyLayouts : SoundLayout(p)
  /\ \A p, q \in ManyLayouts :
       p.digest = q.digest => PlacedBy(p) = PlacedBy(q) /\ p.visible = q.visible

MCFixtureSpots == {<<"root", name>> : name \in {FixtureBinding, 42}}

(* Nothing, a node_modules of another tool, or somebody's own directory      *)
(* where the fixture is to be.                                              *)
Stray(dest) == [dest |-> dest, what |-> [kind |-> "foreign", hash |-> 0, to |-> <<>>]]
MCInitialTrees == {{}, {Stray(<<"root", 11>>), Stray(<<"root", 99>>)}, {Stray(<<"root", FixtureBinding>>)}}

=============================================================================
