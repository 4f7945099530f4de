------------------------ MODULE MaterializationPlan ------------------------
(***************************************************************************)
(* What internal/materialize will put under node_modules for a lock: the    *)
(* plan that is compared with the marker, and the operations that carry it  *)
(* out, in order.                                                           *)
(*                                                                         *)
(* A destination is a sequence: a directory, then names, each the name of a *)
(* package in the node_modules of what precedes it.  Directories are        *)
(* <<"root">> for the workspace's node_modules, <<"member", c>> for the one  *)
(* of the member c, <<"instance", k>> for the private directory of an        *)
(* instance.                                                               *)
(* members is the set of packages of the graph that have a directory of     *)
(* their own.  A path is 0 (none), 1 (the workspace root) or a directory.   *)
(***************************************************************************)
EXTENDS Lockfile

CONSTANTS MaxDepth,       \* maxMaterializeDependencyDepth
          TypeProviders,  \* the names below @types/
          Commands        \* package id -> the names of its bin entries

Root == <<"root">>

(* safePackagePath refuses names that are no package names: here the empty *)
(* one.                                                                   *)
Safe(name) == name # 0

(* PackageStoreHash; 0 when the lock has neither hash. *)
IsLink(p) == p.source = "workspace" /\ p.path # 0

Known(lock, e) == e.to \in Ids(lock)
NameAt(lock, e) == Reference(e.ref, PackageOf(lock, e.to))

(* collectRootEdges *)
ByTarget(a, b) ==
  \/ a.from < b.from
  \/ a.from = b.from /\ a.to < b.to
  \/ a.from = b.from /\ a.to = b.to /\ a.kind # b.kind /\ a.kind = "dep"
  \/ a.from = b.from /\ a.to = b.to /\ a.kind = b.kind /\ a.ref < b.ref

RootEdges(lock) ==
  SetToSortSeq({e \in lock.edges : IsRoot(lock, e.from) /\ e.kind \notin PeerKinds}, ByTarget)

ChildEdges(lock, id) ==
  SetToSortSeq({e \in lock.edges : e.from = id /\ ~IsRoot(lock, e.from) /\ e.kind \notin PeerKinds},
               ByTarget)

RootVisible(lock) == {NameAt(lock, e) : e \in {x \in ToSet(RootEdges(lock)) : Known(lock, x)}}

-----------------------------------------------------------------------------
(* The plan of a lock without instances: every package below the one that  *)
(* needs it, a cycle cut at its second visit.                               *)

(* An entry's id is the instance it stands for, or two of them for a link.  *)
Entry(id, name, hash, dest, aliased) ==
  [id |-> id, name |-> name, hash |-> hash, dest |-> dest, aliased |-> aliased]

Plain(id) == InstanceId(id, {})

RECURSIVE Place(_, _, _, _, _)
Place(lock, plan, e, dir, stack) ==
  LET p == PackageOf(lock, e.to)
      name == NameAt(lock, e)
      dest == Append(dir, name)
      entry == Entry(<<Plain(p.id)>>, name, p.hash, dest, name # p.usage)
      descend == p.id \notin ToSet(stack) /\ Len(stack) < MaxDepth
  IN IF ~Known(lock, e) \/ ~Safe(name) \/ entry \in ToSet(plan) THEN plan
     ELSE IF ~descend THEN Append(plan, entry)
     ELSE FoldLeft(LAMBDA v, c : Place(lock, v, c, dest, Append(stack, p.id)),
                   Append(plan, entry), ChildEdges(lock, p.id))

NestedPlan(lock) ==
  FoldLeft(LAMBDA v, e : Place(lock, v, e, Root, <<>>), <<>>, RootEdges(lock))

-----------------------------------------------------------------------------
(* The plan of a lock with instances: one directory per instance, links for *)
(* its dependencies, links for the roots of every consumer.                 *)

InstancePath(lock, k) ==
  <<"instance", k, PackageOf(lock, lock.instances[k].package).usage>>

(* moduleRootLinkNodeModules *)
MemberDirectories(lock, members) ==
  members \cup {p.name : p \in {q \in lock.packages : q.path > 1}}

ContextOf(lock, members, r) ==
  IF r.ref \notin TypeProviders /\ Consumer(lock, r.from) \in MemberDirectories(lock, members)
  THEN <<"member", Consumer(lock, r.from)>> ELSE Root

(* sharedRuntimeProviders: a runtime root every consumer agrees on is also  *)
(* linked at the workspace root.                                            *)
Shared(lock, r) ==
  /\ \E s \in lock.rootInstances : s.kind = "runtime" /\ s.ref = r.ref
  /\ \A s \in lock.rootInstances : s.kind = "runtime" /\ s.ref = r.ref => s.instance = r.instance

Contexts(lock, members, r) ==
  {ContextOf(lock, members, r)} \cup (IF Shared(lock, r) THEN {Root} ELSE {})

LinkableRoots(lock) ==
  {r \in lock.rootInstances : r.instance \in DOMAIN lock.instances /\ Safe(r.ref)}

UsageOf(lock, k) == PackageOf(lock, lock.instances[k].package).usage

InstancePlan(lock, members) ==
  LET own == {Entry(<<k>>, UsageOf(lock, k), PackageOf(lock, k.package).hash, InstancePath(lock, k), FALSE)
                : k \in DOMAIN lock.instances}
      Links(k) == {Entry(<<k, d.instance>>, d.ref, 0, Append(InstancePath(lock, k), d.ref),
                         d.ref # UsageOf(lock, d.instance))
                     : d \in {x \in ToSet(lock.instances[k].dependencies) :
                                x.instance \in DOMAIN lock.instances /\ Safe(x.ref)}}
      Roots(r) == {Entry(<<r.instance>>, r.ref, 0, Append(c, r.ref), r.ref # UsageOf(lock, r.instance))
                     : c \in Contexts(lock, members, r)}
  IN own \cup UNION {Links(k) : k \in DOMAIN lock.instances}
         \cup UNION {Roots(r) : r \in LinkableRoots(lock)}

HasInstances(lock) == DOMAIN lock.instances # {}

(* buildMaterializationPlan; the digest of a plan is the plan. *)
Plan(lock, members) ==
  IF HasInstances(lock) THEN InstancePlan(lock, members) ELSE ToSet(NestedPlan(lock))

(* materializationPlanCollisionDiagnostics *)
Collisions(plan) ==
  {e.dest : e \in {x \in plan : \E y \in plan : y.dest = x.dest /\ y.id # x.id}}

-----------------------------------------------------------------------------
(* The operations, in order.  what is what the destination will hold: the  *)
(* artifact with a hash, a link to a workspace directory, a link to another  *)
(* destination; "refuse" is a diagnostic.                                   *)
Copy(p) == [kind |-> "artifact", hash |-> p.hash, to |-> <<>>]
LinkTo(dest) == [kind |-> "link", hash |-> 0, to |-> dest]
LinkToPath(path) == LinkTo(<<"workspace", path>>)
Refuse == [kind |-> "refuse", hash |-> 0, to |-> <<>>]

Realization(p) == IF IsLink(p) THEN LinkToPath(p.path) ELSE IF p.hash = 0 THEN Refuse ELSE Copy(p)

Operation(phase, dest, what) == [phase |-> phase, dest |-> dest, what |-> what]

(* materializePkg: like Place, but a workspace package is a link and is not *)
(* descended into, and a path that is too deep is an error.                 *)
RECURSIVE Carry(_, _, _, _, _)
Carry(lock, ops, e, dir, stack) ==
  LET p == PackageOf(lock, e.to)
      dest == Append(dir, NameAt(lock, e))
      leaf == p.id \in ToSet(stack)
      seen == \E i \in DOMAIN ops : ops[i].dest = dest
      deep == ~leaf /\ Len(stack) >= MaxDepth
      op == Operation(1, dest, IF deep THEN Refuse ELSE Realization(p))
  IN IF ~Known(lock, e) \/ ~Safe(NameAt(lock, e)) THEN Append(ops, Operation(1, Append(dir, 0), Refuse))
     ELSE IF seen THEN ops
     ELSE IF leaf \/ deep \/ op.what.kind # "artifact" THEN Append(ops, op)
     ELSE FoldLeft(LAMBDA v, c : Carry(lock, v, c, dest, Append(stack, p.id)),
                   Append(ops, op), ChildEdges(lock, p.id))

(* materializeRootBins: the packages visible in a directory, unless they are *)
(* there under another name only; two of them may want the same command.     *)
BinDirectory == 1

BinsOperation(phase, dir, visible, names) ==
  LET found == {p \in visible : p.usage \in names}
      conflict == \E p, q \in found : p.usage # q.usage /\ Commands[p.id] \cap Commands[q.id] # {}
  IN Operation(phase, Append(dir, BinDirectory),
               [kind |-> IF conflict THEN "conflict" ELSE "bins", hash |-> 0, to |-> <<>>])

(* Without instances: the packages, pruneNodeModulesRoot, the bins. *)
NestedOperations(lock) ==
  LET roots == RootEdges(lock)
      usable == {e \in ToSet(roots) : Known(lock, e) /\ Safe(NameAt(lock, e))}
  IN FoldLeft(LAMBDA v, e : Carry(lock, v, e, Root, <<>>), <<>>, roots)
     \o <<Operation(2, Root, [kind |-> "prune", hash |-> 0, to |-> <<>>]),
          BinsOperation(3, Root, {PackageOf(lock, e.to) : e \in usable},
                        {NameAt(lock, e) : e \in usable})>>

(* A fixed order on instances: the order of their records in the lock. *)
InOrder(S) == SetToSeq(S)

PeerOperation(lock, k, b) ==
  LET provider == {l \in ToSet(lock.instances[k].peers) : l.ref = b.ref}
  IN IF b.package = 0 \/ provider = {} THEN Operation(2, Append(InstancePath(lock, k), b.ref), Refuse)
     ELSE Operation(2, Append(InstancePath(lock, k), b.ref),
                    LinkTo(InstancePath(lock, (CHOOSE l \in provider : TRUE).instance)))

(* materializeModuleInstances: the instances, their links, the roots' links, *)
(* the bins of every directory with a root.  A phase is begun only when the   *)
(* one before it had no diagnostic.                                           *)
InstanceOperations(lock, members) ==
  LET keys == InOrder(DOMAIN lock.instances)
      Own(k) == Operation(1, InstancePath(lock, k), Realization(PackageOf(lock, k.package)))
      Dependencies(k) ==
        [i \in DOMAIN lock.instances[k].dependencies |->
           LET d == lock.instances[k].dependencies[i]
           IN Operation(2, Append(InstancePath(lock, k), d.ref), LinkTo(InstancePath(lock, d.instance)))]
      Needed(k) == InOrder({b \in k.peers : b.package # 0 \/ ~b.optional})
      Peers(k) == [i \in DOMAIN Needed(k) |-> PeerOperation(lock, k, Needed(k)[i])]
      Linked(k) == IF PackageOf(lock, k.package).source = "workspace" THEN <<>>
                   ELSE Dependencies(k) \o Peers(k)
      visible == UNION {{<<c, r>> : c \in Contexts(lock, members, r)} : r \in LinkableRoots(lock)}
      linked == InOrder(visible)
      dirs == InOrder({v[1] : v \in visible})
      In(dir) == {v[2] : v \in {x \in visible : x[1] = dir}}
  IN [i \in DOMAIN keys |-> Own(keys[i])]
     \o FlattenSeq([i \in DOMAIN keys |-> Linked(keys[i])])
     \o [i \in DOMAIN linked |-> Operation(3, Append(linked[i][1], linked[i][2].ref),
                                          LinkTo(InstancePath(lock, linked[i][2].instance)))]
     \o [i \in DOMAIN dirs |->
           BinsOperation(4, dirs[i], {PackageOf(lock, r.instance.package) : r \in In(dirs[i])},
                         {r.ref : r \in In(dirs[i])})]

Operations(lock, members) ==
  IF HasInstances(lock) THEN InstanceOperations(lock, members) ELSE NestedOperations(lock)

-----------------------------------------------------------------------------
(* buildTestFixtureProjections: the fixtures declared by test targets, as   *)
(* [from, ref, binding, mode, owner, path]: the target, its dependency, the   *)
(* name in the owner's node_modules, and the producer's directory in source  *)
(* mode.  Of two that want one destination the first declared one stands.     *)
FixtureEdges(lock, f) == {e \in lock.edges : e.from = f.from /\ e.ref = f.ref}

FixtureRoot(lock, f) == {r \in lock.rootInstances : r.from = f.from /\ r.ref = f.ref}

FixtureDestination(members, f) ==
  Append(IF f.owner \in members THEN <<"member", f.owner>> ELSE Root, f.binding)

FixtureSource(lock, f, e) ==
  IF f.mode = "source" THEN <<"workspace", f.path>>
  ELSE IF FixtureRoot(lock, f) = {} THEN Append(Root, NameAt(lock, e))
  ELSE InstancePath(lock, (CHOOSE r \in FixtureRoot(lock, f) : TRUE).instance)

FixtureProjections(lock, members, declared) ==
  LET Project(s, f) ==
        LET e == CHOOSE x \in FixtureEdges(lock, f) : TRUE
            dest == FixtureDestination(members, f)
            owner == {q \in ToSet(s.projections) : q.dest = dest}
        IN IF FixtureEdges(lock, f) = {} \/ ~Known(lock, e)
           THEN [s EXCEPT !.diagnostics = @ \cup {[code |-> "FIXTURE_PRODUCER", dest |-> dest]}]
           ELSE IF owner = {}
           THEN [s EXCEPT !.projections = Append(@, [dest |-> dest, producer |-> e.to, mode |-> f.mode,
                                                     source |-> FixtureSource(lock, f, e)])]
           ELSE IF \A q \in owner : q.producer = e.to THEN s
           ELSE [s EXCEPT !.diagnostics = @ \cup {[code |-> "FIXTURE_CONFLICT", dest |-> dest]}]
  IN FoldLeft(Project, [projections |-> <<>>, diagnostics |-> {}], declared)
=============================================================================
