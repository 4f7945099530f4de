------------------------------ MODULE Lockfile ------------------------------
(***************************************************************************)
(* ts-lock.toml as data, and what internal/lockfile computes from it: the   *)
(* module instances, the checks of a file that is read, its comparison      *)
(* with the manifest's graph and with another lock.                         *)
(*                                                                         *)
(* Strings that are compared are their rank in string order, 0 the empty   *)
(* one: a package's id and name, an edge's reference.  An edge comes from   *)
(* a package or from a root: roots gives a root's consumer and its section  *)
(* (target, test, dependency, tool, or peer for workspace:peer:).           *)
(* A lock is                                                               *)
(*   packages      [id, name, source, version, usage, hash, path], usage    *)
(*                 the name under which Node sees it (NodeUsage)            *)
(*   roots         root -> [consumer, section]                              *)
(*   edges         [from, to, kind, ref]                                    *)
(*   requirements  [id, of, source, name, ref, kind, optional, selected],   *)
(*                 selected 0 when no package was                           *)
(*   targets       [package, name, shape]                                   *)
(*   instances     id -> [package, peers, dependencies]                     *)
(*   rootInstances [from, ref, kind, instance]                              *)
(***************************************************************************)
EXTENDS Integers, Sequences, FiniteSets, Functions, SequencesExt

Ids(lock) == {p.id : p \in lock.packages}
PackageOf(lock, id) == CHOOSE p \in lock.packages : p.id = id
IsRoot(lock, from) == from \in DOMAIN lock.roots
Section(lock, from) == lock.roots[from].section
Consumer(lock, from) == lock.roots[from].consumer

PeerKinds == {"peer", "optionalPeer"}

(* moduleReference: the name in a node_modules directory. *)
Reference(ref, p) == IF p.source # "jsr" /\ ref # 0 THEN ref ELSE p.usage

-----------------------------------------------------------------------------
(* RebuildModuleInstances *)

ByReference(a, b) ==
  \/ a.from < b.from
  \/ a.from = b.from /\ a.ref < b.ref
  \/ a.from = b.from /\ a.ref = b.ref /\ a.to < b.to
  \/ a.from = b.from /\ a.ref = b.ref /\ a.to = b.to /\ a.kind # b.kind /\ a.kind = "dep"

ModuleRootEdges(lock) ==
  SetToSortSeq({e \in lock.edges : /\ IsRoot(lock, e.from)
                                   /\ Section(lock, e.from) # "peer"
                                   /\ e.to \in Ids(lock)
                                   /\ e.kind \notin PeerKinds}, ByReference)

RootPeerEdges(lock) ==
  SetToSortSeq({e \in lock.edges : /\ IsRoot(lock, e.from)
                                   /\ Section(lock, e.from) = "peer"
                                   /\ e.to \in Ids(lock)}, ByReference)

PackageEdges(lock, id) ==
  SetToSortSeq({e \in lock.edges : /\ e.from = id
                                   /\ e.kind \notin PeerKinds
                                   /\ e.to \in Ids(lock)}, ByReference)

PeerRequirements(lock, id) ==
  {r \in lock.requirements : r.kind = "peer" /\ r.of = id}

(* An environment gives the package a name stands for. *)
NoEnvironment == [n \in {} |-> 0]
Lookup(env, name) == IF name \in DOMAIN env THEN env[name] ELSE 0
With(env, name, id) == [n \in DOMAIN env \cup {name} |-> IF n = name THEN id ELSE env[n]]
IfAbsent(env, name, id) == IF name \in DOMAIN env THEN env ELSE With(env, name, id)

Bind(env, ref, p) == IfAbsent(IF ref # 0 THEN With(env, ref, p.id) ELSE env, p.name, p.id)

BindIfAbsent(env, ref, p) ==
  IfAbsent(IF ref # 0 THEN IfAbsent(env, ref, p.id) ELSE env, p.name, p.id)

BindEdges(lock, env, edges) ==
  FoldLeft(LAMBDA v, e : LET p == PackageOf(lock, e.to)
                         IN Bind(v, Reference(e.ref, p), p), env, edges)

(* moduleRootEnvironments, for one consumer; 0 is the fallback environment  *)
(* of a lock without roots.  Peers of the workspace and selected peer        *)
(* requirements provide what no root of the consumer does.                  *)
RootEnvironment(lock, consumer) ==
  LET own == SelectSeq(ModuleRootEdges(lock), LAMBDA e : Consumer(lock, e.from) = consumer)
      direct == BindEdges(lock, NoEnvironment, own)
      peers == FoldLeft(LAMBDA v, e : LET p == PackageOf(lock, e.to)
                                      IN BindIfAbsent(v, Reference(e.ref, p), p),
                        direct, RootPeerEdges(lock))
      selected == SetToSortSeq({r \in lock.requirements : r.kind = "peer" /\ r.selected # 0},
                               LAMBDA a, b : a.id < b.id)
  IN FoldLeft(LAMBDA v, r : BindIfAbsent(v, r.ref, PackageOf(lock, r.selected)), peers, selected)

(* effectivePeerBindings *)
Bindings(lock, id, env) ==
  {LET named == Lookup(env, r.ref)
       provider == IF named # 0 THEN named ELSE Lookup(env, r.name)
       found == /\ provider \in Ids(lock)
                /\ PackageOf(lock, provider).source = r.source
                /\ PackageOf(lock, provider).name = r.name
   IN [ref |-> r.ref, source |-> r.source, name |-> r.name, optional |-> r.optional,
       package |-> IF found THEN provider ELSE 0] : r \in PeerRequirements(lock, id)}

(* packageidentity.NewModuleInstance: a package under one peer context. *)
InstanceId(id, bindings) == [package |-> id, peers |-> bindings]

Added(instances, key, record) ==
  [k \in DOMAIN instances \cup {key} |-> IF k = key THEN record ELSE instances[k]]

(* instantiate: the instance is entered before its dependencies, so that a *)
(* cycle finds it; its dependencies see its own edges and bound peers, its   *)
(* peers' providers what it sees itself.                                    *)
ChildEnvironment(lock, id, env, bound) ==
  FoldLeft(LAMBDA v, b : Bind(v, b.ref, PackageOf(lock, b.package)),
           BindEdges(lock, env, PackageEdges(lock, id)), bound)

BoundPeers(lock, id, env) ==
  SetToSortSeq({b \in Bindings(lock, id, env) : b.package # 0}, LAMBDA a, b : a.ref < b.ref)

Named(refs, keys) == [i \in DOMAIN keys |-> [ref |-> refs[i], instance |-> keys[i]]]

RECURSIVE Instantiate(_, _, _, _), InstantiateEach(_, _, _, _)

InstantiateEach(lock, instances, ids, env) ==
  IF ids = <<>> THEN [instances |-> instances, keys |-> <<>>]
  ELSE LET first == Instantiate(lock, instances, Head(ids), env)
           rest == InstantiateEach(lock, first.instances, Tail(ids), env)
       IN [instances |-> rest.instances, keys |-> <<first.id>> \o rest.keys]

Instantiate(lock, instances, id, env) ==
  LET key == InstanceId(id, Bindings(lock, id, env))
      bound == BoundPeers(lock, id, env)
      edges == PackageEdges(lock, id)
      deps == InstantiateEach(lock, Added(instances, key, [package |-> id, peers |-> <<>>, dependencies |-> <<>>]),
                              [i \in DOMAIN edges |-> edges[i].to],
                              ChildEnvironment(lock, id, env, bound))
      peers == InstantiateEach(lock, deps.instances, [i \in DOMAIN bound |-> bound[i].package], env)
  IN IF key \in DOMAIN instances THEN [id |-> key, instances |-> instances]
     ELSE [id |-> key,
           instances |-> Added(peers.instances, key,
             [package |-> id,
              peers |-> Named([i \in DOMAIN bound |-> bound[i].ref], peers.keys),
              dependencies |-> Named([i \in DOMAIN edges |->
                 Reference(edges[i].ref, PackageOf(lock, edges[i].to))], deps.keys)])]

NoInstances == [k \in {} |-> {}]

RebuildModuleInstances(lock) ==
  LET FromRoot(s, e) ==
        LET r == Instantiate(lock, s[1], e.to, RootEnvironment(lock, Consumer(lock, e.from)))
        IN <<r.instances,
             s[2] \cup {[from |-> e.from, ref |-> Reference(e.ref, PackageOf(lock, e.to)),
                         kind |-> e.kind, instance |-> r.id]}>>
      rooted == FoldLeft(FromRoot, <<NoInstances, {}>>, ModuleRootEdges(lock))
      fallback == IF ModuleRootEdges(lock) = <<>> THEN RootEnvironment(lock, 0) ELSE NoEnvironment
      Rest(s, id) ==
        IF \E k \in DOMAIN s : k.package = id THEN s ELSE Instantiate(lock, s, id, fallback).instances
  IN [lock EXCEPT !.instances = FoldLeft(Rest, rooted[1], SetToSortSeq(Ids(lock), <)),
                  !.rootInstances = rooted[2]]

-----------------------------------------------------------------------------
(* validate: the diagnostics of a lock that was read, those that relate its *)
(* records.  Formats of single fields are left out.                         *)
InstanceDiagnostics(lock) ==
  (IF \A k \in DOMAIN lock.instances : lock.instances[k].package \in Ids(lock)
   THEN {} ELSE {"MODULE_INSTANCE_UNKNOWN_PACKAGE"})
  \cup (IF \A k \in DOMAIN lock.instances : \A b \in k.peers : b.package # 0 => b.package \in Ids(lock)
        THEN {} ELSE {"PEER_BINDING_UNKNOWN_PACKAGE"})
  \cup (IF \A k \in DOMAIN lock.instances : k.package = lock.instances[k].package
        THEN {} ELSE {"MODULE_INSTANCE_IDENTITY_MISMATCH"})

Validate(lock) ==
  InstanceDiagnostics(lock)
  \cup (IF \A e \in lock.edges : e.to \in Ids(lock) THEN {} ELSE {"UNKNOWN_PACKAGE_REF"})
  \cup (IF \A p, q \in lock.packages : p.id = q.id => p = q THEN {} ELSE {"DUPLICATE_PACKAGE"})
  \cup (IF \A p \in lock.packages : p.source \in {"npm", "jsr"} => p.version # 0
        THEN {} ELSE {"INVALID_PACKAGE"})
  \cup (IF \A s, t \in lock.targets : s.package = t.package /\ s.name = t.name => s = t
        THEN {} ELSE {"DUPLICATE_TARGET"})

(* DiffLockfiles, of records and the key of each. *)
DiffOf(old, next, key) ==
  LET olds == {key[r] : r \in old}
      nexts == {key[r] : r \in next}
  IN [added |-> {r \in next : key[r] \notin olds},
      removed |-> {r \in old : key[r] \notin nexts},
      changed |-> {<<o, n>> \in old \X next : key[o] = key[n] /\ o # n}]

InstanceRecords(lock) == {<<k, lock.instances[k]>> : k \in DOMAIN lock.instances}

DiffLockfiles(old, next) ==
  LET instances == InstanceRecords(old) \cup InstanceRecords(next)
  IN [packages |-> DiffOf(old.packages, next.packages, [p \in old.packages \cup next.packages |-> p.id]),
      instances |-> DiffOf(InstanceRecords(old), InstanceRecords(next), [r \in instances |-> r[1]]),
      requirements |-> DiffOf(old.requirements, next.requirements,
                              [r \in old.requirements \cup next.requirements |-> r.id]),
      edges |-> DiffOf(old.edges, next.edges, [e \in old.edges \cup next.edges |-> e]),
      targets |-> DiffOf(old.targets, next.targets, [t \in old.targets \cup next.targets |-> <<t.package, t.name>>])]

Differs(d) == d.added # {} \/ d.removed # {} \/ d.changed # {}
HasPackageChanges(d) == Differs(d.packages) \/ Differs(d.instances)

-----------------------------------------------------------------------------
(* The instances of a rebuilt lock are closed under dependencies and bound    *)
(* peers, there is one for every package, what they are bound to is what they  *)
(* lead to, a package that a consumer depends on itself provides its own peer,  *)
(* and rebuilding again changes nothing.                                     *)
InstancesAreClosed(lock) ==
  LET next == RebuildModuleInstances(lock)
      leads(list) == {<<list[i].ref, list[i].instance.package>> : i \in DOMAIN list}
      own(r, b) == {e.to : e \in {x \in ToSet(ModuleRootEdges(lock)) :
                                   LET p == PackageOf(lock, x.to)
                                   IN /\ Consumer(lock, x.from) = Consumer(lock, r.from)
                                      /\ Reference(x.ref, p) = b.ref /\ p.name = b.name}}
  IN /\ Validate(next) = Validate(lock)
     /\ {k.package : k \in DOMAIN next.instances} = Ids(lock)
     /\ \A k \in DOMAIN next.instances :
          LET record == next.instances[k]
          IN /\ {d.instance : d \in ToSet(record.dependencies \o record.peers)} \subseteq DOMAIN next.instances
             /\ leads(record.peers) = {<<b.ref, b.package>> : b \in {c \in k.peers : c.package # 0}}
     /\ \A r \in next.rootInstances :
          /\ r.instance \in DOMAIN next.instances
          /\ \A b \in r.instance.peers : own(r, b) # {} => b.package \in own(r, b)
     /\ RebuildModuleInstances(next) = next

(* A difference between two locks says exactly how to make the one of the      *)
(* other, and no store has to be filled for one without package changes        *)
(* (update_operation.go downloads only for those).                           *)
DiffIsExact(old, next) ==
  LET d == DiffLockfiles(old, next)
      applied(set, change) == (set \ (change.removed \cup {c[1] : c \in change.changed}))
                                \cup change.added \cup {c[2] : c \in change.changed}
  IN /\ applied(old.packages, d.packages) = next.packages
     /\ applied(InstanceRecords(old), d.instances) = InstanceRecords(next)
     /\ applied(old.edges, d.edges) = next.edges
     /\ ~HasPackageChanges(d) =>
          {p.hash : p \in next.packages} = {p.hash : p \in old.packages} /\ next.instances = old.instances

-----------------------------------------------------------------------------
(***************************************************************************)
(* tspack why: what a dependency, a target or a locked package is there for, *)
(* from the manifest and along the edges of the lockfile (internal/why).     *)
(*                                                                         *)
(* Here a lock is [packages, edges, requirements], with names that are        *)
(* sequences: <<name>>, <<source, name>>, <<source, name, version>> for a     *)
(* locked package, and <<package, "target", target>> or <<package, "tool">>   *)
(* for a root; an edge is [from, to, kind, optional, reference].  A workspace *)
(* is a set of packages [name, dependencies, targets]; a dependency is [key,  *)
(* source, name, kind, runtime, peer], the last two the targets that list it. *)
(***************************************************************************)
Identity(id) == <<id[1], id[2]>>
TargetRoot(package, target) == <<package.name, "target", target>>
ToolRoot(package) == <<package.name, "tool">>

-----------------------------------------------------------------------------
(* Forward: from roots along the edges.                                       *)

(* reachableLockEdges: breadth first; a package is expanded once.              *)
ReachableLockEdges(lock, rootEdges) ==
  LET after[n \in Nat] ==
        IF n = 0 THEN rootEdges
        ELSE after[n - 1] \cup {e \in lock.edges : \E f \in after[n - 1] : f.to = e.from}
  IN after[Cardinality(lock.packages)]

(* addScopedLockDetails.                                                      *)
Details(lock, rootEdges) ==
  LET edges == ReachableLockEdges(lock, rootEdges)
  IN [edges |-> edges, packages |-> {e.to : e \in edges} \cap lock.packages]

(* dependencyRootFromValues, lockEdgesFromRootsToPackages.                     *)
DependencyRoots(package, dependency) ==
  {TargetRoot(package, t) : t \in dependency.runtime \cup dependency.peer}
    \cup (IF dependency.kind = "tool" THEN {ToolRoot(package)} ELSE {})

DependencyRootEdges(lock, package, dependency) ==
  {e \in lock.edges : /\ e.from \in DependencyRoots(package, dependency)
                      /\ e.to \in lock.packages /\ Identity(e.to) = <<dependency.source, dependency.name>>}

Explanation(match, package, name, details, direct) ==
  [match |-> match, package |-> package, name |-> name, edges |-> details.edges, packages |-> details.packages,
   direct |-> direct]

Asks(query, dependency) ==
  query \in {<<dependency.key>>, <<dependency.name>>, <<dependency.source, dependency.name>>}

DeclaredFor(workspace, lock, query) ==
  UNION {{Explanation("dependency", p.name, d.key, Details(lock, DependencyRootEdges(lock, p, d)), FALSE) :
            d \in {x \in p.dependencies : Asks(query, x)}} : p \in workspace}

Targets(workspace, lock, query) ==
  UNION {{Explanation("target", p.name, t, Details(lock, {e \in lock.edges : e.from = TargetRoot(p, t)}), FALSE) :
            t \in {x \in p.targets : <<x>> = query}} : p \in workspace}

(* A locked package by its identity: the edges that touch it, and whether a     *)
(* target depends on it directly.  A tool of the project does not count.        *)
Locked(lock, query) ==
  {Explanation("lock-package", "", "",
     [edges |-> {e \in lock.edges : query \in {e.from, e.to}}, packages |-> {id}],
     \E e \in lock.edges : e.to = query /\ Len(e.from) = 3 /\ e.from[2] = "target") :
     id \in {i \in lock.packages : i = query}}

Aliases(lock, query) ==
  {Explanation("alias-reference", "", e.to[2], [edges |-> {e}, packages |-> {e.to}], FALSE) :
     e \in {x \in lock.edges : <<x.reference>> = query /\ x.to \in lock.packages}}

Requirements(lock, query) ==
  LET matching == {r \in lock.requirements : query \in {<<r.reference>>, <<r.name>>, <<r.source, r.name>>}}
  IN IF matching = {} THEN {}
     ELSE {Explanation("requirement", "", "",
             [edges |-> {}, packages |-> {id \in lock.packages : \E r \in matching : id = <<r.source, r.name, r.selected>>}],
             FALSE)}

(* Analyze: what is found earlier hides what would be found later.             *)
Analyze(workspace, lock, query, filter) ==
  LET asked == {p \in workspace : filter \in {"", p.name}}
      first == DeclaredFor(asked, lock, query) \cup Targets(asked, lock, query) \cup Locked(lock, query)
  IN CASE first # {} -> first
       [] first = {} /\ Aliases(lock, query) # {} -> Aliases(lock, query)
       [] OTHER -> Requirements(lock, query)

-----------------------------------------------------------------------------
(* Reverse: from a package against the edges, up to what is no package.         *)

(* reverseQueryLockPackages.                                                  *)
ReverseQuery(workspace, lock, query) ==
  LET named == {id \in lock.packages : query \in {<<id[2]>>, Identity(id)}}
      keyed == UNION {{<<d.source, d.name>> : d \in {x \in p.dependencies : <<x.key>> = query}} : p \in workspace}
  IN CASE query \in lock.packages -> {query}
       [] query \notin lock.packages /\ named # {} -> named
       [] OTHER -> IF Cardinality(keyed) = 1 THEN {id \in lock.packages : Identity(id) \in keyed} ELSE {}

RootBelongsToPackage(root, filter) == filter \in {"", root[1]}

IncomingEdges_Required(lock, id) == {e \in lock.edges : e.to = id /\ ~e.optional}

IncomingEdges(lock, id) == {e \in lock.edges : e.to = id}

(* walkReversePaths: no package twice on one path.                              *)
RECURSIVE WalkReversePaths(_, _, _, _)
WalkReversePaths(lock, path, filter, visited) ==
  LET from == {e.from : e \in IncomingEdges(lock, Head(path))}
      roots == {f \in from \ lock.packages : RootBelongsToPackage(f, filter)}
      inner == (from \cap lock.packages) \ visited
  IN {<<r>> \o path : r \in roots}
     \cup UNION {WalkReversePaths(lock, <<f>> \o path, filter, visited \cup {f}) : f \in inner}

ReversePaths(workspace, lock, query, filter) ==
  UNION {WalkReversePaths(lock, <<id>>, filter, {id}) : id \in ReverseQuery(workspace, lock, query)}

-----------------------------------------------------------------------------
(* The two directions agree: what a target is said to lock is exactly what      *)
(* names that target as a root when asked in reverse; a dependency is said to    *)
(* lock only what one of its own roots leads to; the paths of a package are all   *)
(* the chains from a root to it and nothing else; and a filter keeps the paths    *)
(* of its package (docs/why.md).                                              *)
IsChain(lock, path, id) ==
  /\ Last(path) = id /\ Head(path) \notin lock.packages
  /\ \A i, j \in DOMAIN path : path[i] = path[j] => i = j
  /\ \A i \in 2 .. Len(path) : path[i] \in lock.packages /\ \E e \in lock.edges : e.from = path[i - 1] /\ e.to = path[i]

Chains(lock, id) ==
  LET nodes == {e.from : e \in lock.edges} \cup lock.packages
  IN {path \in UNION {[1 .. n -> nodes] : n \in 2 .. Cardinality(lock.packages) + 1} : IsChain(lock, path, id)}

WhyAgrees(workspace, lock) ==
  LET paths == [id \in lock.packages |-> ReversePaths(workspace, lock, id, "")]
      led(roots) == {id \in lock.packages : \E path \in paths[id] : Head(path) \in roots}
  IN /\ \A id \in lock.packages : paths[id] = Chains(lock, id)
     /\ \A p \in workspace :
          /\ \A t \in p.targets : \A x \in Analyze(workspace, lock, <<t>>, p.name) :
               x.match = "target" => x.packages = led({TargetRoot(p, t)})
          /\ \A d \in p.dependencies : \A x \in Analyze(workspace, lock, <<d.key>>, p.name) :
               x.match = "dependency" /\ x.name = d.key => x.packages \subseteq led(DependencyRoots(p, d))
          /\ \A id \in lock.packages :
               ReversePaths(workspace, lock, id, p.name) = {path \in paths[id] : Head(path)[1] = p.name}
=============================================================================
