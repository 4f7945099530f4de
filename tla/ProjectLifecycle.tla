-------------------------- MODULE ProjectLifecycle --------------------------
(***************************************************************************)
(* tspack add, remove, update and sync (internal/project) over what they    *)
(* share with each other and with the user: the manifest's source, the      *)
(* lockfile, the store and node_modules.                                   *)
(*                                                                         *)
(* One command runs at a time; meanwhile the user may edit the manifest,    *)
(* the registry may publish, an operation may fail, and the process may be  *)
(* killed.  The manifest is the sequence of its declarations; the lockfile  *)
(* is read and compared as data, and may hold a name at several versions    *)
(* (module Resolver has the resolver's own steps, modules Store and         *)
(* Materializer those of the store and of node_modules).                    *)
(***************************************************************************)
EXTENDS Integers, Sequences, FiniteSets, FiniteSetsExt, SequencesExt, Functions

CONSTANTS
  Names,        \* registry packages
  Versions,     \* a finite set of positive integers
  RequiresOf,   \* what a version requires: [name, version] -> set of [name, range]
  Listed,       \* the names a build target lists; the others are plain dependencies
  Manifests,    \* the sources a user writes: sequences of [name, range]
  Commands,     \* [op, name, range] a user runs; name "" is a full update
  Declared,     \* the manifest declares registry endpoints
  MaxEdits, MaxPublished, MaxFailures, MaxCommands

Id(name, version) == [name |-> name, version |-> version]
Ids == [name : Names, version : Versions]
Asked == [name : Names, range : SUBSET Versions]

ASSUME LifecycleAssumption ==
  /\ IsFiniteSet(Names)
  /\ IsFiniteSet(Versions) /\ Versions \subseteq Nat \ {0} /\ Versions # {}
  /\ RequiresOf \in [Ids -> SUBSET Asked]
  /\ Manifests \subseteq Seq(Asked)
  /\ \A c \in Commands : c.range \subseteq Versions /\ (c.op = "add" => c.name \in Names)
  /\ {MaxEdits, MaxPublished, MaxFailures, MaxCommands} \subseteq Nat

VARIABLES
  manifest,     \* the source on disk
  lock,         \* the lockfile on disk
  stored,       \* packages the store holds
  installed,    \* what sync put in node_modules: the root links
  published,    \* name -> versions
  command,      \* the running command, or its outcome
  spent         \* bounds: edits, publications, failures and commands so far

vars == <<manifest, lock, stored, installed, published, command, spent>>

-----------------------------------------------------------------------------
(* A lock, and the resolution that computes one *)

Root(name) == Id(IF name \in Listed THEN "target" ELSE "dependency", 0)
IsRoot(from) == from.version = 0

(* isLifecycleRootEdge: `:target:`, `:test:` and `:tool` roots. *)
IsLifecycleRoot(from) == from = Id("target", 0)

NoLock == [state |-> "missing", packages |-> << >>, edges |-> {}, requirements |-> {}, links |-> {}]
Torn == [NoLock EXCEPT !.state = "torn"]
Packages(l) == DOMAIN l.packages

(* Module instances are derived from the root edges: a link of node_modules *)
(* for each.                                                                *)
RebuildModuleInstances(l) == [l EXCEPT !.links = {e \in l.edges : IsRoot(e.from)}]

(* ValidatePackages: a name is declared once; every command refuses other     *)
(* manifests when it loads one.                                              *)
Valid(decls) == \A i, j \in DOMAIN decls : decls[i].name = decls[j].name => i = j

Declares(decls, name) == \E i \in DOMAIN decls : decls[i].name = name
Candidates(seen, r) == seen[r.name] \cap r.range

(* Every requirement selects by its own range: only requests of the manifest *)
(* share a controller, and a manifest declares a name once.                  *)
Choice(seen, r) == Id(r.name, Max(Candidates(seen, r)))

Children(p) == RequiresOf[p]

Selectable(seen, rs) == \A r \in rs : Candidates(seen, r) # {}

(* What some packages lead to in steps that keep the packages they start from: *)
(* there are no more steps than packages.                                    *)
Reach(start, step) ==
  LET level[n \in 0..Cardinality(Ids)] == IF n = 0 THEN start ELSE step[level[n - 1]]
  IN level[Cardinality(Ids)]

Chosen(seen, rs) == {Choice(seen, r) : r \in {q \in rs : Selectable(seen, {q})}}

Required(ids) == UNION {Children(p) : p \in ids}

Resolved(decls, seen) ==
  Reach(Chosen(seen, Range(decls)),
        [ids \in SUBSET Ids |-> ids \cup Chosen(seen, Required(ids))])

Resolvable(decls, seen) ==
  /\ Selectable(seen, {decls[i] : i \in DOMAIN decls})
  /\ \A p \in Resolved(decls, seen) : Selectable(seen, Children(p))

Requirement(from, r, to) == [of |-> from, name |-> r.name, range |-> r.range, selected |-> to.version]

Resolution(decls, seen, endpoint) ==
  LET ids == Resolved(decls, seen)
      roots == {<<Root(decls[i].name), decls[i]>> : i \in DOMAIN decls}
      asks == roots \cup UNION {{<<p, r>> : r \in Children(p)} : p \in ids}
      to(a) == Choice(seen, a[2])
  IN RebuildModuleInstances(
       [state |-> "whole",
        packages |-> [p \in ids |-> endpoint],
        edges |-> {[from |-> a[1], to |-> to(a)] : a \in asks},
        requirements |-> {Requirement(a[1], a[2], to(a)) : a \in asks},
        links |-> {}])

-----------------------------------------------------------------------------
(* Targeted update *)

(* preserveNonSelectedNPMLocks: the other declarations are resolved at the *)
(* version that is locked for their name, if a root of the lock has one.    *)
LockedVersions(l, name) ==
  {e.to.version : e \in {x \in l.edges : IsLifecycleRoot(x.from) /\ x.to.name = name}}

Pinned(decls, l, query) ==
  [i \in DOMAIN decls |->
     IF decls[i].name = query \/ LockedVersions(l, decls[i].name) = {} THEN decls[i]
     ELSE [decls[i] EXCEPT !.range = LockedVersions(l, decls[i].name)]]

(* packageClosureForNames *)
ClosureForName(l, query) ==
  Reach({e.to : e \in {x \in l.edges : IsLifecycleRoot(x.from) /\ x.to.name = query}},
        [ids \in SUBSET Ids |-> ids \cup {e.to : e \in {x \in l.edges : x.from \in ids}}])

Touches(e, closure) == e.from \in closure \/ e.to \in closure

(* Mutant: packages of the old lock are dropped, edges and requirements kept. *)
Preserved_NoPackages(old, next, query) ==
  LET closure == ClosureForName(old, query) \cup ClosureForName(next, query)
  IN [next EXCEPT !.edges = {e \in @ : Touches(e, closure)} \cup {e \in old.edges : ~Touches(e, closure)}]

(* preserveNonSelectedTargetedLockEntries: the clone of the resolved lock   *)
(* keeps the instances that were rebuilt for it.                            *)
Preserved(old, next, query) ==
  LET closure == ClosureForName(old, query) \cup ClosureForName(next, query)
      kept == Packages(old) \ closure
      chosen(r) == r.name = query \/ r.of \in closure
      same(r, q) == r.of = q.of /\ r.name = q.name
      oldOr(r) == IF \E q \in old.requirements : same(r, q)
                  THEN CHOOSE q \in old.requirements : same(r, q) ELSE r
  IN [next EXCEPT
        !.packages = [p \in Packages(next) \cup kept |-> IF p \in kept THEN old.packages[p] ELSE @[p]],
        !.edges = {e \in @ : Touches(e, closure)} \cup {e \in old.edges : ~Touches(e, closure)},
        !.requirements = {IF chosen(r) THEN r ELSE oldOr(r) : r \in @}
                         \cup {q \in old.requirements : ~chosen(q) /\ ~\E r \in next.requirements : same(r, q)}]

(* Mutant: only a link that moves is a change of packages. *)
HasPackageChanges_Links(old, next) == old.links # next.links

HasPackageChanges(old, next) == old.packages # next.packages \/ old.links # next.links
HasRequirementChanges(old, next) == old.requirements # next.requirements

-----------------------------------------------------------------------------
(* Authoring: the edit of a manifest is aimed at an element of the source   *)
(* by the declaration's index in the manifest that was loaded.              *)

IndexOf(decls, name) == CHOOSE i \in DOMAIN decls : decls[i].name = name
FromVersion(v) == {w \in Versions : w >= v}

(* Add appends, Replace and Remove take the element at the index; an index *)
(* outside the source refuses the projection.                               *)
Applies(edit, source) == edit.kind = "added" \/ edit.index \in DOMAIN source
Projected(edit, source) ==
  CASE edit.kind = "added" -> Append(source, edit.declaration)
    [] edit.kind = "changed" -> [source EXCEPT ![edit.index] = edit.declaration]
    [] edit.kind = "removed" -> RemoveAt(source, edit.index)

-----------------------------------------------------------------------------
Idle == [pc |-> "idle"]
Running == command.pc \notin {"idle", "done", "failed", "killed"}

Init ==
  /\ manifest \in Manifests
  /\ lock = NoLock /\ stored = {} /\ installed = {}
  /\ published = [n \in Names |-> {Min(Versions)}]
  /\ command = Idle
  /\ spent = [edits |-> 0, published |-> 0, failures |-> 0, commands |-> 0]

Spend(what, max) == spent[what] < max /\ spent' = [spent EXCEPT ![what] = @ + 1]

Fail(code) == command' = [command EXCEPT !.pc = "failed", !.code = code]
To(pc) == command' = [command EXCEPT !.pc = pc]
Files == <<manifest, lock, stored, installed, published>>

(* newDependencyEditMemoBackends: add and remove ask the registry once for  *)
(* a name; memo holds the answers.                                          *)
Edits == command.op \in {"add", "remove"}
Seen == [n \in Names |-> IF n \in DOMAIN command.memo THEN command.memo[n] ELSE published[n]]

(* Mutant: add's update asks the registry again. *)
Remember_Nothing(asked) == command.memo

Remember(asked) ==
  IF Edits THEN [n \in DOMAIN command.memo \cup asked |-> Seen[n]] ELSE command.memo

Start(c) ==
  /\ ~Running
  /\ Spend("commands", MaxCommands)
  /\ command' = [pc |-> "load", op |-> c.op, name |-> c.name, range |-> c.range, code |-> "",
                 base |-> manifest, original |-> manifest, planned |-> manifest,
                 before |-> lock, memo |-> << >>, next |-> NoLock, preview |-> NoLock, users |-> manifest]
  /\ UNCHANGED Files

(* RunAddDependency and RunRemoveDependency up to the semantic edit.  add   *)
(* without an explicit constraint writes the latest version's.              *)
Load ==
  /\ command.pc = "load" /\ Edits
  /\ IF Valid(manifest) THEN command' = [command EXCEPT !.pc = "plan", !.base = manifest]
     ELSE Fail("MANIFEST_INVALID")
  /\ UNCHANGED <<Files, spent>>

AddDeclaration == [name |-> command.name,
                   range |-> IF command.range # {} THEN command.range
                             ELSE FromVersion(Max(Seen[command.name]))]

Edit ==
  LET present == Declares(command.base, command.name)
  IN IF command.op = "remove" THEN [kind |-> "removed", index |-> IndexOf(command.base, command.name)]
     ELSE [kind |-> IF present THEN "changed" ELSE "added", declaration |-> AddDeclaration,
           index |-> IF present THEN IndexOf(command.base, command.name) ELSE 0]

Nothing ==
  \/ command.op = "remove" /\ ~Declares(command.base, command.name)
  \/ /\ command.op = "add" /\ Declares(command.base, command.name)
     /\ command.range \in {{}, command.base[IndexOf(command.base, command.name)].range}

(* PlanFile reads the source again. *)
Plan ==
  /\ command.pc = "plan"
  /\ UNCHANGED <<Files, spent>>
  /\ \/ Nothing /\ To("done")
     \/ /\ ~Nothing /\ command.op = "add"
        /\ Seen[command.name] \cap AddDeclaration.range = {}
        /\ Fail("VERSION_SELECTION_FAILED")
     \/ /\ ~Nothing /\ ~Applies(Edit, manifest)
        /\ Fail("PROJECTION_UNSAFE")
     \/ /\ ~Nothing /\ Applies(Edit, manifest)
        /\ command.op = "add" => Seen[command.name] \cap AddDeclaration.range # {}
        /\ command' = [command EXCEPT !.original = manifest, !.planned = Projected(Edit, manifest),
                                      !.memo = IF command.op = "add" THEN Remember({command.name}) ELSE @,
                                      !.pc = IF Projected(Edit, manifest) = manifest THEN "done" ELSE "write"]

(* WritePlannedFile *)
WritePlannedFile ==
  /\ command.pc = "write"
  /\ \/ /\ manifest # command.original
        /\ Fail("MANIFEST_WRITE_FAILED")
        /\ UNCHANGED <<Files, spent>>
     \/ /\ manifest = command.original
        /\ manifest' = command.planned
        /\ To("preflight")
        /\ UNCHANGED <<lock, stored, installed, published, spent>>
     \/ /\ Spend("failures", MaxFailures)
        /\ Fail("MANIFEST_WRITE_FAILED")
        /\ UNCHANGED Files

(* The backends of a declared policy are update's and add's; remove gives   *)
(* update the public ones.                                                  *)
Endpoint == IF Declared /\ command.op # "remove" THEN "declared" ELSE "public"

(* updateWithMode up to the diff, on the files as they are. *)
Targeted == command.pc # "idle" /\ command.op = "update" /\ command.name # ""

(* Mutant: what was locked is kept by every update. *)
Wanted_AlwaysPinned == IF lock.state = "whole" THEN Pinned(manifest, lock, command.name) ELSE manifest

Wanted == IF Targeted /\ lock.state = "whole" THEN Pinned(manifest, lock, command.name) ELSE manifest

UpdateRefuses ==
  \/ ~Valid(manifest)
  \/ lock.state = "torn"
  \/ Targeted /\ ~Declares(manifest, command.name)
  \/ ~Resolvable(Wanted, Seen)

NextLock ==
  LET next == Resolution(Wanted, Seen, Endpoint)
  IN IF Targeted /\ lock.state = "whole" THEN Preserved(lock, next, command.name) ELSE next

(* Mutant: a refused update returns before it restores the manifest. *)
Refused_NoRollback(code) == Fail(code)

(* A refused or failed update of an edited manifest is rolled back. *)
Refused(code) ==
  IF Edits THEN command' = [command EXCEPT !.pc = "rollback", !.code = code]
  ELSE Fail(code)

Preflight ==
  /\ command.pc = "preflight"
  /\ UNCHANGED Files
  /\ \/ UpdateRefuses /\ Refused("REFUSED") /\ UNCHANGED spent
     \/ Spend("failures", MaxFailures) /\ Refused("RESOLVE_FAILED")
     \/ /\ ~UpdateRefuses /\ UNCHANGED spent
        /\ \E next \in {NextLock} :
             command' = [command EXCEPT !.pc = "resolve", !.preview = next, !.base = manifest,
                                        !.memo = Remember({p.name : p \in Packages(next)})]

Resolve ==
  /\ command.pc = "resolve" \/ (command.pc = "load" /\ command.op = "update")
  /\ UNCHANGED Files
  /\ \/ UpdateRefuses /\ Refused("REFUSED") /\ UNCHANGED spent
     \/ Spend("failures", MaxFailures) /\ Refused("RESOLVE_FAILED")
     \/ /\ ~UpdateRefuses /\ UNCHANGED spent
        /\ \E next \in {NextLock} :
             command' = [command EXCEPT !.next = next, !.before = lock, !.base = manifest,
               !.pc = IF ~Targeted \/ HasPackageChanges(lock, next) THEN "populate"
                      ELSE IF HasRequirementChanges(lock, next) THEN "lock" ELSE "done"]

(* populateStoreParallel: what it stored before it failed stays. *)
Populate ==
  /\ command.pc = "populate"
  /\ UNCHANGED <<manifest, lock, installed, published>>
  /\ \/ /\ stored' = stored \cup Packages(command.next)
        /\ To("lock") /\ UNCHANGED spent
     \/ /\ Spend("failures", MaxFailures)
        /\ \E some \in SUBSET Packages(command.next) : stored' = stored \cup some
        /\ Refused("POPULATE_FAILED")

(* os.WriteFile truncates, then writes. *)
TruncateLock ==
  /\ command.pc = "lock"
  /\ UNCHANGED <<manifest, stored, installed, published>>
  /\ \/ lock' = Torn /\ To("fill") /\ UNCHANGED spent
     \/ Spend("failures", MaxFailures) /\ Fail("UPDATE_WRITE_FAILED") /\ UNCHANGED lock

WriteLock ==
  /\ command.pc = "fill"
  /\ UNCHANGED <<manifest, stored, installed, published>>
  /\ \/ lock' = command.next /\ To("done") /\ UNCHANGED spent
     \/ Spend("failures", MaxFailures) /\ Fail("UPDATE_WRITE_FAILED") /\ UNCHANGED lock

(* RestorePlannedFile *)
Rollback ==
  /\ command.pc = "rollback"
  /\ UNCHANGED <<lock, stored, installed, published>>
  /\ \/ /\ manifest = command.planned
        /\ manifest' = command.original
        /\ To("failed") /\ UNCHANGED spent
     \/ manifest # command.planned /\ Fail("SOURCE_CHANGED") /\ UNCHANGED <<manifest, spent>>
     \/ Spend("failures", MaxFailures) /\ Fail("ROLLBACK_FAILED") /\ UNCHANGED manifest

(* Sync: hydrate what the store lacks from the registry, then materialize.  *)
(* The endpoint a package was locked from has to be declared, where it is   *)
(* known; the public backends leave none.                                   *)
Sync ==
  /\ command.pc = "load" /\ command.op = "sync"
  /\ UNCHANGED <<manifest, lock, published>>
  /\ \/ /\ lock.state # "whole" \/ ~Valid(manifest)
        /\ Fail("SYNC_REFUSED") /\ UNCHANGED <<stored, installed, spent>>
     \/ /\ lock.state = "whole" /\ Valid(manifest)
        /\ stored' = stored \cup Packages(lock)
        /\ installed' = lock.links
        /\ To("done") /\ UNCHANGED spent
     \/ /\ lock.state = "whole" /\ Valid(manifest) /\ Spend("failures", MaxFailures)
        /\ \E some \in SUBSET lock.links : installed' = some
        /\ Fail("MATERIALIZE_FAILED") /\ UNCHANGED stored

Step == Load \/ Plan \/ WritePlannedFile \/ Preflight \/ Resolve \/ Populate \/ TruncateLock
        \/ WriteLock \/ Rollback \/ Sync

-----------------------------------------------------------------------------
(* The rest of the world *)

UserEdits(source) ==
  /\ source # manifest
  /\ Spend("edits", MaxEdits)
  /\ manifest' = source
  /\ command' = IF Running THEN [command EXCEPT !.users = source] ELSE command
  /\ UNCHANGED <<lock, stored, installed, published>>

Publish(n, v) ==
  /\ v \notin published[n]
  /\ Spend("published", MaxPublished)
  /\ published' = [published EXCEPT ![n] = @ \cup {v}]
  /\ UNCHANGED <<manifest, lock, stored, installed, command>>

Kill ==
  /\ Running
  /\ Spend("failures", MaxFailures)
  /\ To("killed")
  /\ UNCHANGED Files

(* Only the user gets rid of a torn lockfile. *)
UserRemovesLock ==
  /\ ~Running /\ lock = Torn
  /\ lock' = NoLock
  /\ UNCHANGED <<manifest, stored, installed, published, command, spent>>

World ==
  \/ \E c \in Commands : Start(c)
  \/ \E s \in Manifests : UserEdits(s)
  \/ \E n \in Names, v \in Versions : Publish(n, v)
  \/ Kill
  \/ UserRemovesLock

Next == Step \/ World
Spec == Init /\ [][Next]_vars

-----------------------------------------------------------------------------
(* The files have their types, and the store only published packages. *)
TypeOK ==
  /\ lock.state \in {"missing", "torn", "whole"}
  /\ Packages(lock) \subseteq Ids /\ stored \subseteq Ids
  /\ \A p \in Packages(lock) \cup stored : p.version \in published[p.name]
  /\ \A e \in lock.edges : e.to \in Packages(lock)
  /\ command.pc = "idle" \/ \A n \in DOMAIN command.memo : command.memo[n] \subseteq published[n]

Whole == lock.state = "whole"

(* Every package of the lock on disk is in the store, whatever failed, was  *)
(* killed or was decided to need no download before it was written.         *)
LockedIsStored == Whole => Packages(lock) \subseteq stored

(* A full update, or the one of an add or a remove, that succeeded locks    *)
(* what the manifest it read declares and what its packages require, each   *)
(* in its own range, and no other declaration.                              *)
Leads(l, from, r) == \E e \in l.edges : e.from = from /\ e.to.name = r.name /\ e.to.version \in r.range

Answers(decls, l) ==
  /\ \A i \in DOMAIN decls : Leads(l, Root(decls[i].name), decls[i])
  /\ \A p \in Packages(l) : \A r \in Children(p) : Leads(l, p, r)
  /\ \A e \in l.edges : IsRoot(e.from) => Declares(decls, e.to.name)

AcceptedIsLocked ==
  command.pc = "done" /\ ~Targeted /\ command.next.state = "whole" /\ manifest = command.base
    => Answers(manifest, lock)

(* An add or a remove that failed before the lock was opened for writing    *)
(* leaves the manifest as the user last wrote it, and the lock as it was;   *)
(* a rollback that could not be written is reported as such.                *)
FailsWithoutTrace ==
  Running /\ Edits /\ command'.pc = "failed" /\ command'.code \notin {"UPDATE_WRITE_FAILED", "ROLLBACK_FAILED"} =>
    /\ manifest' = command.users \/ command.users = command.planned
    /\ lock' = command.before

(* The update of an add or remove computes what its preflight computed,     *)
(* also when the registry publishes in between.                             *)
KeepsPreflight ==
  command.pc = "resolve" /\ command'.pc = "populate" /\ manifest = command.base => command'.next = command.preview

(* An add or a remove does all that its preflight announced, or nothing.     *)
EditsAreAtomic == [][FailsWithoutTrace /\ KeepsPreflight]_vars

(* A targeted update takes nothing from the lock that is outside the         *)
(* closure of the selected dependency, and changes nothing of it.           *)
ClosureIsRespected ==
  Targeted /\ command.next.state = "whole" /\ command.before.state = "whole" =>
    \A p \in Packages(command.before) \ ClosureForName(command.before, command.name) :
      p \in Packages(command.next)

(* What a lock says can be relied on: a full update locks what was asked for, *)
(* a targeted one leaves the rest, and every variable has its type.          *)
LockIsReliable == TypeOK /\ AcceptedIsLocked /\ ClosureIsRespected

(* Module instances are derived from the edges of the lock they are in.     *)
InstancesAreDerived == Whole => lock.links = {e \in lock.edges : IsRoot(e.from)}

=============================================================================
