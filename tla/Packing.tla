------------------------------- MODULE Packing --------------------------------
(***************************************************************************)
(* What tspack writes beside files it did not write: the archives of tspack    *)
(* pack, planned, verified and renamed (internal/pack, internal/project); the *)
(* files of a template of tspack init (internal/templates); and the artifacts   *)
(* a Transfer moves to another region (internal/workflow/artifact_transport.go). *)
(*                                                                         *)
(* A path is a sequence of names.  A disk is                                  *)
(*   [files, links, json]: the files of the package, those that are symbolic   *)
(* links, and what its package.json says:                                    *)
(*   [identity, main, types, exports, peers, optional], exports a set with     *)
(* the set of paths that exports points to, or the empty set if it is absent.  *)
(***************************************************************************)
EXTENDS Naturals, Sequences, SequencesExt, FiniteSets

PackageJSON == <<"package.json">>

(* The names that begin with another name.                                   *)
Begins == {<<"dist2", "dist">>}

HasPrefix(path, prefix) ==
  LET n == Len(prefix)
  IN /\ n > 0 /\ Len(path) >= n /\ SubSeq(path, 1, n - 1) = Front(prefix)
     /\ path[n] = prefix[n] \/ <<path[n], prefix[n]>> \in Begins

BadPath(pattern) == pattern.kind = "bad"

(* resolvePattern.  A pattern is a path, a prefix with one or two stars after    *)
(* it, or two stars and a name, which are the files at one depth.              *)
Matching(disk, pattern) ==
  CASE pattern.kind = "path"  -> {f \in disk.files : IsPrefix(pattern.path, f)}
    [] pattern.kind = "under" -> {f \in disk.files : HasPrefix(f, pattern.path)}
    [] pattern.kind = "depth" -> {f \in disk.files : Len(f) = pattern.depth}

Symlinked(disk, pattern) ==
  IF pattern.kind = "path" THEN pattern.path \in disk.links ELSE Matching(disk, pattern) \cap disk.links # {}

ResolvePattern(disk, pattern) ==
  IF Symlinked(disk, pattern) THEN {} ELSE Matching(disk, pattern) \ disk.links

Union(disk, patterns) ==
  UNION {ResolvePattern(disk, p) : p \in {q \in ToSet(patterns) : ~BadPath(q)}}

-----------------------------------------------------------------------------
(* The metadata of a package.  A target is [export, runtime, types, peers], a   *)
(* peer [name, range, npm, optional]; types is <<>> when there are none.        *)
RootTarget(package) == {t \in ToSet(package.targets) : t.export = "."}

(* packageJSONPeerDependencies: the last target that names a peer decides its   *)
(* range, any makes it optional.                                             *)
AllPeers(package) == FlattenSeq([i \in DOMAIN package.targets |-> package.targets[i].peers])

NpmPeers(package) == {p \in ToSet(AllPeers(package)) : p.npm}

PeerDependencies(package) ==
  LET peers == AllPeers(package)
  IN [name \in {p.name : p \in NpmPeers(package)} |-> SelectLastInSeq(peers, LAMBDA p : p.npm /\ p.name = name)]

PeerRanges(package) ==
  LET peers == AllPeers(package) last == PeerDependencies(package)
  IN [name \in DOMAIN last |-> peers[last[name]].range]

OptionalPeers(package) == {p.name : p \in {q \in NpmPeers(package) : q.optional}}

GeneratedPackageJSON(package) ==
  LET root == RootTarget(package)
  IN [identity |-> package.identity,
      main |-> {t.runtime : t \in root}, types |-> {t.types : t \in {r \in root : r.types # <<>>}},
      exports |-> {UNION {{t.runtime, t.types} : t \in ToSet(package.targets)}},
      peers |-> PeerRanges(package), optional |-> OptionalPeers(package)]

-----------------------------------------------------------------------------
(* PlanPackage.  What a target needs is looked for on the disk, not among the    *)
(* files of the plan.                                                        *)
PlanErrors(package, disk) ==
  LET report(condition, code) == IF condition THEN {code} ELSE {}
      outputs(t) == {t.runtime} \cup ({t.types} \ {<<>>})
  IN IF package.include = <<>> THEN {"MISSING_PUBLISH_POLICY"}
     ELSE report(\E p \in ToSet(package.include \o package.exclude) : BadPath(p), "INVALID_PUBLISH_PATH")
       \cup report(\E p \in ToSet(package.include) : ~BadPath(p) /\ Symlinked(disk, p), "SYMLINK_UNSUPPORTED")
       \cup report(\E p \in ToSet(package.include) : ~BadPath(p) /\ ResolvePattern(disk, p) = {}, "MATCHED_NOTHING")
       \cup report(\E t \in ToSet(package.targets) : ~(outputs(t) \subseteq disk.files), "MISSING_OUTPUT")
       \cup report(\E t \in ToSet(package.targets) : \E p \in ToSet(t.peers) : ~p.npm, "UNPUBLISHABLE_PEER")

PlanFiles(package, disk) == (Union(disk, package.include) \ Union(disk, package.exclude)) \cup {PackageJSON}

Generates(package, disk) == PackageJSON \notin Union(disk, package.include) \ Union(disk, package.exclude)

(* buildArchive reads the files again, when all plans are made.                *)
CanBuild(package, disk, later) ==
  PlanFiles(package, disk) \ (IF Generates(package, disk) THEN {PackageJSON} ELSE {}) \subseteq later.files

Archive(package, disk, later) ==
  [files |-> PlanFiles(package, disk),
   json |-> IF Generates(package, disk) THEN GeneratedPackageJSON(package) ELSE later.json]

-----------------------------------------------------------------------------
(* VerifyArchive.                                                           *)
References(json) == json.main \cup json.types \cup UNION json.exports

VerifyReference(archive, path) == path # <<>> /\ path \in archive.files

VerifyRequiredMetadata(package, json) ==
  /\ json.identity = package.identity
  /\ RootTarget(package) # {} => json.main = {t.runtime : t \in RootTarget(package)}
  /\ \A t \in RootTarget(package) : t.types # <<>> => json.types = {t.types}
  /\ package.targets # <<>> => json.exports # {}

VerifyPeerMetadata(package, json) ==
  LET peers == PeerRanges(package)
  IN peers # <<>> =>
       /\ \A name \in DOMAIN peers : name \in DOMAIN json.peers /\ json.peers[name] = peers[name]
       /\ OptionalPeers(package) \subseteq json.optional

VerifyArchive_MetadataOnly(package, archive) ==
  /\ VerifyRequiredMetadata(package, archive.json)
  /\ VerifyPeerMetadata(package, archive.json)
  /\ archive.files # {PackageJSON}

VerifyArchive(package, archive) ==
  /\ VerifyRequiredMetadata(package, archive.json)
  /\ \A path \in References(archive.json) : VerifyReference(archive, path)
  /\ VerifyPeerMetadata(package, archive.json)
  /\ archive.files # {PackageJSON}

-----------------------------------------------------------------------------
(* WritePlans, for packages each with its disk, before and after the plans are   *)
(* made.  A run is [verify, dry, fails, at, existing]: a write or a rename that  *)
(* fails and its index, and the outputs that are there from an earlier pack.     *)
(* All archives are written and verified before the first is renamed; when a    *)
(* rename fails, what was renamed is removed, the earlier output with it.       *)
Outputs(run, packages, renamed, removed) ==
  [i \in DOMAIN packages |->
     CASE i \in removed -> "none"
       [] i \in renamed \ removed -> "new"
       [] OTHER -> IF i \in run.existing THEN "old" ELSE "none"]

WritePlans(run, packages, disks, later) ==
  LET n == Len(packages)
      refused == [reported |-> FALSE, outputs |-> Outputs(run, packages, {}, {})]
      verified == \A i \in 1 .. n : VerifyArchive(packages[i], Archive(packages[i], disks[i], later[i]))
  IN IF \/ \E i \in 1 .. n : ~CanBuild(packages[i], disks[i], later[i])
        \/ run.fails = "write" \/ (run.verify /\ ~verified)
     THEN refused
     ELSE IF run.fails = "rename"
     THEN [reported |-> FALSE, outputs |-> Outputs(run, packages, 1 .. run.at - 1, 1 .. run.at - 1)]
     ELSE [reported |-> TRUE, outputs |-> Outputs(run, packages, 1 .. n, {})]

(* project.Pack: all packages are planned before one is written.               *)
Pack(run, packages, disks, later) ==
  LET errors == UNION {PlanErrors(packages[i], disks[i]) : i \in DOMAIN packages}
      refused == [reported |-> FALSE, outputs |-> Outputs(run, packages, {}, {})]
  IN CASE run.dry /\ run.verify -> refused
       [] \E i \in DOMAIN packages : packages[i].kind = "service" -> refused
       [] errors # {} -> refused
       [] run.dry -> refused
       [] OTHER -> WritePlans(run, packages, disks, later)

-----------------------------------------------------------------------------
(* All packages are packed or none is: a pack that does not report its artifacts *)
(* leaves no output of its own, and one that was verified leaves archives whose  *)
(* package.json agrees with the manifest and points to what is in them; a        *)
(* package.json that was generated points to every target (docs/pack.md).       *)
PacksAreWhole(run, packages, disks, later) ==
  LET result == Pack(run, packages, disks, later)
      outputs == {result.outputs[i] : i \in DOMAIN packages}
      archive(i) == Archive(packages[i], disks[i], later[i])
  IN /\ ~result.reported => "new" \notin outputs
     /\ result.reported => outputs = {"new"}
     /\ result.reported /\ run.verify =>
          \A i \in DOMAIN packages :
            /\ References(archive(i).json) \subseteq archive(i).files
            /\ archive(i).json.identity = packages[i].identity
            /\ \A t \in ToSet(packages[i].targets) :
                 /\ t.export = "." \/ Generates(packages[i], disks[i]) => {t.runtime, t.types} \ {<<>>} \subseteq archive(i).files
                 /\ \A p \in ToSet(t.peers) : p.optional => p.name \in archive(i).json.optional

-----------------------------------------------------------------------------
(* tspack init --template.  A template is                                    *)
(*   [local, generates, stack, kind, variables, concepts, files, composes,     *)
(*    contributes]: local, with a manifest made from its concepts, the concepts *)
(* it lists, its variables with the default ("" for none) and the values allowed *)
(* (the empty set for any), its local concepts [name, files], its files          *)
(* [to, from]; whether its concepts compose and whether the local ones           *)
(* contribute to a manifest.  A destination is [names, spelled], several         *)
(* spellings of one path; a source is [text, uses, rendered, missing].           *)
(* A tree is [files, dirs], a function from paths to contents and a set.         *)
BuiltinConcepts == {"react", "vite"}
ManifestFile == [names |-> <<"manifest.tsx">>, spelled |-> ""]

ValidTemplatePath(to) == to.names # <<>> /\ to.names[1] # ".."

Validates(template) ==
  /\ template.files # <<>> /\ template.stack # {}
  /\ \A v \in DOMAIN template.variables :
       LET variable == template.variables[v]
       IN variable.allowed # {} => variable.default \in variable.allowed \cup {""}
  /\ \A i \in DOMAIN template.files :
       /\ ValidTemplatePath(template.files[i].to) /\ ~template.files[i].from.missing
       /\ \A k \in 1 .. i - 1 : template.files[k].to # template.files[i].to

(* A variable has the value that is given, or its default.                     *)
Given(given) == {v \in DOMAIN given : given[v] # ""}
ResolveValues(template, given) ==
  [v \in DOMAIN template.variables \cup Given(given) |->
     IF v \in Given(given) THEN given[v] ELSE template.variables[v].default]

ValuesResolve(template, given) ==
  \A v \in DOMAIN template.variables :
    LET value == ResolveValues(template, given)[v]
        allowed == template.variables[v].allowed
    IN value # "" /\ (allowed = {} \/ value \in allowed)

LoadLocalConceptSet(template) ==
  \A i \in DOMAIN template.concepts :
    LET concept == template.concepts[i]
    IN /\ \A k \in 1 .. i - 1 : template.concepts[k].name # concept.name
       /\ concept.name \in template.stack \ BuiltinConcepts
       /\ \A f \in ToSet(concept.files) : ValidTemplatePath(f.to) /\ ~f.from.missing

ConceptFiles(template) == FlattenSeq([i \in DOMAIN template.concepts |-> template.concepts[i].files])

Render(from, values) ==
  [text |-> from.text, values |-> IF from.rendered THEN [v \in from.uses |-> values[v]] ELSE <<>>]

Generated(template, values) == [text |-> "concepts", values |-> values]

(* Plan: the manifest of a local template, its files, and those of its concepts  *)
(* that are not planned with the same content already.                         *)
ManifestPlan(template, values) ==
  IF template.local /\ template.generates THEN <<[to |-> ManifestFile, content |-> Generated(template, values)]>> ELSE <<>>

FilePlan(template, values) ==
  [i \in DOMAIN template.files |->
     LET f == template.files[i]
     IN [to |-> f.to,
         content |-> IF f.to = ManifestFile /\ template.generates THEN Generated(template, values)
                     ELSE Render(f.from, values)]]

ConceptPlan(template, values) ==
  [i \in DOMAIN ConceptFiles(template) |->
     [to |-> ConceptFiles(template)[i].to, content |-> Render(ConceptFiles(template)[i].from, values)]]

Planned(template, values) ==
  LET files == ConceptPlan(template, values)
      plan[i \in 0 .. Len(files)] ==
        IF i = 0 THEN ManifestPlan(template, values) \o FilePlan(template, values)
        ELSE IF files[i] \in ToSet(plan[i - 1]) THEN plan[i - 1] ELSE Append(plan[i - 1], files[i])
  IN plan[Len(files)]

IsDir(tree, path) == path \in tree.dirs \/ \E f \in DOMAIN tree.files : IsStrictPrefix(path, f)
Exists(tree, path) == path \in DOMAIN tree.files \/ IsDir(tree, path)

MayWrite(to, force, tree) ==
  /\ ValidTemplatePath(to) /\ ~IsDir(tree, to.names)
  /\ force \/ ~Exists(tree, to.names)

(* Only the files of the template are asked whether they are there already.      *)
PlanStands_FilesOnly(template, values, force, tree) ==
  /\ LoadLocalConceptSet(template) /\ template.composes
  /\ \A f \in ToSet(template.files) : MayWrite(f.to, force, tree)

PlanStands(template, values, force, tree) ==
  LET concepts == template.concepts # <<>> \/ template.generates
      sources == ToSet(template.files) \cup ToSet(ConceptFiles(template))
      plan == Planned(template, values)
  IN /\ concepts => LoadLocalConceptSet(template) /\ template.composes
     /\ template.contributes => template.generates
     /\ ManifestPlan(template, values) # <<>> =>
          /\ MayWrite(ManifestFile, force, tree)
          /\ \A f \in ToSet(template.files) : f.to # ManifestFile
     /\ \A f \in sources : MayWrite(f.to, force, tree)
     /\ \A i, k \in DOMAIN plan : plan[i].to = plan[k].to => i = k

(* A source uses only what has a value.                                        *)
Renders(template, values) ==
  \A f \in ToSet(template.files) \cup ToSet(ConceptFiles(template)) :
    f.from.rendered => f.from.uses \subseteq DOMAIN values

(* What is at each path once a file is written at one of them, or renamed over it. *)
Put(paths, path, file) == [p \in DOMAIN paths \cup {path} |-> IF p = path THEN file ELSE paths[p]]

(* ApplyPlan makes the directories of a file and writes it; it stops at the first *)
(* that fails, by itself or, for the file at fails, half way through.            *)
WriteFile(plan, fails, done, i) ==
  LET path == plan[i].to.names
      blocked == \E f \in DOMAIN done.tree.files : IsStrictPrefix(f, path)
      half == [text |-> "half", values |-> <<>>]
      file == IF i = fails THEN half ELSE plan[i].content
  IN IF done.failed \/ blocked \/ IsDir(done.tree, path) THEN [done EXCEPT !.failed = TRUE]
     ELSE [tree |-> [done.tree EXCEPT !.files = Put(@, path, file)], failed |-> i = fails]

ApplyPlan(plan, tree, fails) ==
  LET after[i \in 0 .. Len(plan)] ==
        IF i = 0 THEN [tree |-> tree, failed |-> FALSE] ELSE WriteFile(plan, fails, after[i - 1], i)
  IN after[Len(plan)]

RunTemplateInit(run, template) ==
  LET values == ResolveValues(template, run.given)
      plan == Planned(template, values)
      applied == ApplyPlan(plan, run.tree, run.fails)
  IN IF ~Validates(template) \/ ~ValuesResolve(template, run.given) \/ ~Renders(template, values)
        \/ ~PlanStands(template, values, run.force, run.tree)
     THEN [outcome |-> "refused", tree |-> run.tree]
     ELSE IF run.dry THEN [outcome |-> "shown", tree |-> run.tree]
     ELSE [outcome |-> IF applied.failed THEN "failed" ELSE "created", tree |-> applied.tree]

-----------------------------------------------------------------------------
(* Whatever fails half way, an init that is not forced leaves every file that was *)
(* there as it was, and one that is forced changes only files of its plan; what it *)
(* says to have created is there with its content, but for a file that another       *)
(* one of the plan names too, in another spelling ("refuses to overwrite existing     *)
(* generated files", docs/init.md:37-39).                                       *)
InitIsCareful(run, template) ==
  LET result == RunTemplateInit(run, template)
      plan == ToSet(Planned(template, ResolveValues(template, run.given)))
      before == run.tree.files
  IN /\ result.outcome \in {"refused", "shown"} => result.tree = run.tree
     /\ \A path \in DOMAIN before :
          path \in DOMAIN result.tree.files /\ (~run.force => result.tree.files[path] = before[path])
     /\ result.outcome # "refused" =>
          \A path \in DOMAIN result.tree.files :
            \/ path \in DOMAIN before /\ before[path] = result.tree.files[path]
            \/ \E p \in plan : p.to.names = path
     /\ result.outcome = "created" =>
          \A p \in plan : \/ \E q \in plan : q.to.names = p.to.names /\ q.to # p.to
                          \/ result.tree.files[p.to.names] = p.content

-----------------------------------------------------------------------------
(* Transfer: each artifact of a build is hashed, copied beside its destination    *)
(* under the target region and its hash, renamed, and hashed again.               *)
(* A source is [kind, name, bytes, copied], what it contains when it is hashed     *)
(* and when it is copied; a run is [target, sources, fails, at, area], which of     *)
(* the steps copy, rename and cancel fails, at which artifact, and what earlier    *)
(* transfers have left, a function from places to bytes.  A hash is the bytes.    *)
MaxTransferArtifacts == 2  \* 64 in the code

Place(target, source, ordinal) == <<target, source.bytes, ordinal, source.name>>

(* A rename that fails over a destination that is there is passed over.            *)
CopyArtifact(run, done, i) ==
  LET place == Place(run.target, run.sources[i], i)
      fails(step) == run.fails = step /\ run.at = i
  IN CASE fails("copy") -> [done EXCEPT !.failed = TRUE]
       [] fails("rename") -> [done EXCEPT !.failed = place \notin DOMAIN done.area]
       [] OTHER -> [done EXCEPT !.area = Put(@, place, run.sources[i].copied)]

TransportArtifact_Unread(run, done, i) ==
  LET place == Place(run.target, run.sources[i], i)
      copied == CopyArtifact(run, done, i)
  IN IF run.sources[i].kind # "regular" \/ (run.fails = "cancel" /\ run.at = i) THEN [done EXCEPT !.failed = TRUE]
     ELSE IF copied.failed THEN copied ELSE [copied EXCEPT !.artifacts = Append(@, place)]

(* A link, a directory, a missing file, one that is too large or outside is refused. *)
TransportArtifact(run, done, i) ==
  LET place == Place(run.target, run.sources[i], i)
      copied == CopyArtifact(run, done, i)
  IN IF run.sources[i].kind # "regular" \/ (run.fails = "cancel" /\ run.at = i) THEN [done EXCEPT !.failed = TRUE]
     ELSE IF copied.failed THEN copied
     ELSE IF copied.area[place] # run.sources[i].bytes THEN [copied EXCEPT !.failed = TRUE]
     ELSE [copied EXCEPT !.artifacts = Append(@, place)]

RunArtifactTransfer(run) ==
  LET n == Len(run.sources)
      start == [area |-> run.area, artifacts |-> <<>>, failed |-> n \notin 1 .. MaxTransferArtifacts]
      after[i \in 0 .. n] ==
        IF i = 0 THEN start ELSE IF after[i - 1].failed THEN after[i - 1] ELSE TransportArtifact(run, after[i - 1], i)
  IN after[n]

(* A transfer that succeeds hands on one artifact for each, in their order, which *)
(* are there with the bytes of their identities; and whatever fails, and a source  *)
(* that changes while it is copied, a place of the area other than the one of that *)
(* source has the bytes of its identity if it had them before (docs/workflows.md:  *)
(* 278-282, docs/dev/m78-typed-fanout-artifact-transport.md:47-49).             *)
TransferIsWhole(run) ==
  LET result == RunArtifactTransfer(run)
      changed == {Place(run.target, run.sources[i], i) : i \in {k \in DOMAIN run.sources : run.sources[k].copied # run.sources[k].bytes}}
      sound(area) == {place \in DOMAIN area : area[place] = place[2]}
  IN /\ ~result.failed =>
          /\ result.artifacts = [i \in DOMAIN run.sources |-> Place(run.target, run.sources[i], i)]
          /\ \A i \in DOMAIN run.sources : result.area[result.artifacts[i]] = run.sources[i].bytes
     /\ sound(run.area) \ changed \subseteq sound(result.area)
     /\ DOMAIN result.area \subseteq DOMAIN run.area \cup {Place(run.target, run.sources[i], i) : i \in DOMAIN run.sources}
=============================================================================
