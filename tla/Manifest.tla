------------------------------- MODULE Manifest -------------------------------
(***************************************************************************)
(* What a manifest may say: Validate of internal/manifest, which accepts it   *)
(* or reports what is wrong with it, and what the rest of the program takes    *)
(* from an accepted one: the effective dependencies, the build targets and     *)
(* their order, and the tests with their fixtures.                           *)
(*                                                                         *)
(* Texts are abstract: "" is a name, path, command or URL that its syntax      *)
(* check rejects, and a reference to a build target is [package, name] with    *)
(* package "" when it is local.  Workflows are in module WorkflowPlan.        *)
(***************************************************************************)
EXTENDS Authoring, BuildOrder

LOCAL ReportIf(condition, code) == IF condition THEN {code} ELSE {}
LOCAL Repeats(s) == \E i, j \in DOMAIN s : i < j /\ s[i] = s[j]
LOCAL All(s, check(_)) == UNION {check(s[i]) : i \in DOMAIN s}
LOCAL Names(s) == [i \in DOMAIN s |-> s[i].name]

-----------------------------------------------------------------------------
(* The workspace *)

ValidateWorkspace(ir) ==
  ReportIf(ir.format # 1, "FORMAT")
  \cup ReportIf(ir.name = "", "WORKSPACE_NAME")
  \cup ReportIf(ir.runtime \notin {"", "nodejs", "bun", "deno"}, "RUNTIME_PROFILE")
  \cup ReportIf(ir.packages = <<>> /\ ir.compatFiles = <<>>, "NO_PACKAGES")

ManagedFiles == {"package.json", "package-lock.json", "pnpm-lock.yaml", "yarn.lock", "bun.lock", "manifest.tsx"}

ValidateCompatFile(file) ==
  IF file.path = "" THEN {"COMPAT_PATH"}
  ELSE ReportIf(file.format # "json" \/ file.path \in ManagedFiles, "COMPAT_UNSUPPORTED")
       \cup ReportIf(file.value = "", "COMPAT_VALUE")

ValidateCompatFiles(files) ==
  All(files, ValidateCompatFile)
  \cup ReportIf(Repeats(SelectSeq([i \in DOMAIN files |-> files[i].path], LAMBDA p : p # "")), "COMPAT_DUPLICATE")

LifecycleScripts == {"preinstall", "install", "postinstall", "prepack", "prepare", "postpack", "prepublish",
                     "prepublishOnly", "publish", "postpublish"}

ValidateAcknowledged(security) ==
  LET capability(a) ==
        ReportIf(\/ a.package = "" \/ a.kind # "lifecycleScript" \/ a.script \notin LifecycleScripts
                 \/ a.command = "" \/ a.reason = "", "ACKNOWLEDGED_CAPABILITY")
        \cup ReportIf("" \in {a.fixture, a.report}, "BEHAVIOR_EVIDENCE")
      category(c) ==
        ReportIf(\/ c.category \notin {"consumer-install", "maintainer-publish", "other"} \/ c.reason = ""
                 \/ ~(ToSet(c.scripts) \subseteq LifecycleScripts), "ACKNOWLEDGED_CATEGORY")
      key(a) == <<a.package, a.kind, a.script, a.command>>
  IN All(security.capabilities, capability) \cup All(security.categories, category)
     \cup ReportIf(Repeats([i \in DOMAIN security.capabilities |-> key(security.capabilities[i])]),
                   "ACKNOWLEDGED_DUPLICATE")
     \cup ReportIf(Repeats([i \in DOMAIN security.categories |->
                            <<security.categories[i].category, security.categories[i].scripts>>]), "ACKNOWLEDGED_DUPLICATE")

(* A row applies to a set of packages, in whatever order they are listed.   *)
ValidateUpdatePolicy(rows) ==
  LET row(r) ==
        ReportIf(r.name = "" \/ "" \in r.packages, "POLICY_ROW")
        \cup ReportIf(r.kind \notin {"tool", "dep", "peer", "any"}, "POLICY_KIND")
        \cup ReportIf(r.strategy \notin {"manual", "pinned", "rolling"}, "POLICY_STRATEGY")
        \cup ReportIf(IF r.strategy = "rolling" THEN r.level \notin {"patch", "minor", "major", "latest"}
                      ELSE r.level # "", "POLICY_LEVEL")
  IN All(rows, row)
     \cup ReportIf(Repeats([i \in DOMAIN rows |-> <<rows[i].name, rows[i].kind, rows[i].packages>>]), "POLICY_DUPLICATE")

ValidateRegistryPolicy(policy) ==
  LET registries == {"npm", "jsr"}
      endpoint(e) == ReportIf(e.url = "" \/ e.credentials \/ e.tokenEnv = "" \/ "" \in e.hosts, "SOURCE_POLICY")
      source(s) == ReportIf(s.kind \notin registries \/ s.endpoints = <<>>, "SOURCE_POLICY")
                   \cup All(s.endpoints, endpoint)
  IN ReportIf(~(ToSet(policy.allowedSources) \subseteq registries) \/ Repeats(policy.allowedSources), "SOURCE_POLICY")
     \cup All(policy.sources, source)
     \cup ReportIf(Repeats([i \in DOMAIN policy.sources |-> policy.sources[i].kind]), "SOURCE_POLICY")

-----------------------------------------------------------------------------
(* A package and its dependencies *)

Compiler(p) == IF p.compiler = "" THEN "tsc" ELSE p.compiler
CompilerOf(p, t) == IF t.compiler = "" THEN Compiler(p) ELSE t.compiler

ValidatePackage(p) ==
  ReportIf("" \in {p.name, p.version, p.root}, "PACKAGE_HEAD")
  \cup ReportIf(p.kind \notin {"library", "app", "tool", "service"}, "PACKAGE_KIND")
  \cup ReportIf(Compiler(p) \notin {"tsc", "tscl", "scriptc", "perry"}, "COMPILER")
  \cup ReportIf(Compiler(p) = "tscl" /\ p.compilerPath = "", "TSCL_PATH")
  \cup ReportIf(p.kind = "library" /\ p.publish = {}, "PUBLISH_REQUIRED")
  \cup ReportIf("" \in p.publish, "PUBLISH_PATH")

Tape(p) == Build(MapDependencyAuthoring(p.dependencies))

(* pkg.Dependencies: what the tape finds effective, in its order. *)
EffectiveInOrder(p) ==
  LET tape == Tape(p)
      effective == SetToSortSeq({i \in DOMAIN tape : IsEffective(tape, i)}, LAMBDA i, j : i < j)
  IN [n \in DOMAIN effective |-> tape[effective[n]]]

PreparePackageAuthoring(p) ==
  ReportIf(\E d \in ToSet(p.dependencies) : "" \in {d.source, d.name}, "IDENTITY")
  \cup ReportIf(HasFatalConflicts(Tape(p)), "KEY_COLLISION")

(* depIdentity: a path has no name of its own; of a git reference it is the    *)
(* last part, which stands for the reference here.                           *)
DependencyIdentity(d) == IF d.key # "" THEN d.key ELSE IF d.source = "path" THEN "" ELSE d.name

DependencyKeys(p) == {DependencyIdentity(d) : d \in ToSet(EffectiveInOrder(p))} \ {""}
DependencyNamed(p, key) ==
  LET named == SelectSeq(EffectiveInOrder(p), LAMBDA d : DependencyIdentity(d) = key) IN named[Len(named)]

ValidateDependency(d) ==
  ReportIf(d.kind \notin {"runtime", "dep", "peer", "tool", "type", "test", "workspace"}, "DEPENDENCY_KIND")
  \cup ReportIf(d.source \notin {"npm", "jsr", "git", "path", "workspace"}, "SOURCE_KIND")
  \cup ReportIf(d.source \in {"npm", "jsr", "git"} /\ d.constraint = "", "SOURCE")

ValidateDependencies(p) ==
  LET dependencies == EffectiveInOrder(p)
      keys == [i \in DOMAIN dependencies |-> DependencyIdentity(dependencies[i])]
  IN ReportIf("" \in ToSet(keys) \/ Repeats(keys), "DUPLICATE_DEPENDENCY")
     \cup All(SelectSeq(dependencies, LAMBDA d : DependencyIdentity(d) # ""), ValidateDependency)
     \cup ReportIf(~(p.tools \subseteq DependencyKeys(p)), "DEPENDENCY_REF")
     \cup ReportIf(\E t \in p.tools \cap DependencyKeys(p) : DependencyNamed(p, t).kind # "tool", "DEPENDENCY_KIND")

-----------------------------------------------------------------------------
(* Build targets *)

CompiledTo ==
  [scriptc |-> {"", "nativeExecutable"}, perry |-> {"", "nativeExecutable"},
   tscl |-> {"", "javaScript", "managedExecutable", "nativeExecutable", "wasmModule"}]

ArtifactKinds == {"javaScript", "typeDeclarations", "sourceMap", "metadata", "staticAsset"}

ValidateArtifacts(artifacts) ==
  ReportIf("" \in ToSet(Names(artifacts)), "ARTIFACT_NAME")
  \cup ReportIf(\E i \in DOMAIN artifacts : artifacts[i].kind \notin ArtifactKinds, "ARTIFACT_KIND")
  \cup ReportIf(\E i \in DOMAIN artifacts : artifacts[i].path = "", "ARTIFACT_PATH")
  \cup ReportIf(Repeats(Names(artifacts)) \/ Repeats([i \in DOMAIN artifacts |-> artifacts[i].path]),
                "ARTIFACT_DUPLICATE")

ValidateTarget(p, t) ==
  LET compiler == CompilerOf(p, t)
  IN ReportIf(compiler \notin {"tsc", "tscl", "scriptc", "perry", "rollup", "vite"}, "COMPILER")
     \cup ReportIf(compiler = "tscl" /\ p.compilerPath = "", "TSCL_PATH")
     \cup ReportIf("" \in t.inputs, "COMPILER_INPUT")
     \cup ReportIf(compiler \in {"scriptc", "perry"} /\ t.inputs = {}, "INPUTS_REQUIRED")
     \cup ReportIf(compiler \in DOMAIN CompiledTo /\ t.artifact \notin CompiledTo[compiler], "ARTIFACT_UNSUPPORTED")
     \cup ReportIf(compiler = "tscl" /\ t.artifact = "nativeExecutable" /\ t.rid = "", "COPELAND_RID")
     \cup ValidateArtifacts(t.artifacts)
     \cup ReportIf(t.name = "", "TARGET_NAME")
     \cup ReportIf(t.export = "", "EXPORT_PATH")
     \cup ReportIf(\/ "" \in {t.entry, t.runtime}
                   \/ t.types = "" /\ p.kind # "app" /\ t.compiler # "vite", "RELATIVE_PATH")
     \cup ReportIf(~(t.deps \cup t.peers \subseteq DependencyKeys(p)), "DEPENDENCY_REF")

ValidateTargets(p) ==
  LET ts == p.targets
  IN UNION {ValidateTarget(p, ts[i]) : i \in DOMAIN ts}
     \cup ReportIf(Repeats(Names(ts)), "DUPLICATE_TARGET")
     \cup ReportIf(Repeats([i \in DOMAIN ts |-> ts[i].export]), "DUPLICATE_EXPORT")
     \cup ReportIf(\E i, j \in DOMAIN ts : ts[i].name # ts[j].name /\ ts[i].inputs \cap ts[j].inputs # {},
                   "SOURCE_OVERLAP")

(* The artifacts of a target: those it lists, or its runtime and its types.  *)
DeclaredTargetArtifacts(t) ==
  IF t.artifacts # <<>> THEN ToSet(Names(t.artifacts))
  ELSE (IF t.runtime # "" THEN {"javaScript"} ELSE {}) \cup (IF t.types # "" THEN {"typeDeclarations"} ELSE {})

TargetIdentity(package, name) == package \o ":" \o name

ResolveBuildTargetReference(owner, reference) ==
  TargetIdentity(IF reference.package = "" THEN owner ELSE reference.package, reference.name)

(* The build targets of the workspace, with the packages that own them. *)
BuildTargets(ir) ==
  UNION {{[identity |-> TargetIdentity(p.name, t.name), owner |-> p.name, target |-> t] :
                   t \in ToSet(p.targets)} : p \in ToSet(ir.packages)}
TargetNamed(ir, identity) == (CHOOSE b \in BuildTargets(ir) : b.identity = identity).target

DependsOn(owner, references) ==
  [i \in DOMAIN references |-> ResolveBuildTargetReference(owner, references[i])]

BuildGraph(ir) ==
  [identity \in {b.identity : b \in BuildTargets(ir)} |->
     LET b == CHOOSE b \in BuildTargets(ir) : b.identity = identity
     IN DependsOn(b.owner, b.target.dependsOn)]

ValidateBuildTargetDependencies_SelfOnly(ir) ==
  LET graph == BuildGraph(ir)
  IN ReportIf(\E t \in DOMAIN graph : ~(ToSet(graph[t]) \subseteq DOMAIN graph), "TARGET_DEPENDENCY_UNKNOWN")
     \cup ReportIf(\E t \in DOMAIN graph : t \in ToSet(graph[t]), "TARGET_DEPENDENCY_CYCLE")

(* Unknown targets are reported and left out of the search for a cycle. *)
ValidateBuildTargetDependencies(ir) ==
  LET graph == BuildGraph(ir)
      known == [t \in DOMAIN graph |-> SelectSeq(graph[t], LAMBDA u : u \in DOMAIN graph)]
      anyOrder == SetToSeq(DOMAIN graph)
  IN ReportIf(\E t \in DOMAIN graph : ~(ToSet(graph[t]) \subseteq DOMAIN graph), "TARGET_DEPENDENCY_UNKNOWN")
     \cup ReportIf(WorkflowDependencyCycle(known, anyOrder), "TARGET_DEPENDENCY_CYCLE")

-----------------------------------------------------------------------------
(* Tests and their fixtures *)

ValidateFixtures(p, test) ==
  LET fixture(f) ==
        LET known == f.dependency \in DependencyKeys(p)
            source == DependencyNamed(p, f.dependency)
        IN ReportIf(f.name = "", "FIXTURE_NAME")
           \cup ReportIf(~known, "FIXTURE_PRODUCER")
           \cup ReportIf(known /\ f.mode = "source" /\ source.source \notin {"path", "workspace"}, "FIXTURE_PRODUCER")
           \cup ReportIf(known /\ source.source = "workspace" /\ source.name = p.name, "FIXTURE_SELF")
           \cup ReportIf(f.dependency \notin ToSet(test.requirements) \cap DependencyKeys(p), "FIXTURE_REQUIREMENT")
           \cup ReportIf(f.binding = "", "FIXTURE_BINDING")
           \cup ReportIf(f.mode \notin {"package", "source"}, "FIXTURE_MODE")
  IN UNION {fixture(test.fixtures[i]) : i \in DOMAIN test.fixtures}
     \cup ReportIf(Repeats(Names(test.fixtures)), "FIXTURE_DUPLICATE")
     \cup ReportIf(Repeats([i \in DOMAIN test.fixtures |-> test.fixtures[i].binding]), "FIXTURE_BINDING")

ValidateTests(p) ==
  LET test(t) ==
        ReportIf(t.name = "", "TEST_TARGET")
        \cup ReportIf(t.harness \notin {"vitest", "xtest"}, "TEST_HARNESS")
        \cup ReportIf(t.sources = {} \/ "" \in t.sources, "TEST_SOURCES")
        \cup ReportIf(~(ToSet(t.requirements) \subseteq DependencyKeys(p)) \/ Repeats(t.requirements),
                      "TEST_REQUIREMENT")
        \cup ValidateFixtures(p, t)
  IN All(p.tests, test) \cup ReportIf(Repeats(Names(p.tests)), "TEST_DUPLICATE")

(* testBuildPrerequisiteReachable: from what a test depends on, by way of     *)
(* declared targets.                                                        *)
Reaches(graph, roots, wanted) ==
  LET step(seen) == seen \cup UNION {ToSet(graph[t]) : t \in seen \cap DOMAIN graph}
      within[n \in 0..Cardinality(DOMAIN graph)] == IF n = 0 THEN roots ELSE step(within[n - 1])
  IN wanted \in within[Cardinality(DOMAIN graph)]

ArtifactNames(fixture) == fixture.artifacts

ValidateTestBuild(ir, p, test) ==
  LET graph == BuildGraph(ir)
      wanted == DependsOn(p.name, test.dependsOn)
      prerequisites == ToSet(wanted) \cap DOMAIN graph
      built == test.builtFixtures
      fixture(f) ==
        LET producer == ResolveBuildTargetReference(p.name, f.target)
            names == ArtifactNames(f)
        IN IF producer \notin DOMAIN graph THEN {"BUILT_FIXTURE_TARGET"}
           ELSE ReportIf(~Reaches(graph, prerequisites, producer), "BUILT_FIXTURE_REQUIREMENT")
                \cup ReportIf(names = <<>> \/ "" \in ToSet(names) \/ Repeats(names), "BUILT_FIXTURE_ARTIFACTS")
                \cup ReportIf(~(ToSet(names) \subseteq DeclaredTargetArtifacts(TargetNamed(ir, producer))),
                              "BUILT_FIXTURE_ARTIFACT")
  IN ReportIf(~(ToSet(wanted) \subseteq DOMAIN graph), "TEST_DEPENDENCY_UNKNOWN")
     \cup ReportIf(Repeats(wanted), "TEST_DEPENDENCY_DUPLICATE")
     \cup All(built, fixture)
     \cup ReportIf("" \in ToSet(Names(built)) \/ Repeats(Names(test.fixtures) \o Names(built)), "FIXTURE_DUPLICATE")
     \cup ReportIf(\E i \in DOMAIN built : built[i].binding = "", "FIXTURE_BINDING")
     \cup ReportIf(Repeats([i \in DOMAIN test.fixtures |-> test.fixtures[i].binding]
                           \o [i \in DOMAIN built |-> built[i].binding]), "FIXTURE_BINDING")

ValidateTestBuildDependencies(ir) ==
  UNION {UNION {ValidateTestBuild(ir, ir.packages[i], ir.packages[i].tests[j]) : j \in DOMAIN ir.packages[i].tests} :
           i \in DOMAIN ir.packages}

-----------------------------------------------------------------------------
(* Run targets and the development backend.  A readiness check and a service   *)
(* are abstract too: "odd" is one whose details are invalid.                  *)
ReadyKinds == {"http", "tcp", "stdout-match"}
UrlIsOptional(target) == target.ready \in {"none", "tcp", "stdout-match"}

ValidateRequirements(requires) ==
  LET service(r) == ReportIf(\/ r.kind \notin {"", "service"} \/ r.name = ""
                             \/ Cardinality({r.tcp, r.http} \ {"none"}) # 1 \/ "" \in {r.tcp, r.http}
                             \/ r.expectStatus \notin {0} \cup 100..599 \/ r.timeoutMs \notin 0..60000, "SERVICE")
  IN All(requires, service) \cup ReportIf(Repeats(Names(requires)), "SERVICE_DUPLICATE")

ValidateRunTargets(targets) ==
  LET target(t) ==
        ReportIf(t.name = "", "RUN_TARGET")
        \cup ReportIf(t.runtime \notin {"", "system", "node", "bun", "deno"}, "RUN_RUNTIME")
        \cup ReportIf(t.explicitRuntime \notin {"", t.runtime}, "RUN_RUNTIME")
        \cup ReportIf(t.cwd \notin {"", "workspace", "package"}, "RUN_CWD")
        \cup ReportIf(t.command = <<>> \/ "" \in ToSet(t.command), "RUN_COMMAND")
        \cup ReportIf(t.url = "odd" \/ (t.url = "" /\ ~UrlIsOptional(t)), "RUN_URL")
        \cup ReportIf(t.ready \notin ReadyKinds \cup {"none"}, "RUN_READY")
        \cup ReportIf("" \in ToSet(t.env), "ENV") \cup ReportIf(Repeats(t.env), "ENV_DUPLICATE")
        \cup ValidateRequirements(t.requires)
  IN All(targets, target) \cup ReportIf(Repeats(Names(targets)), "RUN_DUPLICATE")

ValidateDevBackend(backends) ==
  LET backend(b) ==
        ReportIf(b.kind \notin {"process", "aspnet"}, "BACKEND_KIND")
        \cup ReportIf(b.cwd \notin {"", "workspace", "package"}, "BACKEND_CWD")
        \cup ReportIf(b.owns /\ b.command = <<>>, "BACKEND_COMMAND")
        \cup ReportIf("" \in ToSet(b.command), "BACKEND_COMMAND")
        \cup ReportIf(b.url \in {"", "odd"}, "BACKEND_URL")
        \cup ReportIf(IF b.ready = "none" THEN b.owns ELSE b.ready \notin ReadyKinds, "BACKEND_READY")
        \cup ReportIf("" \in ToSet(b.routes), "PROXY_ROUTE") \cup ReportIf(Repeats(b.routes), "PROXY_DUPLICATE")
        \cup ReportIf(b.proxyTarget = "odd", "PROXY_TARGET")
  IN All(backends, backend)

(* A boundary is scoped by its source files or by what they reach, not both; *)
(* a scope that is given but empty is invalid.                               *)
ValidateBoundaries(boundaries) ==
  LET boundary(b) ==
        ReportIf("from" \in b.given /\ "transitiveFrom" \in b.given, "BOUNDARY_SCOPE")
        \cup ReportIf("from" \in b.given /\ b.scope = "", "BOUNDARY")
        \cup ReportIf("transitiveFrom" \in b.given /\ b.scope = "", "BOUNDARY_TRANSITIVE_FROM")
        \cup ReportIf("" \in b.allowOnly, "BOUNDARY_ALLOW_ONLY")
        \cup ReportIf("" \in b.denyTypeDeps, "BOUNDARY_DENY_TYPE_DEPS")
  IN All(boundaries, boundary)

TypePolicies ==
  [declarations |-> {"required", "optional", "none"}, missingTypes |-> {"error", "warn", "ignore"},
   publicTypeLeakage |-> {"error", "warn", "ignore"}, typeOnlyRuntimeLeakage |-> {"error", "warn", "ignore"}]
BoundaryPolicies ==
  [undeclaredImports |-> {"error", "warn", "ignore"}, phantomDependencies |-> {"error", "warn", "ignore"},
   crossTargetImports |-> {"error", "warn", "ignore"}, strict |-> {"error", "warn", "ignore"}]

ValidatePolicies(policies) ==
  LET odd(stated, known) == \E k \in DOMAIN stated : k \notin DOMAIN known \/ stated[k] \notin known[k]
  IN ReportIf(odd(policies.types, TypePolicies) \/ odd(policies.boundaries, BoundaryPolicies), "POLICY")

(* The Skyrim bridge: its fixed outputs and destinations, three commands, the *)
(* paths it reads, and what may be overridden and packed.                     *)
SkyrimOutputs ==
  [bridge |-> "MarionetteSSE.esp", assetOutput |-> "build/assets/MarionetteSSE.esp",
   dll |-> "SKSE/Plugins/MarionetteSSE.dll", config |-> "SKSE/Plugins/MarionetteSSE.toml"]

ValidateSkyrimCommand(command) ==
  ReportIf(\/ command.command = <<>> \/ "" \in ToSet(command.command)
           \/ command.cwd \notin {"", "workspace", "package"}, "SKYRIM_COMMAND")

ValidateSkyrimTarget(bridges) ==
  LET bridge(b) ==
        ReportIf("" \in {b.name, b.host, b.runtimeVersion}, "SKYRIM_TARGET")
        \cup ReportIf(b.outputs # SkyrimOutputs, "SKYRIM_OUTPUT")
        \cup All(b.commands, ValidateSkyrimCommand)
        \cup ReportIf("" \in b.paths, "SKYRIM_PATH")
        \cup ReportIf(b.overrides # <<>> /\ b.overrideTarget = "", "SKYRIM_OVERRIDE_TARGET")
        \cup ReportIf(\/ \E i \in DOMAIN b.overrides : \/ b.overrides[i].path = ""
                                                       \/ b.overrides[i].type \notin {"boolean", "string", "integer"}
                      \/ Repeats([i \in DOMAIN b.overrides |-> b.overrides[i].path]), "SKYRIM_OVERRIDE")
        \cup ReportIf(~(ToSet(b.ini) \subseteq {"General.bAlwaysActive"}) \/ Len(b.ini) > 1, "SKYRIM_INI")
        \cup ReportIf(\/ b.packs = <<>> \/ Repeats(Names(b.packs))
                      \/ \E i \in DOMAIN b.packs : "" \in {b.packs[i].name, b.packs[i].source}, "SKYRIM_PACK")
        \cup ReportIf(b.records = {} \/ b.readyMarker = "", "SKYRIM_EVIDENCE")
  IN All(bridges, bridge)

-----------------------------------------------------------------------------
(* Validate: everything that is wrong, in no order. *)
Validate(ir) ==
  LET package(p) ==
        ValidatePackage(p) \cup PreparePackageAuthoring(p) \cup ValidateDependencies(p) \cup ValidateTargets(p)
        \cup ValidateDevBackend(p.devBackend) \cup ValidateSkyrimTarget(p.skyrim) \cup ValidateTests(p)
        \cup ValidateRunTargets(p.runTargets) \cup ValidatePolicies(p.policies) \cup ValidateBoundaries(p.boundaries)
  IN ValidateWorkspace(ir) \cup ValidateCompatFiles(ir.compatFiles) \cup ValidateAcknowledged(ir.security)
     \cup ValidateUpdatePolicy(ir.updatePolicy) \cup ValidateRegistryPolicy(ir.registryPolicy)
     \cup All(ir.packages, package)
     \cup ReportIf(Repeats(Names(ir.packages)), "DUPLICATE_PACKAGE")
     \cup ReportIf(Cardinality({i \in DOMAIN ir.packages : ir.packages[i].skyrim # <<>>}) > 1, "SKYRIM_DUPLICATE")
     \cup ValidateBuildTargetDependencies(ir) \cup ValidateTestBuildDependencies(ir)

Accepted(ir) == Validate(ir) = {}

-----------------------------------------------------------------------------
(* In an accepted manifest the build targets have an order, and what a test    *)
(* builds before it runs has one too: it ends with everything the test waits    *)
(* for, and has built the producer of every built fixture, which declares the   *)
(* artifacts the fixture binds.  No two fixtures of a test share a destination. *)
AcceptedIsBuildable(ir) ==
  LET graph == BuildGraph(ir)
      bindings(t) == [i \in DOMAIN t.fixtures |-> t.fixtures[i].binding]
                     \o [i \in DOMAIN t.builtFixtures |-> t.builtFixtures[i].binding]
      testIsReady(p, t) ==
        LET order == OrderWorkspaceBuildTargets(graph, DependsOn(p.name, t.dependsOn))
            bound(f) == LET producer == ResolveBuildTargetReference(p.name, f.target)
                        IN /\ producer \in ToSet(order)
                           /\ ToSet(f.artifacts) \subseteq DeclaredTargetArtifacts(TargetNamed(ir, producer))
        IN /\ ~Impossible(order)
           /\ ToSet(DependsOn(p.name, t.dependsOn)) \subseteq ToSet(order)
           /\ \A i \in DOMAIN t.builtFixtures : bound(t.builtFixtures[i])
           /\ IsInjective(bindings(t))
  IN Accepted(ir) =>
       /\ ~Impossible(OrderWorkspaceBuildTargets(graph, SetToSeq(DOMAIN graph)))
       /\ \A p \in ToSet(ir.packages) : \A t \in ToSet(p.tests) : testIsReady(p, t)

=============================================================================
