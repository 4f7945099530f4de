----------------------------- MODULE MCDecisions -----------------------------
(***************************************************************************)
(* The decisions of the program that are functions of what it has read: each  *)
(* initial state asks one question, of one module.  Three of the questions are *)
(* behaviours, a workflow of FlowTrees, a session of RunSessions and the       *)
(* builds of a target of TargetBuilds; in every other state these are at rest. *)
(***************************************************************************)
EXTENDS FlowTrees, RunSessions, TargetBuilds

CONSTANT Sound(_)  \* whether the answer to a question is what its module promises

VARIABLE question

Run(kind, ready, once, owned, foreign) ==
  [kind |-> kind, ready |-> ready, once |-> once, owned |-> owned, foreign |-> foreign]

(* Every way to run a target, a development server with a backend of its own too. *)
Runs ==
  {Run("finite", "listener", FALSE, FALSE, FALSE)}
  \cup {Run("server", "output", once, FALSE, FALSE) : once \in BOOLEAN}
  \cup {Run("server", "listener", once, FALSE, foreign) : once, foreign \in BOOLEAN}
  \cup {Run("dev", "listener", once, owned, FALSE) : once, owned \in BOOLEAN}

EveryTarget == [tool : {"tsc", "tscl", "scriptc", "perry", "bundler"}, preserve : BOOLEAN]

Registry == INSTANCE RegistryChain
Imports  == INSTANCE ImportBoundaries
Order    == INSTANCE BuildOrder
Plan     == INSTANCE WorkflowPlan
Tape     == INSTANCE Authoring
Accepts  == INSTANCE Manifest
Draft    == INSTANCE Migration
Packed   == INSTANCE Packing
Served   == INSTANCE BrowserPackages
Expanded == INSTANCE Frontend
Relock   == INSTANCE Lockfile
Audit    == INSTANCE Acknowledgements

Asked(topic) == question.topic = topic

-----------------------------------------------------------------------------
(* Authored workflows: every form around two effects, and around a form and an *)
(* effect.                                                                   *)
A == Effect("a")
B == Effect("b")
C == Effect("c")
D == Effect("d")
E == Effect("e")
F == Effect("f")

Decide(first, x, y) ==
  Match(first, <<[outcome |-> "succeeded", flow |-> x], [outcome |-> "failed", flow |-> y],
                  [outcome |-> "cancelled", flow |-> Nothing],
                  [outcome |-> "timedOut", flow |-> Nothing]>>)

Loops(items) ==
  {ForEach("sequential", 1, "failFast", items), ForEach("sequential", 1, "collectAll", items),
   ForEach("parallel", 1, "failFast", items), ForEach("parallel", 2, "collectAll", items)}

Plain(x, y, first) ==
  {Sequence(<<x, y>>), Parallel(<<x, y>>), Decide(first, x, y)} \cup Loops(<<x, y>>)
Pairs(x, y, first) == Plain(x, y, first) \cup {Finally(x, y)}

(* Forms within forms: every Finally stands in or around another form.     *)
SmallTrees == UNION {Pairs(p, C, E) : p \in Pairs(A, B, D)}

(* A cleanup, alone and of two effects, around every form without one. *)
CleanupTrees ==
  UNION {{Finally(p, C), Finally(p, Sequence(<<C, E>>))} : p \in Plain(A, B, D)}

(* Loops over three items, each an effect, a pair or a decision. *)
LoopTrees ==
  Loops(<<A, B, C>>)
    \cup UNION {Loops(<<Sequence(<<A, B>>), C, p>>) : p \in {D, Decide(D, E, F)}}
    \cup {ForEach("parallel", 2, "failFast", <<A, Sequence(<<B, C>>), D>>)}

(* Conditions on a fact of a. *)
Condition == When("a", B, C)
WhenTrees ==
  {Sequence(<<A, Condition, D>>), Sequence(<<A, Parallel(<<Condition, D>>)>>),
   Finally(Sequence(<<A, Condition>>), D),
   Sequence(<<A, ForEach("sequential", 1, "collectAll", <<Condition, D>>)>>),
   Sequence(<<A, When("a", When("a", B, C), D)>>),
   Sequence(<<A, Parallel(<<On(<<Condition>>), Decide(D, E, Nothing)>>)>>)}

(* Every form, and the scopes with an ending of their own. *)
AllTrees == SmallTrees \cup WhenTrees \cup CleanupTrees \cup LoopTrees

BothFacts == {"true", "false"}

-----------------------------------------------------------------------------
(* Chains of up to three endpoints, the first of three out of reach.         *)
Endpoint(metadata, integrity, artifact, skips, wait) ==
  [skips |-> skips, metadata |-> metadata, integrity |-> integrity, artifact |-> artifact, wait |-> wait]

Same(answer) == <<answer, answer>>
Refusals == {"missing", "denied", "odd", "throttled", "broken", "cut", "unknown", "garbled"}

Endpoints ==
  {Endpoint(Same(m), "none", Same("ok"), skips, -1) : m \in Refusals, skips \in BOOLEAN}
  \cup {Endpoint(<<"throttled", m>>, "x", Same("ok"), FALSE, 20) : m \in {"ok", "broken", "throttled"}}
  \cup {Endpoint(Same("ok"), integrity, Same(a), skips, -1) :
          integrity \in {"absent", "none", "x", "y"}, a \in {"ok", "missing", "denied", "broken", "throttled"},
          skips \in BOOLEAN}

Chains ==
  {<<a>> : a \in Endpoints} \cup {<<a, b>> : a, b \in Endpoints}
  \cup {<<Endpoint(Same("cut"), "none", Same("ok"), FALSE, -1), a, b>> :
          a, b \in {e \in Endpoints : e.metadata = Same("ok") /\ ~e.skips}}

-----------------------------------------------------------------------------
(* One package whose one dependency is of any kind, with at most one rule.   *)
OneRule(from, transitive, deny, denyTypes, allow, allowOnly) ==
  [from |-> from, transitiveFrom |-> transitive, deny |-> deny, denyTypes |-> denyTypes,
   allow |-> allow, allowOnly |-> allowOnly]

Rules ==
  {<<>>} \cup
  UNION {{<<OneRule(scope[1], scope[2], {"a"}, {}, {}, Imports!Unspecified)>>,
          <<OneRule(scope[1], scope[2], {}, {"a"}, {}, Imports!Unspecified)>>,
          <<OneRule(scope[1], scope[2], {}, {}, {"b"}, Imports!Unspecified)>>,
          <<OneRule(scope[1], scope[2], {}, {}, {}, {})>>} :
         scope \in {<<{"m"}, {}>>, <<{"n"}, {}>>, <<{}, {"m"}>>, <<{}, {"n"}>>}}

Packages ==
  [name : {"p"}, deps : {[a |-> [kind |-> k, optional |-> o]] : k \in {"dep", "type", "peer", "tool"}, o \in BOOLEAN},
   targets : {{[entry |-> "m", deps |-> d, peers |-> e]} \cup others :
                d, e \in SUBSET {"a"},
                others \in {{}, {[entry |-> "o", deps |-> {"a"}, peers |-> {"a"}]}}},
   tools : {{}, {"a"}}, rules : Rules]

Import(at_, kind, to) == [at |-> at_, kind |-> kind, to |-> to]
Use(at_, kind) == [at |-> at_, kind |-> kind, package |-> "a"]

Sources ==
  {<<imports, uses>> :
     imports \in {{}, {Import("m", "runtime", "n")}, {Import("m", "type", "n")},
                  {Import("n", "runtime", "m"), Import("m", "type", "n")}},
     uses \in {{Use("m", "runtime")}, {Use("n", "runtime")}, {Use("n", "type")}}}

-----------------------------------------------------------------------------
(* Every graph of three targets, with edges to one that is not declared.     *)
BuildNames == {"a", "b", "c"}
Graphs == [BuildNames -> {<<>>, <<"a">>, <<"b">>, <<"c">>, <<"a", "b">>, <<"c", "b">>, <<"d">>}]

-----------------------------------------------------------------------------
(* Jobs over a matrix of one axis, and trees with a mistake in any place.    *)
Step(op) ==
  [op |-> op, packages |-> {}, targets |-> {}, target |-> {}, filter |-> {}, audit |-> "unset",
   command |-> <<>>, script |-> FALSE, shell |-> "unset", cwd |-> "unset", caps |-> {}, env |-> <<>>,
   timeout |-> 0, transfer |-> "unset", inputs |-> <<>>]

JobNamed(identity, needs, matrix, steps) ==
  [identity |-> identity, needs |-> needs, platform |-> "linux", matrix |-> matrix, env |-> <<>>, steps |-> steps]

Matrices == {<<>>, [axis |-> <<"1", "2">>]}
Steps == {<<Step("check")>>, <<Step("sync"), Step("odd")>>}
JobLists ==
  {<<JobNamed("j", n, m, <<Step("sync"), Step("check")>>), JobNamed("k", o, l, s)>> :
     n, o \in {<<>>, <<"j">>, <<"k">>}, m, l \in Matrices, s \in Steps}
  \cup {<<JobNamed("j", <<>>, m, <<Step("check")>>), JobNamed("k", n, m, <<Step("check")>>),
          JobNamed("l", o, m, <<Step("check")>>)>> :
          n \in {<<"j">>, <<"l">>}, o \in {<<>>, <<"j", "k">>, <<"k">>}, m \in Matrices}

Decided(first, outcomes, x) ==
  Match(first, [i \in DOMAIN outcomes |-> [outcome |-> outcomes[i], flow |-> IF i = 1 THEN x ELSE Process(outcomes[i])]])
EveryArm == <<"succeeded", "failed", "cancelled", "timedOut">>
Forks(x) ==
  {Parallel(<<Plan!Branch(i, <<E>>), Plan!Branch("y", x)>>) : i \in {"x", "y"}}
    \cup {Parallel(<<Plan!Branch("x", x)>>)}

Mistaken ==
  {A, Sequence(<<>>), Sequence(<<A, B>>), Decided(A, EveryArm, B), Decided(A, Tail(EveryArm), B), Finally(A, B),
   Plan!Condition(9, "f", A, Nothing), ForEach("parallel", 33, "failFast", <<A>>),
   ForEach("parallel", 0, "collectAll", <<A, B>>), ForEach("sequential", 2, "failFast", <<A>>),
   Plan!Region("linux", <<A>>), Plan!Region("unset", <<>>)}
  \cup Forks(<<A>>) \cup Forks(<<>>)

Around(t) ==
  {t, Sequence(<<F, t>>), Decided(C, EveryArm, t), Finally(t, D), Finally(D, t), Plan!Region("linux", <<t>>),
   Plan!Condition(1, "f", t, D), ForEach("sequential", 0, "failFast", <<t, D>>),
   ForEach("parallel", 2, "collectAll", <<D, t>>)}
  \cup {Parallel(<<Plan!Branch("x", <<D>>), Plan!Branch("z", <<t>>)>>)}

WorkflowForms == UNION {{Sequence(<<F, u>>) : u \in Around(t)} : t \in Mistaken}

-----------------------------------------------------------------------------
(* Up to three declarations of a package, and edits to them.                 *)
Row(from, name, constraint, kind, optional, key, origin, layer) ==
  [source |-> from, name |-> name, constraint |-> constraint, kind |-> kind, optional |-> optional,
   key |-> key, origin |-> origin, layer |-> layer]

Rows ==
  {Row("npm", "a", "1", "dep", FALSE, "", "own", ""), Row("npm", "a", "2", "peer", FALSE, "", "concept", "concept"),
   Row("npm", "a", "1", "dep", TRUE, "", "explicit-user-operation", "explicit"),
   Row("jsr", "a", "1", "dep", FALSE, "jsr:a", "own", ""),
   Row("npm", "a", "3", "dep", FALSE, "", "compatibility", "compatibility"),
   Row("npm", "b", "1", "test", FALSE, "", "own", ""), Row("npm", "b", "1", "tool", FALSE, "a", "own", "")}

Edits ==
  [op : {"add"}, source : {"npm", "jsr"}, name : {"a"}, constraint : {"1", "9"},
   kind : {"dep", "peer", "test"}, optional : BOOLEAN, explicit : BOOLEAN]
  \cup [op : {"remove"}, source : {"", "npm", "jsr"}, name : {"a", "b"}, kind : {"", "dep"},
        optional : {{TRUE}, BOOLEAN}]

RowLists == UNION {[1 .. n -> Rows] : n \in 0 .. 3}

(* Two concepts, the second of which requires or refuses the first.          *)
Stated(section, name, range, from) == [section |-> section, name |-> name, range |-> range, source |-> from]
StatedLists ==
  {<<>>, <<Stated("dependencies", "a", "1", "npm")>>, <<Stated("dependencies", "a", "2", "npm")>>,
   <<Stated("tools", "a", "1", "npm")>>, <<Stated("dependencies", "b", "1", "jsr")>>,
   <<Stated("dependencies", "a", "1", "npm"), Stated("peers", "b", "1", "npm")>>,
   <<Stated("peers", "b", "1", "npm"), Stated("dependencies", "a", "1", "npm")>>}

Fragment(kinds, requires, conflicts, dependencies, values) ==
  [kinds |-> kinds, requires |-> requires, requiresAnyOf |-> {}, conflicts |-> conflicts,
   dependencies |-> dependencies, values |-> values, slots |-> <<>>]

Registries ==
  {[c |-> Fragment({}, {}, {}, d, <<>>), e |-> Fragment({"app"}, r, x, g, v)] :
     d, g \in StatedLists, r, x \in SUBSET {"c"},
     v \in {<<>>, <<[path |-> "p", value |-> 1]>>, <<[path |-> "p", value |-> 1], [path |-> "p", value |-> 2]>>}}

-----------------------------------------------------------------------------
(* Manifests of two packages, whose targets and test refer to each other.    *)
Ref(package, name) == [package |-> package, name |-> name]

BuildTarget(name, dependsOn) ==
  [name |-> name, export |-> name, compiler |-> "", inputs |-> {name}, artifact |-> "", rid |-> "",
   artifacts |-> <<>>, entry |-> "e", runtime |-> "r", types |-> "", deps |-> {}, peers |-> {},
   dependsOn |-> dependsOn]

Package(name, targets, tests) ==
  [name |-> name, version |-> "1", root |-> ".", kind |-> "app", compiler |-> "", compilerPath |-> "",
   publish |-> {}, dependencies |-> <<>>, tools |-> {}, targets |-> targets, tests |-> tests,
   devBackend |-> <<>>, skyrim |-> <<>>, runTargets |-> <<>>,
   policies |-> [types |-> <<>>, boundaries |-> <<>>], boundaries |-> <<>>]

Test(dependsOn, fixture) ==
  [name |-> "test", harness |-> "vitest", sources |-> {"s"}, requirements |-> <<>>, fixtures |-> <<>>,
   dependsOn |-> dependsOn, builtFixtures |-> <<fixture>>]

Workspace(packages) ==
  [format |-> 1, name |-> "w", runtime |-> "", packages |-> packages, compatFiles |-> <<>>,
   security |-> [capabilities |-> <<>>, categories |-> <<>>], updatePolicy |-> <<>>,
   registryPolicy |-> [allowedSources |-> <<>>, sources |-> <<>>]]

Manifests ==
  {Workspace(<<Package("a", <<BuildTarget("t", d), BuildTarget("u", e)>>,
                       <<Test(n, [name |-> "f", target |-> g, artifacts |-> <<h>>, binding |-> "f"])>>),
               Package("b", <<BuildTarget("t", i)>>, <<>>)>>) :
     d \in {<<>>, <<Ref("b", "t")>>, <<Ref("", "u")>>}, e \in {<<>>, <<Ref("", "t")>>},
     i \in {<<>>, <<Ref("a", "t")>>, <<Ref("a", "u")>>},
     n \in {<<Ref("", "t")>>, <<Ref("b", "t")>>, <<Ref("", "t"), Ref("b", "t")>>, <<Ref("", "v")>>},
     g \in {Ref("", "t"), Ref("", "u"), Ref("b", "t")}, h \in {"javaScript", "typeDeclarations"}}

-----------------------------------------------------------------------------
(* Up to three targets over three files, the last outside src.               *)
Compiles(compiler, inputs) == [compiler |-> compiler, inputs |-> inputs]
OwningTargets ==
  {Compiles("tsc", i) : i \in {Imports!NoInputs, {"f"}}}
  \cup {Compiles("perry", i) : i \in {{"f"}, {"g"}, {"f", "h"}, {}}}
  \cup {Compiles("scriptc", i) : i \in {{"g"}, {"h"}}} \cup {Compiles("tscl", Imports!NoInputs)}

FileImports == SUBSET {<<"f", "g">>, <<"g", "f">>, <<"g", "h">>, <<"h", "f">>}

-----------------------------------------------------------------------------
(* What a migration reads: names that become one identifier, fields that       *)
(* repeat them, and the ways to import a package.                             *)
Foo == <<"foo">>
Foo2 == <<"foo", "2">>
AtFoo == <<"@", "foo">>

PackageFiles ==
  [fields : [peerDependencies : {<<>>, <<Foo>>, <<AtFoo>>},
             dependencies : {<<>>, <<Foo>>, <<AtFoo, Foo>>, <<AtFoo, Foo, Foo2>>, <<Foo2, Foo>>},
             optionalDependencies : {<<>>, <<Foo2>>}, devDependencies : {<<>>, <<Foo>>, <<AtFoo>>}],
   tools : {{}, {Foo}}]

ExportOf(name, runtime, types) == [name |-> name, runtime |-> runtime, types |-> types]
ExportingPackages ==
  [private : BOOLEAN, entries : {{}, {"main"}},
   exports :
     {<<>>} \cup {<<ExportOf(<<".">>, r, t)>> : r, t \in BOOLEAN}
     \cup {<<ExportOf(<<".">>, r, FALSE), ExportOf(<<".", "/", "a", "-", "2">>, s, TRUE),
             ExportOf(<<".", "/", "a", "/", "2">>, t, t), ExportOf(<<".", "/", "core">>, u, FALSE)>> :
            r, s, t, u \in BOOLEAN}]

ImportOf(name, how, typeKeyword, default, named) ==
  [name |-> name, how |-> how, typeKeyword |-> typeKeyword, default |-> default, named |-> named]

FilesImport ==
  SUBSET {ImportOf(Foo, "static", FALSE, FALSE, {TRUE}), ImportOf(Foo, "static", FALSE, TRUE, {TRUE}),
          ImportOf(AtFoo, "require", FALSE, FALSE, {}), ImportOf(<<"bar">>, "static", TRUE, FALSE, {FALSE})}

ScriptWords == {"cross-env", "A=1", "vite", "build", "node", "--test", "&&", "x"}
Scripts == [name : {"dev", "build", "x", "prepare"}, words : UNION {[1 .. n -> ScriptWords] : n \in 0 .. 3}]

LockFiles == [entries : [{Foo, <<"x">> \o Foo2} -> {Foo, Foo2}], root : {{Foo}, {Foo, Foo2}, {<<"bar">>}}]

Depends(name, value) == [name |-> name, value |-> value]
Workspaces ==
  {{[root |-> <<"a">>, name |-> Foo, dependencies |-> d], [root |-> <<"b", "/", "c">>, name |-> n, dependencies |-> e],
    [root |-> <<".">>, name |-> m, dependencies |-> {}]} :
     n, m \in {Foo, Foo2, AtFoo},
     d, e \in {{}, {Depends(Foo, "workspace:")}, {Depends(Foo2, "workspace:"), Depends(Foo, "catalog:")}}}

Migrations ==
  [write : BOOLEAN, force : BOOLEAN, check : BOOLEAN, valid : BOOLEAN, outputs : {<<"manifest", "report">>},
   existing : SUBSET {"manifest", "report"}, writable : 0 .. 2]

-----------------------------------------------------------------------------
(* Packages to pack, and the disks they are packed from.                      *)
Js == <<"dist", "a.js">>
Dts == <<"dist", "a.d.ts">>
Sub == <<"dist2", "s.js">>

Peer(range, npm, optional) == [name |-> "react", range |-> range, npm |-> npm, optional |-> optional]
PackTargets ==
  {<<>>, <<[export |-> ".", runtime |-> Js, types |-> Dts, peers |-> <<Peer("1", TRUE, FALSE)>>]>>,
   <<[export |-> ".", runtime |-> Js, types |-> <<>>, peers |-> <<>>]>>}
  \cup {<<[export |-> ".", runtime |-> Js, types |-> Dts, peers |-> <<Peer("1", TRUE, FALSE)>>],
          [export |-> "s", runtime |-> Sub, types |-> Dts, peers |-> <<Peer("2", npm, TRUE)>>]>> : npm \in BOOLEAN}

Pattern(kind, path) == [kind |-> kind, path |-> path, depth |-> 2]
Included ==
  {<<>>, <<Pattern("path", <<"dist">>)>>, <<Pattern("under", <<"dist">>)>>, <<Pattern("depth", <<>>)>>,
   <<Pattern("bad", <<>>)>>, <<Pattern("path", <<"dist">>), Pattern("path", Packed!PackageJSON)>>}
Excluded == {<<>>, <<Pattern("path", Sub)>>, <<Pattern("path", Dts)>>, <<Pattern("under", <<"dist">>)>>}

PackageOf(kind, include, exclude, targets) ==
  [kind |-> kind, identity |-> "p", include |-> include, exclude |-> exclude, targets |-> targets]
PackedPackages ==
  {PackageOf("library", i, x, t) : i \in Included, x \in Excluded, t \in PackTargets}
  \cup {PackageOf("service", <<Pattern("under", <<"dist">>)>>, <<>>, <<>>)}

OwnJSON(exports, peers) ==
  [identity |-> "p", main |-> {Js}, types |-> {Dts}, exports |-> exports, peers |-> peers, optional |-> {}]
Disk(there, links, exports, peers) == [files |-> there, links |-> links, json |-> OwnJSON(exports, peers)]
AllFiles == {Js, Dts, Sub, Packed!PackageJSON}
Disks ==
  {Disk(AllFiles, {}, {}, <<>>), Disk(AllFiles, {}, {{Js}}, [react |-> "1"]), Disk(AllFiles, {Sub}, {{Js}}, <<>>),
   Disk({Js, Dts}, {}, {{Js}}, <<>>), Disk({Js}, {}, {{Js}}, <<>>)}

Good == PackageOf("library", <<Pattern("under", <<"dist">>)>>, <<>>,
                  <<[export |-> ".", runtime |-> Js, types |-> Dts, peers |-> <<>>]>>)
PackRun(verify, dry, fails, at_, existing) ==
  [verify |-> verify, dry |-> dry, fails |-> fails, at |-> at_, existing |-> existing]
PackRuns ==
  {PackRun(v, FALSE, f, n, {1, 2}) : v \in BOOLEAN, f \in {"none", "rename"}, n \in 1 .. 2}
  \cup {PackRun(v, d, "write", 1, {1}) : v, d \in BOOLEAN}

(* A template with two files and local concepts, and the tree it comes into.      *)
To(names, spelled) == [names |-> names, spelled |-> spelled]
From(text, uses, rendered, missing) == [text |-> text, uses |-> uses, rendered |-> rendered, missing |-> missing]
Destinations == {To(<<"a">>, ""), To(<<"a">>, "./"), To(<<"a", "b">>, ""), To(<<"..", "a">>, ""), Packed!ManifestFile}
ConceptSources == {From("x", {}, FALSE, FALSE), From("y", {"n"}, TRUE, FALSE), From("y", {"o"}, TRUE, FALSE), From("x", {}, FALSE, TRUE)}
ConceptLists ==
  {<<>>} \cup {<<[name |-> "own", files |-> <<[to |-> to, from |-> from]>>]>> :
                to \in Destinations, from \in ConceptSources}
  \cup {<<[name |-> c, files |-> <<>>]>> : c \in {"react", "unlisted"}}
  \cup {<<[name |-> "own", files |-> <<[to |-> To(<<"b">>, ""), from |-> From("x", {}, FALSE, FALSE)]>>],
           [name |-> c, files |-> <<[to |-> To(<<"b">>, ""), from |-> From(t, {}, FALSE, FALSE)]>>]>> :
          c \in {"own", "other"}, t \in {"x", "y"}}
Templates ==
  {[local |-> l, generates |-> g, stack |-> {"own", "other", "react"},
    variables |-> [n |-> [default |-> "1", allowed |-> {"1", "2"}]], concepts |-> c,
    files |-> <<[to |-> To(<<"a">>, ""), from |-> From("x", {}, FALSE, FALSE)], [to |-> to, from |-> From("y", {"n"}, TRUE, FALSE)]>>,
    composes |-> TRUE, contributes |-> FALSE] :
     l, g \in BOOLEAN, c \in ConceptLists, to \in Destinations}
  \cup {[local |-> TRUE, generates |-> g, stack |-> {"react"}, variables |-> [n |-> [default |-> d, allowed |-> a]], concepts |-> <<>>,
         files |-> <<[to |-> To(<<"a">>, ""), from |-> From("y", {"n"}, TRUE, FALSE)]>>, composes |-> b, contributes |-> b] :
          g, b \in BOOLEAN, d \in {"", "1"}, a \in {{}, {"1"}, {"2"}}}
UserFile == [text |-> "mine", values |-> <<>>]
InitTrees ==
  {[files |-> <<>>, dirs |-> {}], [files |-> (<<"a">> :> UserFile), dirs |-> {}],
   [files |-> (<<"a", "b">> :> UserFile) @@ (<<"c">> :> UserFile), dirs |-> {}], [files |-> <<>>, dirs |-> {<<"a", "b">>}],
   [files |-> (<<"manifest.tsx">> :> UserFile), dirs |-> {}]}
InitRuns ==
  {[given |-> [n |-> g], force |-> f, dry |-> FALSE, fails |-> k, tree |-> t] :
     g \in {"", "2"}, f \in BOOLEAN, k \in {0, 2}, t \in InitTrees}
  \cup {[given |-> [n |-> "3"], force |-> TRUE, dry |-> TRUE, fails |-> 0, tree |-> t] : t \in InitTrees}

(* Up to two artifacts with the same name or bytes, and what is in the area.     *)
TransferSources ==
  {[kind |-> "regular", name |-> "x", bytes |-> b, copied |-> c] : b, c \in {"1", "2"}}
  \cup {[kind |-> "link", name |-> "x", bytes |-> "1", copied |-> "1"], [kind |-> "regular", name |-> "y", bytes |-> "1", copied |-> "1"]}
Areas ==
  {<<>>} \cup {(<<"r", "1", 1, "x">> :> b) : b \in {"1", "2"}}
  \cup {(<<"r", "1", 1, "x">> :> "1") @@ (<<"r", "2", 2, "x">> :> b) : b \in {"1", "2"}}
Transfers ==
  {[target |-> "r", sources |-> s, fails |-> f, at |-> k, area |-> a] :
     s \in BoundedSeq(TransferSources, 3), f \in {"none", "copy", "rename", "cancel"}, k \in 1 .. 2, a \in Areas}

-----------------------------------------------------------------------------
(* What a page imports, the packages it comes from, and attachment artifacts.  *)
Specifiers ==
  {<<"a">>, <<"a", "/", "b">>, <<"a", "-", "b">>, <<"@", "a", "/", "b">>, <<"react">>, <<"react-dom", "/", "client">>}
SpecifierLists == {<<x, y>> : x, y \in Specifiers}
Exported(kind, path, of) == [kind |-> kind, path |-> path, of |-> of]
At(path) == Exported("path", path, <<>>)
ExportValues ==
  {Exported("none", "", <<>>), Exported("odd", "", <<>>), At("m.js"), At("../out"),
   Exported("map", "", <<".">> :> At("m.js")), Exported("map", "", <<"require">> :> At("m.js")),
   Exported("map", "", <<"import">> :> Exported("map", "", <<"default">> :> At("n.js"))),
   Exported("map", "", (<<".", "/", "b">> :> At("n.js")) @@ (<<".">> :> Exported("map", "", <<"browser">> :> At("m.js"))))}
BrowserPackage(exports, entries, cjs) ==
  [installed |-> TRUE, exports |-> exports, entries |-> entries, files |-> {"m.js", "n.js"}, cjs |-> cjs, node |-> {"n.js"}]
BrowserGraphs ==
  {[r \in {Served!PackageRootName(x) : x \in Specifiers} |->
      IF r = <<"a">> THEN p ELSE BrowserPackage(Exported("none", "", <<>>), <<"unset", "m.js", "unset">>, {"m.js"})] :
     p \in {BrowserPackage(e, f, c) :
              e \in ExportValues, f \in {<<"unset", "unset", "n.js">>, <<"gone.js", "m.js", "unset">>},
              c \in SUBSET {"m.js", "n.js"}}}
PlanEntries == {<<>>} \cup [1 .. 2 -> [id : {"x", "y"}, whole : {TRUE}, lives : BOOLEAN]]
Artifacts == [listed : BOOLEAN, schema : {1, 2}, project : {"", "p"}, plans : PlanEntries]

(* Lockfiles with any edges between two packages, two versions of a third, and  *)
(* the roots of two packages of the workspace.                                *)
Uses(key, name, kind, runtime) ==
  [key |-> key, source |-> "npm", name |-> name, kind |-> kind, runtime |-> runtime, peer |-> {}]
WhyWorkspace ==
  {[name |-> "p", targets |-> {"t"}, dependencies |-> {Uses("x", "x", "dep", {"t"}), Uses("tool", "y", "tool", {})}],
   [name |-> "q", targets |-> {"u"}, dependencies |-> {Uses("z", "z", "dep", {"u"})}]}
X == <<"npm", "x", "1">>
Y == <<"npm", "y", "1">>
Z == <<"npm", "z", "1">>
LockEdge(from, to, optional) == [from |-> from, to |-> to, kind |-> "dep", optional |-> optional, reference |-> to[2]]
LockEdges ==
  {LockEdge(<<"p", "target", "t">>, X, FALSE), LockEdge(<<"p", "tool">>, Y, FALSE), LockEdge(<<"q", "target", "u">>, Z, FALSE),
   LockEdge(X, Y, FALSE), LockEdge(Y, Z, TRUE), LockEdge(Z, X, FALSE), LockEdge(X, Z, FALSE), LockEdge(Z, Y, TRUE)}

(* Two consumers of a package with a peer, of which there are two versions.    *)
Locked(id, name, version) ==
  [id |-> id, name |-> name, source |-> "npm", version |-> version, usage |-> name, hash |-> id, path |-> 0]
LockedEdge(from, to) == [from |-> from, to |-> to, kind |-> "dep", ref |-> 0]
PeerOf(id, selected) ==
  [id |-> id, of |-> id, source |-> "npm", name |-> 12, ref |-> 12, kind |-> "peer", optional |-> FALSE,
   selected |-> selected]
Relocks ==
  {[packages |-> {Locked(1, 11, 1), Locked(2, 12, 1), Locked(3, 12, 2), Locked(4, 13, 1)},
    roots |-> (101 :> [consumer |-> 1, section |-> "target"]) @@ (102 :> [consumer |-> 2, section |-> "target"]),
    edges |-> edges, requirements |-> requirements, targets |-> {}, instances |-> Relock!NoInstances,
    rootInstances |-> {}] :
     edges \in SUBSET {LockedEdge(101, 1), LockedEdge(101, 2), LockedEdge(102, 3), LockedEdge(102, 4), LockedEdge(4, 1),
                       LockedEdge(1, 4), LockedEdge(4, 2)},
     requirements \in {{}, {PeerOf(1, 0)}, {PeerOf(1, 3)}, {PeerOf(1, 2), PeerOf(2, 0)}}}

-----------------------------------------------------------------------------
(* Two packages with run targets, and one target on many machines.            *)
RunTarget(name, runtime, cwd, ready, url, env, requires) ==
  [name |-> name, runtime |-> runtime, command |-> "x", cwd |-> cwd, ready |-> ready, url |-> url, env |-> env,
   requires |-> requires]
PlainTarget(name) == RunTarget(name, "", "", "none", <<>>, <<>>, <<>>)
RunLists == {<<>>, <<PlainTarget("dev")>>, <<PlainTarget("x")>>, <<PlainTarget("x"), PlainTarget("dev")>>,
             <<PlainTarget("x"), PlainTarget("y")>>}
Runs1(name) ==
  {[name |-> name, root |-> name, compiler |-> c, browser |-> {}, runTargets |-> l] : c \in {"tsc", "tscl"}, l \in RunLists}
  \cup {[name |-> name, root |-> name, compiler |-> "tscl", browser |-> {PlainTarget("page")}, runTargets |-> l] : l \in RunLists}
RunPackages == {<<p, q>> : p \in Runs1("a"), q \in Runs1("b")} \cup {<<p>> : p \in Runs1("a")}

VarA == <<"A", "upper">>
Vara == <<"A", "lower">>
VarPath == <<"PATH", "upper">>
Text(x) == << <<"text", x>> >>
Usr == << <<"dir", "usr">> >>
Environs ==
  {<< <<VarPath, Usr>> >>, << <<VarPath, Usr>>, <<VarA, Text("1")>> >>, << <<Vara, Text("1")>>, <<VarPath, Usr>> >>,
   << <<VarPath, Usr>>, << <<"PATH", "lower">>, <<>> >> >>, <<>>, << <<VarPath, Usr>>, <<VarA, << <<"key", VarA>> >> >> >>}
Givens ==
  {<<>>, << <<VarA, Text("2")>> >>, << <<Vara, Text("2")>> >>, << <<VarA, Text("2")>>, <<Vara, Text("3")>> >>,
   << <<VarA, Text("2")>>, <<VarA, Text("3")>> >>, << <<VarPath, << <<"dir", "p">> >> >> >>}
DeclaredEnv(key, value, required, secret) == [key |-> key, value |-> value, required |-> required, secret |-> secret]
DeclaredEnvs ==
  {<<>>, <<DeclaredEnv(VarA, Text("0"), TRUE, FALSE)>>, <<DeclaredEnv(VarA, NoDefault, TRUE, TRUE)>>,
   <<DeclaredEnv(Vara, NoDefault, FALSE, FALSE)>>,
   <<DeclaredEnv(Vara, Text("0"), FALSE, TRUE), DeclaredEnv(VarA, Text("4"), FALSE, FALSE)>>}
Urls == {Text("u"), Text("u") \o << <<"key", VarA>> >>, << <<"key", Vara>>, <<"open", Vara>> >>}
Requirements == {<<>>, <<[reachable |-> FALSE, optional |-> TRUE]>>,
                 <<[reachable |-> TRUE, optional |-> FALSE], [reachable |-> FALSE, optional |-> FALSE]>>}
Executables == [{".", "p", "usr"} -> {{}, {"x"}, {"x", "node", "bun"}}]
Host(windows, executables, environ) == [windows |-> windows, executables |-> executables, environ |-> environ]
Everywhere == [d \in {".", "p", "usr"} |-> {"x", "node"}]
Launches ==
  {[machine |-> Host(w, Everywhere, e), target |-> RunTarget("t", r, "package", "http", u, d, <<>>), given |-> g] :
     w \in BOOLEAN, e \in Environs, r \in {"", "system"}, u \in Urls, d \in DeclaredEnvs, g \in Givens}
  \cup {[machine |-> Host(FALSE, x, e), target |-> RunTarget("t", r, c, "none", <<>>, <<>>, q), given |-> <<>>] :
     x \in Executables, e \in {<< <<VarPath, Usr>> >>, << <<VarPath, Usr>>, << <<"PATH", "lower">>, <<>> >> >>},
     r \in {"", "bun", "system"}, c \in {"", "package"}, q \in Requirements}

-----------------------------------------------------------------------------
(* Programs with two constants, an effect and a loop, and a loop over values,   *)
(* over the constants or over effects; and split workspaces of two rows.       *)
W(name) == Expanded!Named(name)
Array2 == Expanded!Array(<<Expanded!Text("p"), Expanded!Text("q")>>)
LoopOf(identity, over, body, mode, policy) ==
  Expanded!Loop(identity, "loop", over, Expanded!Callback("v", body), mode, policy)

Test5 == Expanded!Native("test", "5")
UseOf(value) == Expanded!Consuming("transfer", "6", Expanded!FieldOf(value, "artifacts"))
Arms(x) ==
  [i \in DOMAIN EveryArm |-> Expanded!Arm(EveryArm[i], IF i = 1 THEN Expanded!Callback("r", x) ELSE Test5)]
OwnMatches == {Expanded!MatchResult(Expanded!Native("build", "7"), Arms(UseOf(W("r"))))}
Bodies ==
  {Test5, UseOf(W("a")), UseOf(W("v")), Expanded!Placed("sequence", <<W("a"), UseOf(W("a"))>>),
   Expanded!Placed("region", <<UseOf(W("a"))>>), Expanded!Placed("sequence", <<W("v"), UseOf(W("v"))>>),
   Expanded!Ensured(UseOf(W("a")), Test5), W("w"), Expanded!FieldOf(W("a"), "passed"),
   Expanded!MatchResult(W("a"), Arms(UseOf(W("r")))), Expanded!MatchResult(W("v"), Arms(UseOf(W("r")))),
   Expanded!MatchResult(W("a"), Tail(Arms(Test5)))}
Nested == {LoopOf("n", Expanded!Array(<<Expanded!Native("build", "8")>>), b, "sequential", "failFast") :
             b \in {Test5, Expanded!Placed("sequence", <<W("v"), UseOf(W("v"))>>), UseOf(W("a"))}}
Overs == {Array2, Expanded!Array(<<>>), W("l"), W("a"), Expanded!Array(<<W("a"), Expanded!Native("build", "9")>>)}
ProgramOf(policy, last) ==
  [constants |-> <<[name |-> "a", value |-> Expanded!Native("build", "1")],
                   [name |-> "l", value |-> LoopOf("l", Array2, Expanded!Native("build", "2"), "parallel", policy)]>>,
   flow |-> Expanded!Placed("sequence", <<W("a"), W("l"), last>>)]
Programs ==
  {ProgramOf(policy, LoopOf("m", over, body, mode, "collectAll")) :
     policy \in {"failFast", "collectAll"}, mode \in {"sequential", "parallel"}, over \in Overs,
     body \in Bodies \cup Nested \cup OwnMatches}
  \cup {ProgramOf(policy, UseOf(Expanded!IndexOf(W(x), i))) :
          policy \in {"failFast", "collectAll"}, x \in {"a", "l"}, i \in {0, 1, 2}}

ManifestRow(name, at_, manifest) == [name |-> name, root |-> at_, manifest |-> manifest]
Document(helper, package, inline, rows) ==
  [named |-> TRUE, forbidden |-> {}, helper |-> helper, constants |-> <<>>, flow |-> Test5, inline |-> inline,
   rows |-> rows, package |-> package, declared |-> {"own"}, stranger |-> FALSE]
Roots ==
  {Document("defineWorkspace", "", inline, <<<<ManifestRow("a", r, f), ManifestRow(n, q, g)>>>>) :
     inline \in {<<>>, <<"c">>}, n \in {"a", "b"}, r, q \in {<<"x">>, <<".">>, <<".", "x">>, <<"..", "x">>},
     f, g \in {<<"x", "m">>, <<"y", "m">>, <<".", "x", "m">>}}
DisksRead ==
  [{<<"x", "m">>, <<"y", "m">>} -> {Document(h, p, <<>>, <<>>) : h \in {"definePackage", "annotatePackage"}, p \in {"a", "b"}}]

-----------------------------------------------------------------------------
(* Two packages with lifecycle scripts, up to two acknowledgements and up to two  *)
(* categories; and the edges by which four packages are pulled in.               *)
LockWith(scripts) == [scripts |-> scripts, edges |-> {}, roots |-> <<>>]
ScriptLocks ==
  {LockWith(<<p, q>>) :
     p \in {<<>>, [postinstall |-> "a"], [postinstall |-> "a", prepare |-> "b"]},
     q \in {<<>>, [prepare |-> "b"]}}

Ack(package, script, command, fixture, report) ==
  [package |-> package, script |-> script, command |-> command, fixture |-> fixture, report |-> report]
Acks == {Ack(1, "postinstall", "a", "f", ""), Ack(1, "postinstall", "x", "", "r"), Ack(1, "postinstall", "y", "", ""),
         Ack(2, "prepare", "x", "f", "r"), Ack(3, "prepare", "b", "", "")}
AckLists == {l \in UNION {[1 .. n -> Acks] : n \in 0 .. 2} : \A i, j \in DOMAIN l : l[i] = l[j] => i = j}

CategoryAck(category, scripts) == [category |-> category, scripts |-> scripts]
CategoryAcks ==
  {CategoryAck("consumer-install", {}), CategoryAck("consumer-install", {"postinstall"}),
   CategoryAck("maintainer-publish", {"prepare", "install"})}
CategoryLists ==
  {l \in UNION {[1 .. n -> CategoryAcks] : n \in 0 .. 2} : \A i, j \in DOMAIN l : l[i] = l[j] => i = j}

EvidenceDisks == {[f |-> "text", r |-> "json"], [f |-> "directory", r |-> "text"]}
Audited(fails, lockfile, lock, acks, categories) ==
  [fails |-> fails, lockfile |-> lockfile, lock |-> lock, acks |-> acks, categories |-> categories]
AuditedProjects ==
  {Audited({}, "read", l, a, c) : l \in ScriptLocks, a \in AckLists, c \in CategoryLists}
  \cup {Audited(f, k, l, a, <<>>) :
          f \in {{"version", "file", "output"}, {"node"}, {}}, k \in {"missing", "invalid", "read"}, l \in ScriptLocks, a \in AckLists}

PulledRoots == (101 :> "target") @@ (102 :> "test") @@ (103 :> "dependency")
PulledEdges == ({[from |-> f, to |-> t] : f \in {101, 102, 1, 2, 3}, t \in 1 .. 3}
                   \ {[from |-> i, to |-> i] : i \in 1 .. 3})
               \cup {[from |-> 103, to |-> 1]}

-----------------------------------------------------------------------------
(* Two packages that declare one dependency, and what its registry, its lock and   *)
(* its policy say; the latest version has scripts, and may be lower than another.   *)
V1 == <<1, 0, 0>>
V11 == <<1, 1, 0>>
V2 == <<2, 0, 0>>
V9 == <<9, 0, 0>>
V10 == <<10, 0, 0>>
Declares(package, from, kind, range) ==
  [package |-> package, source |-> from, name |-> "a", kind |-> kind, range |-> range]
DeclaredSets ==
  {{Declares("p", "npm", "dep", r), Declares("q", s, k, q)} :
     r \in {{V1, V11}, {V9, V10}}, q \in {{V1, V11}, {V1, V2}}, s \in {"npm", "workspace"}, k \in {"dep", "tool"}}
Published(versions, latest, scripts) ==
  [reachable |-> TRUE, versions |-> [v \in versions |-> scripts], latest |-> latest]
CandidateScripts == {<<>>, [postinstall |-> "a", x |-> "b"], [prepare |-> "b"], [prepare |-> "b", postinstall |-> "a"]}
MetadataOf(scripts) ==
  {Published({V1, V11, V2}, l, scripts) : l \in {{}, {V11}, {V2}}}
  \cup {Published({V1, V2, V9, V10}, l, scripts) : l \in {{V2}, {V10}, {V11}}}
  \cup {[reachable |-> FALSE, versions |-> <<>>, latest |-> {}]}
LockedSets == {{[name |-> "a", version |-> v] : v \in s} : s \in {{}, {V1}, {V11}, {V2}, {V1, V2}, {V9, V10}}}
PolicyRow(kind, packages, strategy, level) ==
  [name |-> "a", kind |-> kind, packages |-> packages, strategy |-> strategy, level |-> level]
PolicyRows ==
  {<<>>, <<PolicyRow("any", {}, "rolling", "minor")>>, <<PolicyRow("dep", {}, "rolling", "patch"), PolicyRow("any", {"q"}, "rolling", "latest")>>,
   <<PolicyRow("dep", {}, "manual", ""), PolicyRow("any", {"p"}, "rolling", "major")>>,
   <<PolicyRow("any", {}, "rolling", "latest"), PolicyRow("tool", {"q"}, "pinned", "")>>}
CandidateAck(version, script, command) == Ack(<<"a", version>>, script, command, "", "")
CandidateAcks ==
  {<<>>, <<CandidateAck(V2, "postinstall", "a")>>, <<CandidateAck(V2, "postinstall", "x"), CandidateAck(V2, "prepare", "b")>>,
   <<CandidateAck(V11, "prepare", "x")>>}
Securities ==
  {[acks |-> a, categories |-> c] :
     a \in CandidateAcks, c \in {<<>>, <<CategoryAck("consumer-install", {}), CategoryAck("maintainer-publish", {"prepare"})>>}}
World(declared, meta, locked, rows, security) ==
  [declared |-> declared, registry |-> [a |-> meta], locked |-> locked, rows |-> rows,
   acks |-> security.acks, categories |-> security.categories]
PlanQuestions ==
  \/ \E d \in DeclaredSets, m \in MetadataOf([postinstall |-> "a"]), l \in LockedSets, r \in PolicyRows :
       question = [topic |-> "plan", world |-> World(d, m, l, r, [acks |-> <<>>, categories |-> <<>>])]
  \/ \E c \in CandidateScripts : \E m \in MetadataOf(c), s \in Securities, k \in {"dep", "tool"}, l \in {{V1}, {V1, V2}} :
       question = [topic |-> "plan",
                   world |-> World({Declares("p", "npm", "dep", {V1, V11}), Declares("q", "npm", k, {V1, V11})}, m,
                                   {[name |-> "a", version |-> v] : v \in l},
                                   <<PolicyRow("any", {}, "rolling", "latest")>>, s)]

-----------------------------------------------------------------------------
TreeAtRest == tree = Nothing /\ flow = BuildFlow(Nothing) /\ snap = Machine(flow)!NewSnapshot

SessionAtRest ==
  /\ request = Run("finite", "listener", FALSE, FALSE, FALSE)
  /\ root = [s \in {"backend", "target"} |-> "none"]
  /\ helpers = [s \in {"backend", "target"} |-> FALSE]
  /\ sent = [s \in {"backend", "target"} |-> "none"]
  /\ shows = [s \in {"backend", "target"} |-> FALSE]
  /\ matched = [s \in {"backend", "target"} |-> FALSE]
  /\ waitDone = [s \in {"backend", "target"} |-> FALSE]
  /\ pc = "returned" /\ at = "target" /\ notified = FALSE /\ signalled = FALSE
  /\ stopper = "idle" /\ code = 0

BuildAtRest ==
  /\ target = [tool |-> "tsc", preserve |-> FALSE] /\ source = 1 /\ began = 1 /\ edits = 0
  /\ file = [f \in Files |-> Absent]
  /\ phase = "idle" /\ faults = 0
  /\ since = {1} /\ made = "nothing" /\ match = "same"

Questions ==
  \/ \E c \in Chains : question = [topic |-> "registry", chain |-> c]
  \/ \E p \in Packages, s \in Sources : question = [topic |-> "imports", package |-> p, imports |-> s[1], uses |-> s[2]]
  \/ \E g \in Graphs : question = [topic |-> "order", graph |-> g]
  \/ \E j \in JobLists : question = [topic |-> "jobs", jobs |-> j]
  \/ \E t \in WorkflowForms : question = [topic |-> "form", form |-> t]
  \/ \E r \in RowLists : question = [topic |-> "rows", rows |-> r]
  \/ \E r \in Registries, names \in {<<"c">>, <<"c", "e">>, <<"e", "c">>, <<"e">>, <<"c", "d">>} :
       question = [topic |-> "concepts", registry |-> r, listed |-> names]
  \/ \E n \in 1 .. 3 : \E t \in [1 .. n -> OwningTargets], i \in FileImports :
       question = [topic |-> "owners", targets |-> t, imports |-> i]
  \/ \E m \in Manifests : question = [topic |-> "manifest", manifest |-> m]
  \/ \E p \in PackageFiles : \/ \E i \in FilesImport : question = [topic |-> "imported", package |-> p, imports |-> i]
                           \/ \E l \in LockFiles : question = [topic |-> "locked", package |-> p, lock |-> l]
  \/ \E p \in ExportingPackages : question = [topic |-> "exports", package |-> p]
  \/ \E s \in Scripts : question = [topic |-> "script", script |-> s]
  \/ \E w \in Workspaces : question = [topic |-> "workspace", packages |-> w]
  \/ \E m \in Migrations : question = [topic |-> "migrate", run |-> m]
  \/ \E r \in PackRuns, p \in PackedPackages, d, e \in Disks :
       question = [topic |-> "pack", run |-> r, packages |-> <<Good, p>>, disks |-> <<Disk({Js, Dts}, {}, {}, <<>>), d>>,
                   later |-> <<Disk({Js, Dts}, {}, {}, <<>>), e>>]

PageQuestions ==
  \/ \E c \in SpecifierLists, g \in BrowserGraphs, plans, frames \in BOOLEAN :
       question = [topic |-> "browser", contracts |-> c, packages |-> g, plans |-> plans, frames |-> frames]
  \/ \E edges \in SUBSET LockEdges : question = [topic |-> "why", edges |-> edges]
  \/ \E l \in Relocks : question = [topic |-> "relock", lock |-> l]
  \/ \E p \in RunPackages : question = [topic |-> "select", packages |-> p]
  \/ \E l \in Launches : question = [topic |-> "launch", launch |-> l]
  \/ \E p \in AuditedProjects, d \in EvidenceDisks : question = [topic |-> "audit", project |-> p, disk |-> d]
  \/ \E e \in SUBSET PulledEdges :
       question = [topic |-> "pulled", lock |-> [scripts |-> [i \in 1 .. 3 |-> <<>>], edges |-> e, roots |-> PulledRoots]]
  \/ \E r \in InitRuns, t \in Templates : question = [topic |-> "init", run |-> r, template |-> t]
  \/ \E r \in Transfers : question = [topic |-> "transfer", run |-> r]
  \/ \E a \in Artifacts : question = [topic |-> "artifact", artifact |-> a]
  \/ \E p \in Programs : question = [topic |-> "program", program |-> p]
  \/ \E r \in Roots, d \in DisksRead : question = [topic |-> "split", document |-> r, disk |-> d]

DecisionsInit ==
  \/ question = [topic |-> "tree"] /\ Init /\ SessionAtRest /\ BuildAtRest
  \/ question = [topic |-> "session"] /\ TreeAtRest /\ SessionInit /\ BuildAtRest
  \/ question = [topic |-> "build"] /\ TreeAtRest /\ SessionAtRest /\ BuildInit
  \/ (Questions \/ PageQuestions \/ PlanQuestions) /\ TreeAtRest /\ SessionAtRest /\ BuildAtRest

TreeStep    == Asked("tree") /\ Next /\ UNCHANGED <<question, sessionVars, buildVars>>
SessionStep == Asked("session") /\ SessionNext /\ UNCHANGED <<question, vars, buildVars>>
BuildStep   == Asked("build") /\ BuildNext /\ UNCHANGED <<question, vars, sessionVars>>

DecisionsNext == TreeStep \/ SessionStep \/ BuildStep

decisionVars == <<question, vars, sessionVars, buildVars>>

DecisionsSpec ==
  /\ DecisionsInit /\ [][DecisionsNext]_decisionVars
  /\ WF_decisionVars(SessionStep /\ Command)
  /\ WF_decisionVars(SessionStep /\ Stopper)
  /\ \A s \in {"backend", "target"} :
       /\ WF_decisionVars(SessionStep /\ Reap(s))
       /\ WF_decisionVars(SessionStep /\ sent[s] = "kill" /\ Exit(s))

-----------------------------------------------------------------------------
(* What the module of each question promises of the answer.  This definition  *)
(* is the value of the constant Sound, and has a LET, so that TLC's coverage   *)
(* statistics do not go through every definition below it.                    *)
AnswerIsSound(q) ==
  LET sound ==
        CASE q.topic = "registry" -> Registry!ChainFailsClosed(q.chain)
          [] q.topic = "imports"  -> /\ Imports!CleanCheckIsSound(q.package, q.imports, q.uses)
                                     /\ Imports!CheckIsExact(q.package, q.imports, q.uses)
          [] q.topic = "order"    -> /\ \A roots \in {<<"a">>, <<"b", "a">>, <<"c">>} : Order!OrderIsSound(q.graph, roots)
                                     /\ Order!CyclesAreFound(q.graph, <<"a", "b", "c">>)
          [] q.topic = "form"     -> Plan!TreesAreLowered(q.form)
          [] q.topic = "jobs"     -> Plan!JobsArePlanned(q.jobs, {"p"})
          [] q.topic = "rows"     -> /\ Tape!KeysAreDecided(q.rows)
                                     /\ \A edit \in Edits : Tape!EditIsAnnounced(q.rows, edit)
                                     /\ \A i \in DOMAIN q.rows, alias \in {"", "a", "z"} :
                                          LET row == q.rows[i]
                                          IN Expanded!RefsNameTheirDependency(
                                               [key |-> row.key, alias |-> alias, name |-> row.name],
                                               Tape!EffectiveKey(row))
          [] q.topic = "concepts" -> Tape!MergeAgreesWithTape(q.registry, q.listed, "app")
          [] q.topic = "owners"   -> Imports!OneCompilerPerSource(q.targets, {"f", "g"}, q.imports)
          [] q.topic = "manifest" -> Accepts!AcceptedIsBuildable(q.manifest)
          [] q.topic = "imported" -> Draft!PackagesAreMigrated(q.package) /\ Draft!ImportsAreNoticed(q.package, q.imports)
          [] q.topic = "locked"   -> Draft!LockEvidenceIsExact(q.package, q.lock)
          [] q.topic = "exports"  -> Draft!ExportsAreConverted(q.package)
          [] q.topic = "script"   -> Draft!SuggestionsRunAlone(q.script)
          [] q.topic = "workspace" -> Draft!ReferencesAreResolved(q.packages, [catalog |-> {Foo}])
          [] q.topic = "migrate"  -> Draft!NothingIsOverwritten(q.run)
          [] q.topic = "pack"     -> Packed!PacksAreWhole(q.run, q.packages, q.disks, q.later)
          [] q.topic = "init"     -> Packed!InitIsCareful(q.run, q.template)
          [] q.topic = "transfer" -> Packed!TransferIsWhole(q.run)
          [] q.topic = "browser"  -> Served!PageIsServed(q.contracts, q.packages, q.plans, q.frames)
          [] q.topic = "artifact" -> Served!AcceptedAttachmentsLoad(q.artifact)
          [] q.topic = "why"      -> Relock!WhyAgrees(WhyWorkspace, [packages |-> {X, Y, Z}, edges |-> q.edges, requirements |-> {}])
          [] q.topic = "relock"   ->
               /\ Relock!InstancesAreClosed(q.lock)
               /\ \A e \in q.lock.edges :
                    Relock!DiffIsExact(Relock!RebuildModuleInstances(q.lock),
                                     Relock!RebuildModuleInstances([q.lock EXCEPT !.edges = @ \ {e}]))
          [] q.topic = "audit"    -> Audit!AuditIsSound(q.project, q.disk)
          [] q.topic = "plan"     -> Audit!PlanIsGated(q.world)
          [] q.topic = "pulled"   -> Audit!PathsAreShortest(q.lock)
          [] q.topic = "select"   -> SelectionIsSound(q.packages)
          [] q.topic = "launch"   ->
               LET l == q.launch
                   package == [name |-> "a", root |-> "p", compiler |-> "", browser |-> {}, runTargets |-> <<l.target>>]
               IN /\ \A runtime \in {"", "system"} :
                       LaunchKeepsPreflight(l.machine, <<package>>, [ofPackage |-> FALSE], runtime,
                                                     [package |-> "", target |-> "", given |-> l.given])
                  /\ ProxyIsTheBackend(l.machine, [l.target EXCEPT !.runtime = "system"], "p", l.given)
          [] q.topic = "program"  -> Expanded!WorkflowsAreExpanded(q.program)
          [] q.topic = "split"    -> Expanded!RowsAreTheirFiles(q.document, q.disk)
  IN sound

(* The properties, each for its questions.                                   *)
Answers(topics) == question.topic \in topics => Sound(question)

(* A session ends, whatever order its children, its timers and a Ctrl+C come   *)
(* in (RunSessions).                                                        *)
SessionEnds == []SessionTypeOK /\ CommandEnds

(* A chain of endpoints fails closed, for names without an alarming word, and *)
(* supplies only bytes that were announced (RegistryChain).                   *)
ChainFailsClosed == Answers({"registry"})

(* What the frontend makes of a written workflow gives every iteration effects *)
(* of its own, if its matches read effects that are placed (Frontend); what the  *)
(* manifest accepts as a workflow the runtime accepts; and every combination of *)
(* a job waits for all combinations of its needs (WorkflowPlan).               *)
WorkflowsAreLowered == Answers({"program", "form", "jobs"})

(* An accepted workspace has each package from the file of its row (Frontend);  *)
(* an accepted manifest can be built and its tests made ready (Manifest), in an *)
(* order that is topological and complete (BuildOrder); no source of a package is *)
(* compiled by two compilers, and a clean check of imports means what the rules    *)
(* say (ImportBoundaries).                                                    *)
ManifestsAreBuildable == Answers({"split", "manifest", "order", "owners", "imports"})

(* Each key has one effective dependency, what an edit announces is what the    *)
(* edited source says, concepts merge into what the tape finds effective        *)
(* (Authoring), and what a target is said to lock names that target as its root *)
(* in reverse, and the instances of a rebuilt lock are closed (Lockfile). *)
DependenciesAreDeclared == Answers({"rows", "concepts", "why", "relock"})

(* What a migration drafts declares every package of package.json, and marks   *)
(* what its sources, its scripts or its lock show to be doubtful (Migration).  *)
DraftsAreFaithful == Answers({"imported", "exports", "locked", "script", "workspace", "migrate"})

(* check, doctor and why agree on which lifecycle scripts are acknowledged, hide   *)
(* none that is not, and say what pulls a package in (Acknowledgements); a policy    *)
(* plan lists each declaration once, under its own decision, and would apply only     *)
(* what check would not complain of once it is locked.                              *)
ScriptsAreAudited == Answers({"audit", "pulled", "plan"})

(* tspack run starts the target that is meant, and refuses what its preflight   *)
(* refuses (RunSessions).                                                     *)
TargetsAreFound == Answers({"select", "launch"})

(* A pack that fails leaves no archive of its own, and one that is verified     *)
(* contains what its package.json points to (Packing); a page is served all it   *)
(* imports, and loads the attachments its build accepted (BrowserPackages); an    *)
(* init writes over nothing it was not forced to, and a transfer hands on the     *)
(* bytes it announces, whatever fails half way (Packing).                        *)
ShipmentsAreWhole == Answers({"pack", "browser", "artifact", "init", "transfer"})
=============================================================================
