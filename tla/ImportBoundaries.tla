--------------------------- MODULE ImportBoundaries ---------------------------
(***************************************************************************)
(* What a package may import: graph.Build sorts the dependencies of a         *)
(* target, boundary.Check follows the imports from the target's entry and     *)
(* judges each package on the way.                                            *)
(*                                                                         *)
(* A package is [name, deps, targets, tools, rules].  deps maps a key to      *)
(* [kind, optional] (the key is also the name it is imported by, and no two   *)
(* are the same); a target is [entry, deps, peers]; tools a set of keys.      *)
(* A rule is [from, transitiveFrom, deny, denyTypes, allow, allowOnly], where *)
(* the two patterns are the files they match and allowOnly is Unspecified or  *)
(* a set; rules are in the order of their patterns.  imports is a set of      *)
(* [at, kind, to] for relative imports and uses a set of [at, kind, package]  *)
(* for the others, kind being runtime or type.                                *)
(*                                                                         *)
(* Last, which source files each compiler of a package is given, and what       *)
(* validateCompilerSourceOwnership, which runs before every build, refuses.     *)
(* There, targets are a sequence of [compiler, inputs], inputs being the files   *)
(* that the target's patterns match, or NoInputs when it declares none; the      *)
(* other arguments are the TypeScript files under src, and the relative imports  *)
(* <<importer, imported>>.                                                   *)
(***************************************************************************)
EXTENDS Naturals, Sequences, FiniteSets

Unspecified == {"unspecified"}  \* no package has this name

-----------------------------------------------------------------------------
(* graph.Build: references to keys that are not declared are diagnostics of *)
(* the graph and leave no node.                                              *)
KindOf(p, key) == p.deps[key].kind
Referenced(p, refs) == refs \cap DOMAIN p.deps

BuildDeps(p, t) == {k \in Referenced(p, t.deps) : KindOf(p, k) = "tool"}
RuntimeDeps(p, t) == Referenced(p, t.deps) \ BuildDeps(p, t)
PeerDeps(p, t) == {k \in Referenced(p, t.peers) : KindOf(p, k) = "peer"}
OptionalPeerDeps(p, t) == {k \in PeerDeps(p, t) : p.deps[k].optional}
ToolDependencies(p) == {k \in Referenced(p, p.tools) : KindOf(p, k) = "tool"}

AllowsExternalPackageName(p, t, pkg) ==
  pkg = p.name \/ pkg \in RuntimeDeps(p, t) \cup BuildDeps(p, t) \cup PeerDeps(p, t)

TargetsAllowingExternalPackageName(p, pkg) ==
  {t \in p.targets : AllowsExternalPackageName(p, t, pkg)}

-----------------------------------------------------------------------------
(* The files a breadth-first walk along relative imports of the given kinds *)
(* visits.                                                                   *)
Visited(start, kinds, imports) ==
  LET Next(files) == files \cup {i.to : i \in {j \in imports : j.kind \in kinds /\ j.at \in files}}
      wave[n \in 0 .. Cardinality(imports)] ==
        IF n = 0 THEN {start} ELSE LET before == wave[n - 1] IN Next(before)
  IN wave[Cardinality(imports)]

TransitiveRuleMatches_SeedsOnly(rules, file, kinds, imports) ==
  {i \in DOMAIN rules : file \in rules[i].transitiveFrom}

(* buildTransitiveRuleMatches: the rules whose seeds lead to the file.       *)
TransitiveRuleMatches(rules, file, kinds, imports) ==
  {i \in DOMAIN rules : \E seed \in rules[i].transitiveFrom : file \in Visited(seed, kinds, imports)}

FromMatches(rules, file) == {i \in DOMAIN rules : file \in rules[i].from}

(* allowOnlyViolations, and AllowViolation: of several rules with an allow   *)
(* list the first one that applies decides.                                  *)
AllowOnlyViolation(rules, applying, pkg) ==
  \E i \in applying : rules[i].allowOnly # Unspecified /\ pkg \notin rules[i].allowOnly

AllowViolation(rules, applying, pkg) ==
  \E i \in applying : /\ rules[i].allow # {} /\ pkg \notin rules[i].allow
                      /\ \A j \in applying : rules[j].allow # {} => i <= j

(* validateExternal: the codes reported for one runtime import.              *)
ReportIf(condition, code) == IF condition THEN {code} ELSE {}

ScopeViolation(p, t, pkg) ==
  LET others == TargetsAllowingExternalPackageName(p, pkg)
  IN IF AllowsExternalPackageName(p, t, pkg)
     THEN ReportIf(pkg \in RuntimeDeps(p, t) /\ KindOf(p, pkg) = "type", "TYPE_ONLY_RUNTIME_IMPORT")
     ELSE IF others = {} THEN {"UNDECLARED_IMPORT"}
     ELSE IF \E o \in others : pkg \in OptionalPeerDeps(p, o) THEN {"OPTIONAL_PEER_LEAK"}
     ELSE {"PEER_SCOPE_VIOLATION"}

ValidateExternal(p, t, file, pkg, imports) ==
  LET from == FromMatches(p.rules, file)
      transitive == TransitiveRuleMatches(p.rules, file, {"runtime"}, imports)
      isTool == pkg \in ToolDependencies(p) /\ pkg \notin BuildDeps(p, t)
      denied == \E i \in from \cup transitive : pkg \in p.rules[i].deny
      unlisted == \/ AllowViolation(p.rules, from, pkg)
                  \/ AllowViolation(p.rules, transitive, pkg)
  IN IF isTool THEN {"TOOL_RUNTIME_IMPORT"}
     ELSE ScopeViolation(p, t, pkg)
          \cup ReportIf(denied, "EXPLICIT_DENY")
          \cup ReportIf(~denied /\ AllowOnlyViolation(p.rules, from \cup transitive, pkg),
                        "ALLOW_ONLY_VIOLATION")
          \cup ReportIf(AllowsExternalPackageName(p, t, pkg) /\ unlisted, "EXPLICIT_ALLOW_VIOLATION")

(* validateTypeExternal. *)
ValidateTypeExternal(p, file, pkg, imports) ==
  LET applying == FromMatches(p.rules, file)
                  \cup TransitiveRuleMatches(p.rules, file, {"runtime", "type"}, imports)
  IN ReportIf(\E i \in applying : pkg \in p.rules[i].denyTypes, "TYPE_EXPLICIT_DENY")

(* checkTarget and checkTargetTypeBoundaries. *)
CheckTarget(p, t, imports, uses) ==
  LET runtime == Visited(t.entry, {"runtime"}, imports)
      types == Visited(t.entry, {"runtime", "type"}, imports)
  IN (UNION {ValidateExternal(p, t, u.at, u.package, imports) :
               u \in {v \in uses : v.kind = "runtime" /\ v.at \in runtime}})
     \cup (UNION {ValidateTypeExternal(p, u.at, u.package, imports) :
               u \in {v \in uses : v.kind = "type" /\ v.at \in types}})

Check(p, imports, uses) == UNION {CheckTarget(p, t, imports, uses) : t \in p.targets}

-----------------------------------------------------------------------------
(* What a clean check promises, with reachability as the least set of files *)
(* that is closed under imports.                                             *)
Leads(seed, kinds, imports, file) ==
  LET files == {i.at : i \in imports} \cup {i.to : i \in imports} \cup {seed, file}
  IN \A S \in SUBSET files :
       /\ seed \in S
       /\ \A i \in imports : i.kind \in kinds /\ i.at \in S => i.to \in S
       => file \in S

Applies(rule, kinds, imports, file) ==
  file \in rule.from \/ \E seed \in rule.transitiveFrom : Leads(seed, kinds, imports, file)

(* Every package that runtime code of a target can reach is declared for    *)
(* that target as something other than a type, is no tool the target does not *)
(* build with, and is neither denied nor left out by any rule for the file    *)
(* that imports it or for a file that leads there; no package whose types are *)
(* denied is reached along types either.                                     *)
Respects(p, imports, uses) ==
  \A t \in p.targets : \A u \in uses :
    /\ u.kind = "runtime" /\ Leads(t.entry, {"runtime"}, imports, u.at) =>
         /\ \/ u.package = p.name
            \/ u.package \in Referenced(p, t.deps) /\ KindOf(p, u.package) # "type"
            \/ u.package \in Referenced(p, t.peers) /\ KindOf(p, u.package) = "peer"
         /\ \A i \in DOMAIN p.rules : Applies(p.rules[i], {"runtime"}, imports, u.at) =>
              /\ u.package \notin p.rules[i].deny
              /\ p.rules[i].allowOnly # Unspecified => u.package \in p.rules[i].allowOnly
    /\ u.kind = "type" /\ Leads(t.entry, {"runtime", "type"}, imports, u.at) =>
         \A i \in DOMAIN p.rules :
           Applies(p.rules[i], {"runtime", "type"}, imports, u.at) => u.package \notin p.rules[i].denyTypes

CleanCheckIsSound(p, imports, uses) == Check(p, imports, uses) = {} => Respects(p, imports, uses)

(* And without allow lists, which depend on the order of the rules, nothing  *)
(* else is reported.                                                         *)
CheckIsExact(p, imports, uses) ==
  (\A i \in DOMAIN p.rules : p.rules[i].allow = {}) /\ Respects(p, imports, uses) =>
    Check(p, imports, uses) = {}

-----------------------------------------------------------------------------
NoInputs == {"no inputs"}  \* no file has this name
NoOwner == 0

Declares(targets, i) == targets[i].inputs # NoInputs

(* The files two targets list belong to neither.                             *)
Overlapping(targets) ==
  \E i, j \in DOMAIN targets :
    i # j /\ Declares(targets, i) /\ Declares(targets, j) /\ targets[i].inputs \cap targets[j].inputs # {}

MatchesNothing(targets) == \E i \in DOMAIN targets : targets[i].inputs = {}

DefaultOwners(targets) == {i \in DOMAIN targets : ~Declares(targets, i) /\ targets[i].compiler = "tsc"}

(* The one tsc target without inputs owns what nobody else does.              *)
Owner(targets, sources, f) ==
  LET declared == {i \in DOMAIN targets : Declares(targets, i) /\ f \in targets[i].inputs}
      default  == IF Cardinality(DefaultOwners(targets)) = 1 /\ f \in sources THEN DefaultOwners(targets) ELSE {}
      owners   == IF declared # {} THEN declared ELSE default
  IN IF owners = {} THEN NoOwner ELSE CHOOSE i \in owners : TRUE

(* Targets of one compiler may import from each other.                       *)
MayImport(targets, i, j) == targets[i].compiler = targets[j].compiler

(* validateCrossCompilerImports.                                             *)
CrossImports(targets, sources, imports) ==
  {e \in imports :
     LET i == Owner(targets, sources, e[1])
         j == Owner(targets, sources, e[2])
     IN i # NoOwner /\ j # NoOwner /\ ~MayImport(targets, i, j)}

ValidateCompilerSourceOwnership(targets, sources, imports) ==
  /\ ~MatchesNothing(targets)
  /\ ~Overlapping(targets)
  /\ CrossImports(targets, sources, imports) = {}

-----------------------------------------------------------------------------
OthersInputs(targets, i) ==
  UNION {targets[j].inputs : j \in {j \in DOMAIN targets \ {i} : Declares(targets, j) /\ targets[j].compiler # "tsc"}}

CollectTSCInputs_Everything(targets, sources, i) ==
  IF Declares(targets, i) THEN targets[i].inputs ELSE sources

(* collectTSCInputs, and projectTSCConfig, which writes the same excludes into *)
(* the configuration that tsc reads.                                         *)
CollectTSCInputs(targets, sources, i) ==
  IF Declares(targets, i) THEN targets[i].inputs ELSE sources \ OthersInputs(targets, i)

(* tscl is given every source of the package, whatever its inputs.            *)
Given(targets, sources, i) ==
  CASE targets[i].compiler = "tsc"  -> CollectTSCInputs(targets, sources, i)
    [] targets[i].compiler = "tscl" -> sources
    [] OTHER -> targets[i].inputs

(* A compiler also compiles what the files it is given import.               *)
Compiled(targets, sources, imports, i) ==
  LET wave[n \in 0 .. Cardinality(imports)] ==
        IF n = 0 THEN Given(targets, sources, i)
        ELSE LET before == wave[n - 1] IN before \cup {e[2] : e \in {e \in imports : e[1] \in before}}
  IN wave[Cardinality(imports)]

-----------------------------------------------------------------------------
(* When every file has an owner and no target is tscl, an accepted package    *)
(* never has a file compiled by two compilers, and a target compiles the       *)
(* files it owns.                                                            *)
OneCompilerPerSource(targets, sources, imports) ==
  /\ ValidateCompilerSourceOwnership(targets, sources, imports)
  /\ \A i \in DOMAIN targets : targets[i].compiler # "tscl"
  /\ \A f \in sources \cup UNION {{e[1], e[2]} : e \in imports} : Owner(targets, sources, f) # NoOwner
  => /\ \A i, j \in DOMAIN targets :
          targets[i].compiler # targets[j].compiler =>
            Compiled(targets, sources, imports, i) \cap Compiled(targets, sources, imports, j) = {}
     /\ \A f \in sources : \E i \in DOMAIN targets :
          Owner(targets, sources, f) = i /\ f \in Compiled(targets, sources, imports, i)
=============================================================================
