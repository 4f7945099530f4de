------------------------------ MODULE Frontend ------------------------------
(***************************************************************************)
(* How manifest-frontend/src/index.ts reads a manifest: parseManifestDocument *)
(* and evalNode, which evaluate the written expressions once, and             *)
(* parseWorkspace, which puts the packages of a split workspace together.     *)
(*                                                                         *)
(* An expression is a record with a form; a result identity is the place of    *)
(* the call, followed by <<loop, index>> for every loop around it, innermost   *)
(* first.  A value is a record with a kind.  Evaluation gives the value and    *)
(* the codes of the diagnostics, any of which refuses the manifest.  Options   *)
(* of the operations and the wording of diagnostics are left out.             *)
(***************************************************************************)
EXTENDS FlowLowering

(* The written forms. *)
Text(value)            == [form |-> "text", value |-> value]
Named(name)            == [form |-> "name", name |-> name]
Array(items)           == [form |-> "array", items |-> items]
Native(op, at)         == [form |-> "native", op |-> op, at |-> at]
Consuming(op, at, of)  == [form |-> "consuming", op |-> op, at |-> at, of |-> of]
FieldOf(of, field)     == [form |-> "field", of |-> of, field |-> field]
IndexOf(of, index)     == [form |-> "index", of |-> of, index |-> index]
Placed(kind, children) == [form |-> kind, children |-> children]
Ensured(body, cleanup) == [form |-> "finally", body |-> body, cleanup |-> cleanup]
MatchResult(of, arms)  == [form |-> "match", of |-> of, arms |-> arms]
Arm(outcome, callback) == [outcome |-> outcome, callback |-> callback]
Loop(identity, at, over, callback, mode, policy) ==
  [form |-> "forEach", identity |-> identity, at |-> at, over |-> over, callback |-> callback,
   mode |-> mode, policy |-> policy]
Callback(parameter, body) == [form |-> "callback", parameter |-> parameter, body |-> body]

ForEachLimit == 256

Undefined == [kind |-> "undefined"]
Invalid   == [kind |-> "invalid"]
Flows == {"effect", "sequence", "parallel", "region", "match", "finally", "forEach"}

Result(value, codes) == [value |-> value, codes |-> codes]

(* workflowEffect and workflowResultRef *)
ResultFields(op) ==
  CASE op \in {"build", "transfer"} -> {"artifacts", "targets", "diagnostics"}
    [] op = "test"  -> {"passed", "failed", "skipped", "durationMs", "tests", "diagnostics"}
    [] op = "audit" -> {"source", "auditLevel", "failing", "report", "diagnostics"}
    [] OTHER -> {}

WorkflowEffect(op, source, inputs) == [kind |-> "effect", op |-> op, source |-> source, inputs |-> inputs]
FailureBinding(effect)   == [kind |-> "failure", source |-> effect.source]
Reference(source, field) == [kind |-> "reference", source |-> source, field |-> field]

PropertyOf(base, field) ==
  CASE base.kind = "effect" ->
         IF field \in ResultFields(base.op) THEN Result(Reference(base.source, field), {})
         ELSE Result(Undefined, {"PROJECTION_INVALID"})
    [] base.kind = "failure" /\ field \in {"error", "diagnostics"} ->
         Result(Reference(base.source, field), {})
    [] OTHER -> Result(Undefined, {})

ElementOf(base, index) ==
  CASE base.kind # "forEach" -> Result(Undefined, {"AGGREGATE_INDEX_TARGET_INVALID"})
    [] base.kind = "forEach" /\ ~base.complete -> Result(Undefined, {"AGGREGATE_INCOMPLETE"})
    [] base.kind = "forEach" /\ base.complete ->
         IF index + 1 \in DOMAIN base.elements THEN Result(base.elements[index + 1], {})
         ELSE Result(Undefined, {"AGGREGATE_INDEX_OUT_OF_RANGE"})

(* asWorkflowFlowNode: anything else is a node the manifest refuses. *)
AsWorkflowFlowNode(value) == IF value.kind \in Flows THEN value ELSE Invalid

(* workflowStep: the effect alone, which is no longer a reference. *)
WorkflowStep(effect) == [effect EXCEPT !.kind = "step"]

RECURSIVE SingleWorkflowTypedEffect(_), CollectProduced(_), NamespaceWorkflowValues(_, _, _),
          EvalNode(_, _), ToTree(_)

SingleWorkflowTypedEffect(value) ==
  CASE value.kind = "effect" -> {value}
    [] value.kind = "region" /\ Len(value.children) = 1 ->
         {v \in SingleWorkflowTypedEffect(value.children[1]) : ResultFields(v.op) # {}}
    [] OTHER -> {}

(* What a value is made of. *)
Inside(value) ==
  CASE value.kind \in {"sequence", "parallel", "region"} -> ToSet(value.children)
    [] value.kind = "match"   -> {value.effect} \cup {value.arms[i].flow : i \in DOMAIN value.arms}
    [] value.kind = "finally" -> {value.body, value.cleanup}
    [] value.kind = "forEach" -> ToSet(value.items) \cup ToSet(value.elements)
    [] OTHER -> {}

CollectProduced_TopOnly(value) ==
  {v.source : v \in {w \in {value} \cup Inside(value) : w.kind = "effect"}}

(* collectProducedWorkflowSources: a match's own effect is a step, and is not  *)
(* among them.                                                              *)
CollectProduced(value) ==
  (IF value.kind = "effect" THEN {value.source} ELSE {})
    \cup UNION {CollectProduced(v) : v \in Inside(value)}

Suffixed(source, suffix, produced) == IF source \in produced THEN Append(source, suffix) ELSE source

NamespaceWorkflowValues(value, suffix, produced) ==
  LET renamed(v) == NamespaceWorkflowValues(v, suffix, produced)
      each(s) == [i \in DOMAIN s |-> renamed(s[i])]
  IN CASE value.kind \in {"effect", "step"} ->
            [value EXCEPT !.source = Suffixed(@, suffix, produced), !.inputs = each(@)]
       [] value.kind \in {"reference", "failure"} -> [value EXCEPT !.source = Suffixed(@, suffix, produced)]
       [] value.kind \in {"sequence", "parallel", "region"} -> [value EXCEPT !.children = each(@)]
       [] value.kind = "match" ->
            [value EXCEPT !.effect = renamed(@), !.arms = [i \in DOMAIN @ |-> [@[i] EXCEPT !.flow = renamed(@)]]]
       [] value.kind = "finally" -> [value EXCEPT !.body = renamed(@), !.cleanup = renamed(@)]
       [] value.kind = "forEach" ->
            [value EXCEPT !.identity = Append(@, suffix), !.items = each(@), !.elements = each(@)]
       [] OTHER -> value

-----------------------------------------------------------------------------
(* evalNode.  A name that is not known is undefined, and no error.           *)
EvalAll(exprs, env) ==
  LET results == [i \in DOMAIN exprs |-> EvalNode(exprs[i], env)]
  IN [values |-> [i \in DOMAIN results |-> results[i].value],
      codes |-> UNION {results[i].codes : i \in DOMAIN results}]

EvalWorkflowArm(callback, binding, env) ==
  CASE callback.form # "callback" -> EvalNode(callback, env)
    [] callback.form = "callback" ->
         IF callback.body.form = "block" THEN Result(Undefined, {"CALLBACK_INVALID"})
         ELSE EvalNode(callback.body, (callback.parameter :> binding) @@ env)

EvalMatchResult(e, env) ==
  LET source == EvalNode(e.of, env)
      effect == source.value
      arm(outcome) == {i \in DOMAIN e.arms : e.arms[i].outcome = outcome}
      known == SelectSeq(Outcomes, LAMBDA o : arm(o) # {})
      last(o) == CHOOSE i \in arm(o) : \A j \in arm(o) : j <= i
      flow(o) == EvalWorkflowArm(e.arms[last(o)].callback,
                                 IF o = "succeeded" THEN effect ELSE FailureBinding(effect), env)
      flows == [k \in DOMAIN known |-> flow(known[k])]
  IN IF effect.kind # "effect" THEN Result(Invalid, source.codes \cup {"MATCH_INVALID"})
     ELSE Result([kind |-> "match", effect |-> WorkflowStep(effect),
                  arms |-> [k \in DOMAIN known |->
                              [outcome |-> known[k], flow |-> AsWorkflowFlowNode(flows[k].value)]]],
                 source.codes
                   \cup UNION {flows[k].codes : k \in DOMAIN known}
                   \cup {"MATCH_KIND_DUPLICATE" : o \in {p \in ToSet(known) : Cardinality(arm(p)) > 1}}
                   \cup {"MATCH_NON_EXHAUSTIVE" : o \in ToSet(Outcomes) \ ToSet(known)}
                   \cup {"MATCH_KIND_INVALID" : i \in {j \in DOMAIN e.arms : e.arms[j].outcome \notin ToSet(Outcomes)}})

(* evalForEach: the callback is evaluated for each value, and what the item     *)
(* produces is renamed by the item.  The elements of the aggregate are the      *)
(* effects of the items, as far as each item is one.                          *)
EvalForEach(e, env) ==
  LET over == EvalNode(e.over, env)
      values == CASE over.value.kind = "array"   -> over.value.items
                  [] over.value.kind = "forEach" -> over.value.elements
                  [] OTHER -> <<>>
      bound == IF Len(values) > ForEachLimit THEN SubSeq(values, 1, ForEachLimit) ELSE values
      flows == [i \in DOMAIN bound |-> EvalWorkflowArm(e.callback, bound[i], env)]
      items == [i \in DOMAIN bound |->
                  NamespaceWorkflowValues(flows[i].value, <<e.identity, i - 1>>, CollectProduced(flows[i].value))]
      typed == SelectSeq(items, LAMBDA v : SingleWorkflowTypedEffect(v) # {})
      element(v) == CHOOSE w \in SingleWorkflowTypedEffect(v) : TRUE
      codes == over.codes \cup UNION {flows[i].codes : i \in DOMAIN bound}
  IN CASE over.value.kind \notin {"array", "forEach"} \/ e.callback.form # "callback" ->
            Result(Invalid, codes \cup {"FOREACH_SOURCE_INVALID"})
       [] over.value.kind \in {"array", "forEach"} /\ e.callback.form = "callback" ->
            Result([kind |-> "forEach", identity |-> <<e.identity>>, mode |-> e.mode, policy |-> e.policy,
                    items |-> [i \in DOMAIN items |-> AsWorkflowFlowNode(items[i])],
                    elements |-> [i \in DOMAIN typed |-> [element(typed[i]) EXCEPT !.inputs = <<>>]],
                    complete |-> e.policy = "collectAll"],
                   codes
                     \cup (IF Len(values) \notin 1 .. ForEachLimit THEN {"FOREACH_LIMIT_INVALID"} ELSE {})
                     \cup (IF over.value.kind = "forEach" /\ ~over.value.complete
                           THEN {"AGGREGATE_INCOMPLETE"} ELSE {}))

EvalNode(e, env) ==
  CASE e.form = "text"  -> Result([kind |-> "text", value |-> e.value], {})
    [] e.form = "name"  -> Result(IF e.name \in DOMAIN env THEN env[e.name] ELSE Undefined, {})
    [] e.form = "array" ->
         LET all == EvalAll(e.items, env) IN Result([kind |-> "array", items |-> all.values], all.codes)
    [] e.form = "native" -> Result(WorkflowEffect(e.op, <<e.at>>, <<>>), {})
    [] e.form = "consuming" ->
         LET of == EvalNode(e.of, env)
         IN Result(WorkflowEffect(e.op, <<e.at>>, IF of.value.kind = "reference" THEN <<of.value>> ELSE <<>>),
                   of.codes)
    [] e.form = "field" ->
         LET of == EvalNode(e.of, env)
             found == PropertyOf(of.value, e.field)
         IN Result(found.value, of.codes \cup found.codes)
    [] e.form = "index" ->
         LET of == EvalNode(e.of, env)
             found == ElementOf(of.value, e.index)
         IN Result(found.value, of.codes \cup found.codes)
    [] e.form \in {"sequence", "parallel", "region"} ->
         LET all == EvalAll(e.children, env)
         IN Result([kind |-> e.form,
                    children |-> [i \in DOMAIN all.values |-> AsWorkflowFlowNode(all.values[i])]], all.codes)
    [] e.form = "finally" ->
         LET all == EvalAll(<<e.body, e.cleanup>>, env)
         IN Result([kind |-> "finally", body |-> AsWorkflowFlowNode(all.values[1]),
                    cleanup |-> AsWorkflowFlowNode(all.values[2])], all.codes)
    [] e.form = "match"   -> EvalMatchResult(e, env)
    [] e.form = "forEach" -> EvalForEach(e, env)
    [] OTHER -> Result(Undefined, {"FORBIDDEN_DYNAMIC_EXPRESSION"})

(* The constants are evaluated once and in order: one sees only those before.  *)
EvalConstants(constants) ==
  FoldLeft(LAMBDA known, constant :
             LET result == EvalNode(constant.value, known.env)
             IN [env |-> (constant.name :> result.value) @@ known.env, codes |-> known.codes \cup result.codes],
           [env |-> <<>>, codes |-> {}], constants)

EvalProgram(program) ==
  LET known == EvalConstants(program.constants)
      flow == EvalNode(program.flow, known.env)
  IN Result(AsWorkflowFlowNode(flow.value), known.codes \cup flow.codes)

(* The authored workflow as internal/workflow reads it. *)
IdentityText(source) == ToString(source)
ToTree(value) ==
  CASE value.kind \in {"effect", "step"} ->
         Consume(IdentityText(value.source), {IdentityText(value.inputs[i].source) : i \in DOMAIN value.inputs})
    [] value.kind \in {"sequence", "parallel", "region"} ->
         [kind |-> value.kind, children |-> [i \in DOMAIN value.children |-> ToTree(value.children[i])]]
    [] value.kind = "match" ->
         Match(ToTree(value.effect),
               [i \in DOMAIN value.arms |->
                  [outcome |-> value.arms[i].outcome, flow |-> ToTree(value.arms[i].flow)]])
    [] value.kind = "finally" -> Finally(ToTree(value.body), ToTree(value.cleanup))
    [] value.kind = "forEach" ->
         ForEach(value.mode, 2, value.policy, [i \in DOMAIN value.items |-> ToTree(value.items[i])])

-----------------------------------------------------------------------------
(* A document is [named, forbidden, helper, constants, flow, inline, rows,     *)
(* package, declared, stranger]: whether the file has the name its mode asks   *)
(* for, the codes of forbidden syntax, the helper of the default export, the   *)
(* workflow, for a root the names of its inline packages and at most one list  *)
(* of rows, for a package its name, the files its dependencies are said to be  *)
(* declared in, and whether it is not the element its helper wraps.           *)
DocumentMode(doc) ==
  CASE doc.helper \in {"define", "defineWorkspace"} -> IF doc.rows = <<>> THEN "single" ELSE "split"
    [] doc.helper = "definePackage"   -> "package"
    [] doc.helper = "annotatePackage" -> "annotation"
    [] OTHER -> "none"

ParseManifestDocument(doc, hint) ==
  LET modes == IF hint = "root" THEN {"single", "split"} ELSE {"package", "annotation"}
      codes == doc.forbidden
                 \cup (IF doc.named THEN {} ELSE {"WRONG_FILE"})
                 \cup (IF DocumentMode(doc) \in modes THEN {} ELSE {"INVALID_DEFAULT_EXPORT"})
                 \cup (IF DocumentMode(doc) = "annotation" /\ doc.stranger THEN {"PACKAGE_ANNOTATION_INVALID"} ELSE {})
                 \cup (IF hint = "root" THEN EvalProgram(doc).codes ELSE {})
  IN IF codes # {} THEN [mode |-> "none", codes |-> codes] ELSE [mode |-> DocumentMode(doc), codes |-> {}]

(* jsxToRootDoc: a root with inline packages and rows has neither. *)
RowsOf(doc) == IF doc.inline # <<>> THEN <<>> ELSE doc.rows[1]

(* A path is a sequence of segments, "/" first when it is absolute. *)
IsSafeRel(path) == path # <<>> /\ path[1] # "/" /\ ToSet(path) \cap {"..", "\\"} = {}
Normalized(path) == SelectSeq(path, LAMBDA segment : segment # ".")
LivesUnder_Deeper(manifest, root) == Len(Normalized(manifest)) > Len(Normalized(root))
LivesUnder(manifest, root) ==
  \/ Normalized(root) = <<>>
  \/ IsStrictPrefix(Normalized(root), Normalized(manifest))

RowCodes(row, earlier, disk) ==
  LET there == Normalized(row.manifest) \in DOMAIN disk
      doc == disk[Normalized(row.manifest)]
      parsed == ParseManifestDocument(doc, "package")
  IN (IF \E r \in earlier : r.name = row.name THEN {"DUPLICATE_PACKAGE_ROW"} ELSE {})
     \cup (IF \E r \in earlier : r.root = row.root THEN {"DUPLICATE_PACKAGE_ROOT"} ELSE {})
     \cup (CASE ~IsSafeRel(row.root) -> {"INVALID_PACKAGE_ROOT"}
             [] IsSafeRel(row.root) /\ (~IsSafeRel(row.manifest) \/ ~LivesUnder(row.manifest, row.root)) ->
                  {"INVALID_PACKAGE_MANIFEST_PATH"}
             [] OTHER ->
                  IF ~there THEN {"PACKAGE_MANIFEST_NOT_FOUND"}
                  ELSE IF parsed.codes # {} THEN parsed.codes
                  ELSE IF parsed.mode = "annotation" THEN {"PACKAGE_ANNOTATION_NOT_FULL_PACKAGE"}
                  ELSE IF doc.package # row.name THEN {"PACKAGE_NAME_MISMATCH"} ELSE {})

(* withDependencyAuthoringSourcePath: the declarations of a package are those   *)
(* of the file its row names, whatever they say themselves.                   *)
MergedPackage(row, doc) ==
  [name |-> doc.package, root |-> row.root, manifest |-> row.manifest, declared |-> {row.manifest : d \in doc.declared}]

ParseWorkspace(root, disk) ==
  LET parsed == ParseManifestDocument(root, "root")
      rows == IF parsed.mode = "split" THEN RowsOf(root) ELSE <<>>
      codes == UNION {RowCodes(rows[i], {rows[j] : j \in 1 .. (i - 1)}, disk) : i \in DOMAIN rows}
  IN CASE parsed.codes # {} -> [ok |-> FALSE, packages |-> <<>>]
       [] parsed.mode = "single" ->
            [ok |-> TRUE, packages |-> [i \in DOMAIN root.inline |->
                            [name |-> root.inline[i], root |-> <<>>, manifest |-> <<>>, declared |-> {}]]]
       [] OTHER ->
            [ok |-> codes = {},
             packages |-> IF codes # {} THEN <<>>
                          ELSE [i \in DOMAIN rows |-> MergedPackage(rows[i], disk[Normalized(rows[i].manifest)])]]

(* dependencyRefKey and attachDependencyKeys: what a target calls a dependency  *)
(* [key, alias, name], each "" where there is none.                           *)
DependencyRefKey(value) ==
  IF value.key # "" THEN value.key ELSE IF value.alias # "" THEN value.alias ELSE value.name

-----------------------------------------------------------------------------
RECURSIVE Within(_)
Flow(value) == IF value.kind = "forEach" THEN ToSet(value.items) ELSE Inside(value)
Within(value) == {value} \cup UNION {Within(v) : v \in Flow(value)}

Effects(value) == {v \in Within(value) : v.kind \in {"effect", "step"}}
PlacedIn(value) == {v.source : v \in {w \in Effects(value) : w.kind = "effect"}}
SourcesOf(value) == {v.source : v \in Effects(value)}
ReadsOf(value) == UNION {{r.source : r \in ToSet(v.inputs)} : v \in Effects(value)}
LoopsIn(value) == {v \in Within(value) : v.kind = "forEach"}

(* What an item runs that nothing outside of it does: its effects, and those    *)
(* that its matches bring along.                                             *)
OwnOf(item, whole) == PlacedIn(item) \cup (SourcesOf(item) \ PlacedIn(whole))

(* Every iteration of an accepted workflow runs effects of its own ("Each      *)
(* expansion is namespaced", docs/dev/m77-typed-workflow-values.md).          *)
IterationsAreDistinct(program) ==
  LET flow == EvalProgram(program)
  IN flow.codes = {} =>
       \A loop \in LoopsIn(flow.value) : \A i, j \in DOMAIN loop.items :
         i # j => OwnOf(loop.items[i], flow.value) \cap OwnOf(loop.items[j], flow.value) = {}

(* No match of an item brings an effect along: each reads an effect placed.   *)
MatchesReadPlaced(value) ==
  \A loop \in LoopsIn(value) : \A i \in DOMAIN loop.items :
    SourcesOf(loop.items[i]) \subseteq PlacedIn(value)

(* What an item reads of a place it runs itself is what it runs, and element i  *)
(* of a loop is the effect of item i; and the flow of the workflow has an       *)
(* effect for each identity, and no other.                                   *)
ReadsAreOfTheirIteration(program) ==
  LET flow == EvalProgram(program)
      whole == flow.value
      nodes == BuildFlow(ToTree(whole))
  IN flow.codes = {} =>
       /\ \A loop \in LoopsIn(whole) : \A i \in DOMAIN loop.items :
            LET own == OwnOf(loop.items[i], whole)
            IN /\ \A read \in ReadsOf(loop.items[i]) :
                    (\E source \in own : source[1] = read[1]) => read \in own
               /\ Len(loop.elements) = Len(loop.items) => loop.elements[i].source \in own
       /\ (/\ ~\E v \in Within(whole) : v.kind \in {"invalid", "finally"}
           /\ ~NestsParallelLoop(ToTree(whole), FALSE)
           /\ ReadsOf(whole) \subseteq SourcesOf(whole)) =>
             {nodes[n].name : n \in {m \in DOMAIN nodes : nodes[m].kind = "effect"}}
               = {IdentityText(source) : source \in SourcesOf(whole)}

WorkflowsAreExpanded(program) ==
  MatchesReadPlaced(EvalProgram(program).value) =>
    IterationsAreDistinct(program) /\ ReadsAreOfTheirIteration(program)

(* An accepted split workspace has the package of every row, in order, read      *)
(* from the file under its root that the row names; no two of them have a name  *)
(* or a file in common, and their dependencies are edited in that file.         *)
RowsAreTheirFiles(root, disk) ==
  LET parsed == ParseWorkspace(root, disk)
      packages == parsed.packages
      rows == root.rows[1]
      file(p) == Normalized(p.manifest)
  IN parsed.ok /\ root.rows # <<>> /\ root.inline = <<>> =>
       /\ [i \in DOMAIN packages |-> packages[i].name] = [i \in DOMAIN rows |-> rows[i].name]
       /\ \A i \in DOMAIN packages :
            /\ disk[file(packages[i])].helper = "definePackage"
            /\ disk[file(packages[i])].package = packages[i].name
            /\ IsPrefix(Normalized(packages[i].root), file(packages[i]))
            /\ packages[i].declared \subseteq {packages[i].manifest}
            /\ \A j \in DOMAIN packages : i # j => file(packages[i]) # file(packages[j])

(* A target names a dependency by its key where the dependency states one, or  *)
(* stands under its own name (docs/manifest.md, "Dependency aliases").         *)
RefsNameTheirDependency(value, effectiveKey) ==
  value.key # "" \/ value.alias \in {"", value.name} => DependencyRefKey(value) = effectiveKey
=============================================================================
