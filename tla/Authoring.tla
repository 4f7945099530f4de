------------------------------ MODULE Authoring ------------------------------
(***************************************************************************)
(* Dependency declarations: the tape that decides which of them are          *)
(* effective (internal/authoring), the edits tspack add and tspack remove     *)
(* make to them (internal/project), and what becomes of an edit in the        *)
(* manifest's source (internal/manifestedit), which the next command reads    *)
(* again (manifest-frontend).                                               *)
(*                                                                         *)
(* A row of the source is                                                   *)
(*   [source, name, constraint, kind, optional, key, origin, layer]          *)
(* with key, origin and layer "" where the row does not state them; package   *)
(* wide declaration defaults and declared ids are left out, and so are the     *)
(* comments and commas around a row.                                         *)
(*                                                                         *)
(* Last, concepts (internal/concepts): the fragments a list of concepts stands *)
(* for and their merge into one contribution, in which nothing is overridden: *)
(* what two concepts state differently is a conflict.  A fragment has its       *)
(* name, the concepts it requires (all of requires, one of each group),        *)
(* conflicts with and is compatible with, its dependencies [section, name,      *)
(* range, source] in the order it lists them, its named contributions and       *)
(* projections [path, value], and its slots [name, append, value].             *)
(***************************************************************************)
EXTENDS Naturals, Sequences, FiniteSets, FiniteSetsExt, SequencesExt

Identity(d) == [source |-> d.source, name |-> d.name]

(* EffectiveIdentity: the key, or the name without its source. *)
EffectiveKey(d) == IF d.key # "" THEN d.key ELSE d.name
DeclarationSlotKey(d) == <<Identity(d), EffectiveKey(d)>>

EffectiveDependency(d) ==
  [key |-> d.key, kind |-> d.kind, source |-> d.source, name |-> d.name,
   range |-> d.constraint, optional |-> d.optional]

LayerRank(layer) ==
  LET ranked == <<"base", "concept", "template", "other", "project", "package", "compatibility", "explicit">>
  IN IF layer \in ToSet(ranked) THEN SelectInSeq(ranked, LAMBDA l : l = layer) ELSE 4

(* A declaration without an id is named by its place in the list. *)
Normalized(declarations) ==
  [i \in DOMAIN declarations |->
     IF declarations[i].id = 0 THEN [declarations[i] EXCEPT !.id = i] ELSE declarations[i]]

Precedes(a, b) ==
  LET key(d) == <<LayerRank(d.layer), d.layerOrder, d.order, d.id>>
  IN \E k \in 1..4 : key(a)[k] < key(b)[k] /\ \A m \in 1..(k - 1) : key(a)[m] = key(b)[m]

(* Build: the declarations in the order of their precedence.  A later one    *)
(* shadows an earlier one of its slot; two identities that share a key are a   *)
(* fatal conflict.                                                          *)
Build(declarations) ==
  LET ordered == Normalized(declarations)
      places == SetToSortSeq(DOMAIN ordered,
                  LAMBDA i, j : IF i < j THEN ~Precedes(ordered[j], ordered[i])
                                ELSE Precedes(ordered[i], ordered[j]))
  IN [p \in DOMAIN places |-> ordered[places[p]]]

ShadowedBy(tape, p) ==
  LET later == {q \in DOMAIN tape : q > p /\ DeclarationSlotKey(tape[q]) = DeclarationSlotKey(tape[p])}
  IN IF later = {} THEN 0 ELSE Min(later)

IsEffective(tape, p) == ShadowedBy(tape, p) = 0
EffectiveDeclarations(tape) == {tape[p] : p \in {q \in DOMAIN tape : IsEffective(tape, q)}}
Effective(tape) == {EffectiveDependency(d) : d \in EffectiveDeclarations(tape)}

ClassifyShadow(earlier, later) ==
  CASE earlier.kind # later.kind -> "kind-override"
    [] earlier.kind = later.kind /\ earlier.optional # later.optional -> "optional-override"
    [] earlier.kind = later.kind /\ earlier.optional = later.optional ->
         IF earlier.constraint # later.constraint THEN "constraint-override" ELSE "duplicate"

ShadowConflicts(tape) ==
  {[outcome |-> ClassifyShadow(tape[p], tape[ShadowedBy(tape, p)]), earlier |-> p, later |-> ShadowedBy(tape, p)] :
     p \in {q \in DOMAIN tape : ~IsEffective(tape, q)}}

HasFatalConflicts(tape) ==
  \E p, q \in DOMAIN tape :
    /\ p < q /\ EffectiveKey(tape[p]) = EffectiveKey(tape[q])
    /\ \A r \in (p + 1)..(q - 1) : EffectiveKey(tape[r]) # EffectiveKey(tape[q])
    /\ Identity(tape[p]) # Identity(tape[q])

-----------------------------------------------------------------------------
(* Edits: lists of declarations before and after, and the changes *)

Matching(declarations, selector) ==
  {i \in DOMAIN declarations :
     LET d == declarations[i]
     IN /\ selector.id # 0 => d.id = selector.id
        /\ Identity(d) = selector.identity
        /\ selector.kind = d.kind
        /\ d.editability = "editable"}

NextOrder(declarations, layer, layerOrder) ==
  1 + Max({0} \cup {declarations[i].order : i \in
                      {j \in DOMAIN declarations : declarations[j].layer = layer
                                                   /\ declarations[j].layerOrder = layerOrder}})

(* A slot whose effective declaration is another one has been shadowed, or   *)
(* unshadowed when its declaration was the one removed.                      *)
EditResult(before, after, primary) ==
  LET old == EffectiveDeclarations(Build(before))
      new == EffectiveDeclarations(Build(after))
      replaced == {d \in old : \E e \in new : DeclarationSlotKey(e) = DeclarationSlotKey(d) /\ e.id # d.id}
      by(d) == CHOOSE e \in new : DeclarationSlotKey(e) = DeclarationSlotKey(d)
      follow(d) == IF primary.kind = "removed" /\ primary.declaration.id = d.id
                   THEN [kind |-> "unshadowed", declaration |-> by(d)]
                   ELSE [kind |-> "shadowed", declaration |-> d]
  IN [before |-> Build(before), after |-> Build(after), primary |-> primary,
      follows |-> {follow(d) : d \in replaced}]

Refused(code) == [refused |-> code]
IsRefused(result) == "refused" \in DOMAIN result

Add(declarations, d) ==
  LET added == [d EXCEPT !.order = NextOrder(declarations, d.layer, d.layerOrder),
                         !.id = Len(declarations) + 1]
  IN EditResult(declarations, Append(declarations, added), [kind |-> "added", declaration |-> added])

RemoveDeclaration(declarations, selector) ==
  LET named == Normalized(declarations)
      matches == Matching(named, selector)
  IN CASE matches = {} -> Refused("not found")
       [] Cardinality(matches) > 1 -> Refused("ambiguous")
       [] OTHER -> LET i == CHOOSE i \in matches : TRUE
                   IN EditResult(named, RemoveAt(named, i), [kind |-> "removed", declaration |-> named[i]])

ReplaceDeclaration(declarations, selector, d) ==
  LET matches == Matching(declarations, selector)
  IN CASE matches = {} -> Refused("not found")
       [] Cardinality(matches) > 1 -> Refused("ambiguous")
       [] OTHER -> LET i == CHOOSE i \in matches : TRUE
                   IN EditResult(declarations, ReplaceAt(declarations, i, d),
                                 [kind |-> "changed", declaration |-> d, previous |-> declarations[i]])

-----------------------------------------------------------------------------
(* tspack add and tspack remove *)

Editable(d) == d.authority = "owned" /\ d.editability = "editable"
EditableDeclarations(declarations, identity) ==
  {i \in DOMAIN declarations : Identity(declarations[i]) = identity /\ Editable(declarations[i])}

HasDeclarationFromOtherSource(declarations, identity) ==
  \E i \in DOMAIN declarations :
    declarations[i].name = identity.name /\ declarations[i].source # identity.source

IdentityKey(identity) == identity.source \o ":" \o identity.name

(* The one editable declaration of the package is replaced, keeping its key   *)
(* and its place; without one, another is added, under a key of its own when   *)
(* another source declares the name.                                        *)
AddOperation(declarations, request) ==
  LET identity == Identity(request)
      editable == EditableDeclarations(declarations, identity)
      fresh == [id |-> 0, key |-> "", source |-> request.source, name |-> request.name,
                constraint |-> request.constraint, kind |-> request.kind, optional |-> request.optional,
                origin |-> "explicit-user-operation", layer |-> "explicit", layerOrder |-> 0, order |-> 0,
                authority |-> "owned", editability |-> "editable"]
      only == declarations[CHOOSE i \in editable : TRUE]
      present == only.kind = request.kind /\ only.optional = request.optional
                 /\ (request.explicit => request.constraint = only.constraint)
      edit == IF editable # {}
              THEN ReplaceDeclaration(declarations,
                     [id |-> only.id, identity |-> identity, kind |-> only.kind],
                     [fresh EXCEPT !.key = only.key, !.id = only.id, !.order = only.order])
              ELSE Add(declarations,
                     [fresh EXCEPT !.key = IF HasDeclarationFromOtherSource(declarations, identity)
                                           THEN IdentityKey(identity) ELSE ""])
  IN CASE Cardinality(editable) > 1 -> Refused("ambiguous")
       [] Cardinality(editable) = 1 /\ present -> Refused("already present")
       [] OTHER -> IF IsRefused(edit) \/ ~HasFatalConflicts(edit.after) THEN edit ELSE Refused("conflict")

(* RunRemove: the package by its name when only one source declares it. *)
RemoveOperation(declarations, request) ==
  LET sources == {declarations[i].source : i \in {j \in DOMAIN declarations : declarations[j].name = request.name}}
      identity == [source |-> IF request.source # "" \/ sources = {} THEN request.source
                              ELSE CHOOSE s \in sources : TRUE,
                   name |-> request.name]
      candidates == {i \in EditableDeclarations(declarations, identity) :
                       /\ request.kind \in {"", declarations[i].kind}
                       /\ declarations[i].optional \in request.optional}
      removed == declarations[CHOOSE i \in candidates : TRUE]
      edit == RemoveDeclaration(declarations, [id |-> removed.id, identity |-> identity, kind |-> removed.kind])
  IN IF request.source = "" /\ Cardinality(sources) > 1 THEN Refused("source")
     ELSE CASE candidates = {} -> Refused("none")
            [] Cardinality(candidates) > 1 -> Refused("ambiguous")
            [] OTHER -> IF IsRefused(edit) \/ ~HasFatalConflicts(edit.after) THEN edit ELSE Refused("conflict")

EffectiveIdentityDeclarations(tape, identity) ==
  {d \in EffectiveDeclarations(tape) : Identity(d) = identity}

-----------------------------------------------------------------------------
(* The source: a row is a declaration at its place in the list *)

DefaultEditability(origin) ==
  CASE origin = "concept" -> "concept-owned"
    [] origin = "template" -> "generated"
    [] origin = "compatibility" -> "observed"
    [] OTHER -> "editable"

MapDependencyDeclaration(row, order) ==
  [id |-> 0, key |-> row.key, source |-> row.source, name |-> row.name, constraint |-> row.constraint,
   kind |-> row.kind, optional |-> row.optional, origin |-> row.origin,
   layer |-> IF row.layer = "" THEN "package" ELSE row.layer, layerOrder |-> 0, order |-> order,
   authority |-> "owned", editability |-> DefaultEditability(row.origin)]

MapDependencyAuthoring(rows) == [i \in DOMAIN rows |-> MapDependencyDeclaration(rows[i], i)]

RenderDeclaration(d) ==
  [source |-> d.source, name |-> d.name, constraint |-> d.constraint, kind |-> d.kind,
   optional |-> d.optional, key |-> d.key, origin |-> d.origin,
   layer |-> IF d.layer = "explicit" THEN "explicit" ELSE ""]

SourceOrderedDeclarations_Tape(tape) == tape

(* The declarations before the edit, as they stand in the source. *)
SourceOrderedDeclarations(tape) ==
  SetToSortSeq(ToSet(tape), LAMBDA a, b : a.order < b.order)

DeclarationIndex(ordered, target) ==
  SelectInSeq(ordered, LAMBDA d :
    \/ (target.id # 0 /\ d.id = target.id)
    \/ (d.order = target.order /\ d.kind = target.kind /\ Identity(d) = Identity(target) /\ d.key = target.key))

(* Plan: the source with the edit's primary change, or a refusal where it is  *)
(* not the manifest's own declaration or has no helper to write it with.      *)
Plan(rows, edit) ==
  LET change == edit.primary
      target == IF change.kind = "changed" THEN change.previous ELSE change.declaration
      index == DeclarationIndex(SourceOrderedDeclarations(edit.before), target)
  IN CASE ~Editable(target) -> Refused("authority")
       [] Editable(target) /\ change.kind # "removed" /\ change.declaration.kind \notin {"dep", "peer", "tool"} ->
            Refused("helper")
       [] OTHER ->
            CASE change.kind = "added" -> [rows |-> Append(rows, RenderDeclaration(change.declaration))]
              [] change.kind = "removed" -> [rows |-> RemoveAt(rows, index)]
              [] change.kind = "changed" -> [rows |-> ReplaceAt(rows, index, RenderDeclaration(change.declaration))]

-----------------------------------------------------------------------------
Loads(rows) == ~HasFatalConflicts(Build(MapDependencyAuthoring(rows)))

(* In a manifest that loads each key names one effective dependency: the      *)
(* last, by precedence, of the declarations that use the key; a declaration    *)
(* that is reported as overridden could be taken away without effect.         *)
KeysAreDecided(rows) ==
  LET tape == Build(MapDependencyAuthoring(rows))
  IN Loads(rows) =>
       /\ \A p \in DOMAIN tape :
            LET same == {q \in DOMAIN tape : EffectiveKey(tape[q]) = EffectiveKey(tape[p])}
            IN {q \in same : IsEffective(tape, q)} = {Max(same)}
       /\ \A c \in ShadowConflicts(tape) : Effective(Build(RemoveAt(tape, c.earlier))) = Effective(tape)

(* What an edit announces is what the manifest says once it is read again:   *)
(* the effective dependencies are those announced, those of other slots are    *)
(* the old ones, an added package is effective as it was asked for, and in the  *)
(* slot of a removed one is what the command reports as newly effective; what  *)
(* it says is still declared of the package is.                             *)
EditIsAnnounced(rows, request) ==
  LET declarations == MapDependencyAuthoring(rows)
      edit == IF request.op = "add" THEN AddOperation(declarations, request)
              ELSE RemoveOperation(declarations, request)
      plan == Plan(rows, edit)
      now == Build(MapDependencyAuthoring(plan.rows))
      slot == DeclarationSlotKey(edit.primary.declaration)
      others(tape) == {EffectiveDependency(d) : d \in {e \in EffectiveDeclarations(tape) : DeclarationSlotKey(e) # slot}}
      held(tape) == {EffectiveDependency(d) : d \in {e \in EffectiveDeclarations(tape) : DeclarationSlotKey(e) = slot}}
      ofPackage(tape) == {EffectiveDependency(d) :
                            d \in EffectiveIdentityDeclarations(tape, Identity(edit.primary.declaration))}
      wasEffective == \E d \in EffectiveDeclarations(edit.before) : d.id = edit.primary.declaration.id
      unshadowed == {EffectiveDependency(c.declaration) : c \in {f \in edit.follows : f.kind = "unshadowed"}}
  IN Loads(rows) /\ ~IsRefused(edit) /\ ~IsRefused(plan) =>
       /\ Loads(plan.rows)
       /\ Effective(now) = Effective(edit.after)
       /\ others(now) = others(edit.before)
       /\ request.op = "add" =>
            \E d \in held(now) : /\ held(now) = {d}
                                 /\ d.range = request.constraint
                                 /\ d.kind = request.kind
                                 /\ d.optional = request.optional
       /\ request.op = "remove" =>
            /\ held(now) = IF wasEffective THEN unshadowed ELSE held(edit.before)
            /\ ofPackage(now) = ofPackage(edit.after)

-----------------------------------------------------------------------------
Failed(why) == [failed |-> why]
IsFailed(result) == "failed" \in DOMAIN result

(* ResolveWithRegistry: the listed concepts once each, in the order listed.  *)
ResolveConcepts(registry, requested, kind) ==
  LET listed == ToSet(requested)
      once == FoldLeft(LAMBDA seen, name : IF Contains(seen, name) THEN seen ELSE Append(seen, name), <<>>, requested)
      fits(f) == /\ f.kinds = {} \/ kind = "" \/ kind \in f.kinds
                 /\ f.requires \subseteq listed
                 /\ \A group \in f.requiresAnyOf : group \cap listed # {}
                 /\ f.conflicts \cap listed = {}
  IN IF ~(listed \subseteq DOMAIN registry) THEN Failed("unknown")
     ELSE IF \E name \in listed : ~fits(registry[name]) THEN Failed("does not fit")
     ELSE [fragments |-> [i \in DOMAIN once |-> registry[once[i]]]]

-----------------------------------------------------------------------------
(* The merge so far: the dependencies in the order they were first stated,    *)
(* the other contributions by their path, and the slots.                     *)
Unmerged == [dependencies |-> <<>>, values |-> {}, slots |-> <<>>]

AddDependency_AnyRange(m, d) ==
  IF IsFailed(m) THEN m
  ELSE IF \E i \in DOMAIN m.dependencies : m.dependencies[i].name = d.name THEN m
  ELSE [m EXCEPT !.dependencies = Append(@, d)]

(* addDeps and crossKindDependencyConflict. *)
AddDependency(m, d) ==
  IF IsFailed(m) THEN m
  ELSE LET stated == {i \in DOMAIN m.dependencies : m.dependencies[i].name = d.name}
       IN IF stated = {} THEN [m EXCEPT !.dependencies = Append(@, d)]
          ELSE IF \E i \in stated : m.dependencies[i].section # d.section THEN Failed("kinds")
          ELSE IF \E i \in stated : m.dependencies[i] # d THEN Failed("ranges") ELSE m

(* addUnique, mergeProjections, and the one workspace, package and pack. *)
AddValue(m, v) ==
  IF IsFailed(m) THEN m
  ELSE IF \E w \in m.values : w.path = v.path /\ w.value # v.value THEN Failed("values")
  ELSE [m EXCEPT !.values = @ \cup {v}]

(* mergeSlots: a slot another fragment has stated just so ends the merge of  *)
(* this fragment's slots.                                                   *)
MergeSlots(m, slots) ==
  LET step(acc, slot) ==
        LET same == {i \in DOMAIN acc.m.slots : acc.m.slots[i].name = slot.name}
        IN CASE IsFailed(acc.m) \/ acc.ended -> acc
             [] ~IsFailed(acc.m) /\ ~acc.ended /\ (slot.append \/ same = {}) ->
                  [acc EXCEPT !.m.slots = Append(@, slot)]
             [] OTHER -> IF acc.m.slots[Min(same)] = slot THEN [acc EXCEPT !.ended = TRUE]
                         ELSE [acc EXCEPT !.m = Failed("slots")]
  IN FoldLeft(step, [m |-> m, ended |-> FALSE], slots).m

AddFragment(m, f) ==
  LET stated == FoldLeft(AddDependency, m, f.dependencies)
      valued == FoldLeft(AddValue, stated, f.values)
  IN IF IsFailed(valued) THEN valued ELSE MergeSlots(valued, f.slots)

MergeConcepts(fragments) == FoldLeft(AddFragment, Unmerged, fragments)

-----------------------------------------------------------------------------
(* DependencyDeclarations: before the merge, the dependencies as the tape     *)
(* takes them; the first concept listed has the highest layer order.          *)
SectionKind == [dependencies |-> "dep", tools |-> "tool", peers |-> "peer"]

ConceptDeclaration(d, id, layerOrder) ==
  [id |-> id, key |-> "", source |-> IF d.source = "" THEN "npm" ELSE d.source, name |-> d.name,
   constraint |-> d.range, kind |-> SectionKind[d.section], optional |-> FALSE,
   origin |-> "concept", layer |-> "concept", layerOrder |-> layerOrder, order |-> id,
   authority |-> "generated", editability |-> "concept-owned"]

DependencyDeclarations(fragments) ==
  LET stated == FlattenSeq([i \in DOMAIN fragments |->
                  [j \in DOMAIN fragments[i].dependencies |-> <<i, fragments[i].dependencies[j]>>]])
  IN [n \in DOMAIN stated |-> ConceptDeclaration(stated[n][2], n, 1 + Len(fragments) - stated[n][1])]

-----------------------------------------------------------------------------
(* What the merge states is what the tape finds effective, one declaration    *)
(* of each name; and neither the answer nor the contributions depend on the     *)
(* order in which the concepts are listed.  (Slots are left out: see MergeSlots.) *)
MergeAgreesWithTape(registry, requested, kind) ==
  LET listed(names) == ResolveConcepts(registry, names, kind)
      merge(names) == IF IsFailed(listed(names)) THEN listed(names) ELSE MergeConcepts(listed(names).fragments)
      merged == merge(requested)
      turned == merge(Reverse(requested))
      tape == Build(DependencyDeclarations(listed(requested).fragments))
  IN /\ IsFailed(merged) <=> IsFailed(turned)
     /\ ~IsFailed(merged) =>
          /\ ToSet(merged.dependencies) = ToSet(turned.dependencies)
          /\ merged.values = turned.values
          /\ ~HasFatalConflicts(tape)
          /\ {<<d.name, d.kind, d.range>> : d \in Effective(tape)}
               = {<<d.name, SectionKind[d.section], d.range>> : d \in ToSet(merged.dependencies)}
          /\ Cardinality(Effective(tape)) = Len(merged.dependencies)
=============================================================================
