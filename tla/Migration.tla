------------------------------ MODULE Migration -------------------------------
(***************************************************************************)
(* tspack migrate: what becomes of a package.json, its scripts, the imports of *)
(* its sources, its package-lock.json, and the packages of a pnpm workspace.   *)
(*                                                                         *)
(* A package name, an export name and a package root are sequences of words     *)
(* and separators; a package.json has, for each field, its packages in the      *)
(* order of their names, the ranges, and the packages its other fields name.   *)
(***************************************************************************)
EXTENDS Naturals, Sequences, SequencesExt, FiniteSets, TLC

Separators == {"@", "/", "-", "."}
Digits == {"2", "3"}

(* packageNameToIdentifier: the words in camel case.                          *)
PackageNameToIdentifier(name) ==
  LET words == SelectSeq(name, LAMBDA word : word \notin Separators)
  IN CASE words = <<>> -> <<"dependency">>
       [] words # <<>> /\ Head(words) \in Digits -> <<"dep">> \o words
       [] OTHER -> words

MigrationIdentifier_Base(name, used) == PackageNameToIdentifier(name)

(* migrationIdentifierForPackage: a second package of the same identifier gets  *)
(* the first number that is free.                                            *)
MigrationIdentifier(name, used) ==
  LET base == PackageNameToIdentifier(name)
      numbered(n) == Append(base, ToString(n))
  IN IF base \notin DOMAIN used \/ used[base] = name THEN base
     ELSE numbered(CHOOSE n \in 2 .. Cardinality(DOMAIN used) + 2 :
                     /\ numbered(n) \notin DOMAIN used
                     /\ \A m \in 2 .. n - 1 : numbered(m) \in DOMAIN used)

Fields == <<"peerDependencies", "dependencies", "optionalDependencies", "devDependencies">>

Kind(field) == CASE field = "peerDependencies" -> "peer" [] field = "devDependencies" -> "tool" [] OTHER -> "dep"

(* migrateDependencies: a row for each package of each field; a package that is *)
(* a peer is nothing else.                                                  *)
MigrateDependencies(package) ==
  LET listed(field) == package.fields[field]
      peers == ToSet(listed("peerDependencies"))
      add(acc, field, name) ==
          IF field # "peerDependencies" /\ name \in peers THEN acc
          ELSE LET key == MigrationIdentifier(name, acc.used)
               IN [rows |-> Append(acc.rows,
                     [key |-> key, name |-> name, kind |-> Kind(field), field |-> field,
                      todo |-> CASE field = "peerDependencies" -> FALSE
                                 [] field = "devDependencies" -> name \notin package.tools
                                 [] OTHER -> TRUE]),
                   used |-> (key :> name) @@ acc.used]
      all(acc, field) == FoldLeft(LAMBDA sofar, name : add(sofar, field, name), acc, listed(field))
  IN FoldLeft(all, [rows |-> <<>>, used |-> <<>>], Fields).rows

(* The object that defineDeps is called with: the last row of a key.           *)
Declared(rows) ==
  [key \in {rows[i].key : i \in DOMAIN rows} |->
     rows[CHOOSE i \in DOMAIN rows : rows[i].key = key /\ \A j \in i + 1 .. Len(rows) : rows[j].key # key]]

(* joinDependencyIdentityRefs.                                               *)
Named(rows, kind) == LET of == SelectSeq(rows, LAMBDA row : row.kind = kind) IN [i \in DOMAIN of |-> of[i].name]

-----------------------------------------------------------------------------
(* inferMigrationTargets.  An export states a runtime, types, or something else *)
(* (neither); its name is "." or a path.                                     *)
InferMigrationKind(package) == IF package.private /\ package.entries = {} /\ package.exports = <<>> THEN "app" ELSE "library"

SimpleExport(export) == export.runtime \/ export.types

TargetNameFromExport(name) ==
  LET words == SelectSeq(name, LAMBDA word : word \notin Separators)
  IN IF words = <<>> THEN <<"core">> ELSE PackageNameToIdentifier(name)

InferMigrationTargets(package) ==
  LET root == SelectSeq(package.exports, LAMBDA e : e.name = <<".">> /\ SimpleExport(e))
      subpaths == SelectSeq(package.exports, LAMBDA e : e.name # <<".">>)
      converted == SelectSeq(subpaths, LAMBDA e : e.runtime)
      core == [name |-> <<"core">>, export |-> <<".">>,
               from |-> CASE root # <<>> -> "root export"
                          [] root = <<>> /\ package.entries # {} -> "main/module/types fields"
                          [] OTHER -> "placeholder"]
  IN IF InferMigrationKind(package) = "app"
     THEN [rows |-> <<[name |-> <<"app">>, export |-> <<".">>, from |-> "private app"]>>, todos |-> {}]
     ELSE [rows |-> <<core>> \o [i \in DOMAIN converted |->
                      [name |-> TargetNameFromExport(converted[i].name), export |-> converted[i].name,
                       from |-> "subpath export"]],
           todos |-> {e.name : e \in ToSet(subpaths) \ ToSet(converted)}]

-----------------------------------------------------------------------------
(* analyzePackageScript.  A script is its name and the words of its command.   *)
ShellWords == {"&&", "$X"}
Assignments == {"A=1"}

SplitSimpleShellCommand(words) == ToSet(words) \cap ShellWords = {}

HasEnvPrefix(words) == words # <<>> /\ Head(words) \in Assignments \cup {"cross-env"}

ScriptCommandArgv(words) ==
  LET past == IF words # <<>> /\ Head(words) = "cross-env" THEN Tail(words) ELSE words
      commands == {i \in DOMAIN past : past[i] \notin Assignments /\ \A j \in 1 .. i - 1 : past[j] \in Assignments}
  IN IF commands = {} THEN <<>> ELSE SubSeq(past, CHOOSE i \in commands : TRUE, Len(past))

LifecycleScripts == {"prepare", "postinstall"}

Word(argv, n) == IF n \in DOMAIN argv THEN argv[n] ELSE ""

LooksRuntime(argv) ==
  LET second == Word(argv, 2)
  IN CASE Word(argv, 1) = "vite" -> second # "build"
       [] Word(argv, 1) = "next" -> second \in {"dev", "start"}
       [] Word(argv, 1) = "node" -> second \notin {"", "--test"}
       [] OTHER -> FALSE

(* classifyScript: the first sign that fits; the text of a command has a word   *)
(* when any but its first word is it.                                        *)
ClassifyScript(script) ==
  LET argv == ScriptCommandArgv(script.words)
      command == Word(argv, 1)
      text(word) == script.words # <<>> /\ word \in ToSet(Tail(script.words))
      signs == <<
        <<"lifecycle", script.name \in LifecycleScripts>>,
        <<"build", script.name = "build" \/ command = "tsc" \/ text("build")>>,
        <<"test", \/ script.name = "test" \/ command = "vitest" \/ text("test")
                  \/ <<command, Word(argv, 2)>> = <<"node", "--test">> >>,
        <<"lint", script.name = "lint" \/ command = "eslint">>,
        <<"package/publish", script.name = "release">>,
        <<"runtime-target-candidate", LooksRuntime(argv) \/ script.name \in {"dev", "start"}>>,
        <<"maintenance", script.name = "clean">>,
        <<"unknown", TRUE>> >>
  IN signs[SelectInSeq(signs, LAMBDA sign : sign[2])][1]

(* suggestRunTargetForScript: a composite command is not suggested.            *)
SuggestRunTarget(script) ==
  LET argv == ScriptCommandArgv(script.words)
  IN CASE ClassifyScript(script) # "runtime-target-candidate" -> [some |-> FALSE]
       [] argv = <<>> -> [some |-> FALSE]
       [] OTHER -> [some |-> TRUE, command |-> IF SplitSimpleShellCommand(script.words) THEN argv ELSE <<>>]

NeedsReview(script) ==
  \/ ~SplitSimpleShellCommand(script.words) \/ HasEnvPrefix(script.words)
  \/ script.words # <<>> /\ ScriptCommandArgv(script.words) = <<>>

-----------------------------------------------------------------------------
(* classifyStaticImport: import type, a default or namespace, and the named     *)
(* specifiers, each type or not.                                             *)
ClassifyStaticImport(import) ==
  IF import.typeKeyword THEN "type-only"
  ELSE IF TRUE \notin import.named THEN "runtime"
  ELSE IF import.default \/ FALSE \in import.named THEN "mixed" ELSE "type-only"

(* loadSourceScanEvidence: how a package is imported by the sources.           *)
Observed(imports, name) ==
  {IF i.how = "static" THEN ClassifyStaticImport(i) ELSE "runtime" : i \in {j \in imports : j.name = name}}

SourcePackageHasRuntimeUse(kinds) == kinds \cap {"runtime", "mixed"} # {}

(* sourceDeclarationForPackage.                                              *)
SourceDeclaration(package, name) ==
  LET fields == SelectSeq(Fields, LAMBDA field : name \in ToSet(package.fields[field]))
  IN IF fields = <<>> THEN "missing" ELSE Head(fields)

(* The comment a row of the manifest gets.                                   *)
NeedsTodo(package, imports, row) ==
  \/ row.todo
  \/ SourceDeclaration(package, row.name) = "devDependencies"
     /\ SourcePackageHasRuntimeUse(Observed(imports, row.name))

SourceMissingPackages(package, imports) ==
  {name \in {i.name : i \in imports} : SourceDeclaration(package, name) = "missing"}

-----------------------------------------------------------------------------
(* package-lock.json: what its root lists, and an entry of a name at each path.  *)
FindDirectEntry(lock, name) ==
  IF <<name>> \in DOMAIN lock.entries THEN {<<name>>} ELSE {p \in DOMAIN lock.entries : lock.entries[p] = name}

MissingDirect(lock, rows) == {rows[i].name : i \in {j \in DOMAIN rows : FindDirectEntry(lock, rows[j].name) = {}}}

UndeclaredRootDependencies(lock, rows) == lock.root \ {rows[i].name : i \in DOMAIN rows}

-----------------------------------------------------------------------------
(* A pnpm workspace: the packages [root, name, dependencies], a dependency       *)
(* [name, value], and catalogs.                                              *)
MigrationIdentityForDuplicatePackage(package) ==
  LET suffix == SelectSeq(package.root, LAMBDA word : word \notin Separators)
  IN Append(package.name, "--tspack") \o (IF suffix = <<>> THEN <<"root">> ELSE suffix)

RootsByName(packages, name) == {p \in packages : p.name = name}

DraftName(packages, p) ==
  IF Cardinality(RootsByName(packages, p.name)) > 1 THEN MigrationIdentityForDuplicatePackage(p) ELSE p.name

(* resolvePnpmDependency: what a reference stands for, or a TODO.              *)
ResolvePnpmDependency(packages, catalogs, d) ==
  LET todo == [kind |-> "npm", name |-> d.name, todo |-> TRUE]
  IN CASE d.value = "workspace:" ->
            IF Cardinality(RootsByName(packages, d.name)) = 1
            THEN [kind |-> "workspace", name |-> d.name, todo |-> FALSE] ELSE todo
       [] d.value \in DOMAIN catalogs ->
            IF d.name \in catalogs[d.value] THEN [kind |-> "npm", name |-> d.name, todo |-> FALSE] ELSE todo
       [] d.value = "npm:other@1" -> [kind |-> "npm", name |-> <<"other">>, todo |-> FALSE]
       [] d.value \in {"npm:other", "file:../.."} -> todo
       [] d.value = "file:lib" -> [kind |-> "path", name |-> <<"lib">>, todo |-> FALSE]
       [] OTHER -> [kind |-> "npm", name |-> d.name, todo |-> FALSE]

-----------------------------------------------------------------------------
(* runMigrateCommand: the outputs in the order they are written.  An output     *)
(* that exists is refused before the draft is validated.                     *)
WriteOutputs(run) ==
  CASE ~run.write -> <<>>
    [] run.write /\ ~run.force /\ ToSet(run.outputs) \cap run.existing # {} -> <<>>
    [] run.check /\ ~run.valid -> <<>>
    [] OTHER -> SubSeq(run.outputs, 1, run.writable)

-----------------------------------------------------------------------------
(* Every export of a library becomes a target of its own or is marked as not   *)
(* understood, after a target for the package itself; two targets share a name   *)
(* only where the exports differ in separators alone (inferMigrationTargets).  *)
ExportsAreConverted(package) ==
  LET drafted == InferMigrationTargets(package)
      rows == drafted.rows
      names == {e.name : e \in ToSet(package.exports)}
      spoken(name) == SelectSeq(name, LAMBDA word : word \notin Separators)
  IN InferMigrationKind(package) = "library" =>
       /\ Head(rows).export = <<".">>
       /\ {rows[i].export : i \in 2 .. Len(rows)} \cup drafted.todos = names \ {<<".">>}
       /\ \A i, j \in DOMAIN rows : i < j =>
            /\ rows[i].export # rows[j].export /\ rows[j].export \notin drafted.todos
            /\ rows[i].name = rows[j].name =>
                 \/ spoken(rows[i].export) = spoken(rows[j].export)
                 \/ i = 1 /\ spoken(rows[j].export) = <<"core">>

(* Each package that a package.json names is declared under an identifier of    *)
(* its own, as a peer when it is one; a package that one field names is declared *)
(* as what the field makes of it, and the targets name the packages of their    *)
(* kind and no other (migrateDependencies, renderMigrationManifest).            *)
PackagesAreMigrated(package) ==
  LET rows == MigrateDependencies(package)
      declared == Declared(rows)
      fields(name) == {f \in ToSet(Fields) : name \in ToSet(package.fields[f])}
      names == UNION {ToSet(package.fields[f]) : f \in ToSet(Fields)}
  IN /\ \A name \in names :
          LET keys == {key \in DOMAIN declared : declared[key].name = name}
          IN /\ keys # {}
             /\ "peerDependencies" \in fields(name) => {declared[key].kind : key \in keys} = {"peer"}
             /\ \A f \in fields(name) : fields(name) = {f} =>
                  /\ Cardinality(keys) = 1 /\ \A key \in keys : declared[key].kind = Kind(f)
                  /\ \A kind \in {"peer", "dep"} : Contains(Named(rows, kind), name) <=> Kind(f) = kind
     /\ \A key \in DOMAIN declared : declared[key].name \in names

(* What the sources import at run time is a dependency, a peer, or pointed out   *)
(* in the draft (renderMigrationManifest, sourceMissingPackages).              *)
ImportsAreNoticed(package, imports) ==
  LET rows == MigrateDependencies(package)
  IN \A i \in imports :
       SourcePackageHasRuntimeUse(Observed(imports, i.name)) =>
         \/ i.name \in SourceMissingPackages(package, imports)
         \/ \E j \in DOMAIN rows :
              rows[j].name = i.name /\ (rows[j].kind \in {"dep", "peer"} \/ NeedsTodo(package, imports, rows[j]))

(* A command is suggested for a script only when a shell adds nothing to it;     *)
(* the environment that is left out of it is up for review; and a script that   *)
(* builds, tests or lints by any sign is not suggested.                        *)
SuggestionsRunAlone(script) ==
  LET suggestion == SuggestRunTarget(script)
      signs == {"build", "test", "lint"}
  IN suggestion.some /\ suggestion.command # <<>> =>
       /\ ToSet(suggestion.command) \cap ShellWords = {}
       /\ Head(suggestion.command) \notin Assignments
       /\ suggestion.command # script.words => NeedsReview(script)
       /\ script.name \notin signs \cup LifecycleScripts /\ ToSet(Tail(script.words)) \cap signs = {}

(* The evidence of a lock that lists what package.json lists, and has an entry   *)
(* of each, misses nothing; of any other lock it names what differs.            *)
LockEvidenceIsExact(package, lock) ==
  LET rows == MigrateDependencies(package)
      names == {rows[i].name : i \in DOMAIN rows}
      entries == {lock.entries[p] : p \in DOMAIN lock.entries}
  IN MissingDirect(lock, rows) = names \ entries /\ UndeclaredRootDependencies(lock, rows) = lock.root \ names

(* A workspace reference that is resolved names one package of the draft; the   *)
(* other references that need pnpm are resolved or marked.                     *)
ReferencesAreResolved(packages, catalogs) ==
  \A p \in packages : \A d \in p.dependencies :
    LET r == ResolvePnpmDependency(packages, catalogs, d)
    IN r.kind = "workspace" => Cardinality({q \in packages : DraftName(packages, q) = r.name}) = 1

(* Without --force a migration replaces no file, and with --check it writes      *)
(* nothing that was not found valid (runMigrateCommand).                       *)
NothingIsOverwritten(run) ==
  WriteOutputs(run) # <<>> =>
    /\ run.write /\ (run.check => run.valid)
    /\ ~run.force => ToSet(run.outputs) \cap run.existing = {}
=============================================================================
