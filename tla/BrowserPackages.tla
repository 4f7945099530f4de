---------------------------- MODULE BrowserPackages ---------------------------
(***************************************************************************)
(* What a browser build makes of the npm packages its compiled output imports: *)
(* the file each specifier stands for, where it is put, the import map, and    *)
(* the page (internal/integrations/browser/materialization.go).               *)
(*                                                                         *)
(* A specifier is a sequence of names and of the characters "@", "/" and "-".  *)
(* A package is [installed, exports, entries, files, cjs, node]: exports is a  *)
(* value of its package.json, [kind, path, of], entries its browser, module    *)
(* and main fields, cjs the files with the marks of CommonJS, node those that  *)
(* import built-ins of Node.                                                  *)
(***************************************************************************)
EXTENDS Naturals, Sequences, SequencesExt, FiniteSets

Unset == "unset"
Unsafe == {"", "../out"}
Conditions == <<"browser", "import", "default">>

(* PackageRootName, PackageSubpath, packageOutputDirectory.                    *)
RootLength(spec) ==
  LET slashes == SelectSeq([i \in DOMAIN spec |-> i], LAMBDA i : spec[i] = "/")
      nth == IF Head(spec) = "@" THEN 2 ELSE 1
  IN IF nth \in DOMAIN slashes THEN slashes[nth] - 1 ELSE Len(spec)

PackageRootName(spec) == SubSeq(spec, 1, RootLength(spec))
PackageSubpath(spec)  == SubSeq(spec, RootLength(spec) + 1, Len(spec))

PackageOutputDirectory(spec) ==
  [i \in DOMAIN spec |-> CASE spec[i] = "@" -> "scope-" [] spec[i] = "/" -> "-" [] OTHER -> spec[i]]

ShouldBundle(spec) == PackageRootName(spec) = <<"@", "base-ui-components", "/", "react">>

-----------------------------------------------------------------------------
(* selectBrowserExport: a key that exports names, then the conditions in their  *)
(* order.  The key of a specifier is looked for at the top only, so a subpath   *)
(* that exports does not name is not found among subpaths but may be answered   *)
(* by a condition, and by a string.                                          *)
Found(entry) == [entry |-> entry, found |-> TRUE, failed |-> FALSE]
NotFound     == [entry |-> Unset, found |-> FALSE, failed |-> FALSE]
Failed       == [entry |-> Unset, found |-> FALSE, failed |-> TRUE]

RECURSIVE SelectBrowserExport(_, _)
SelectBrowserExport(value, key) ==
  CASE value.kind = "path" -> Found(value.path)
    [] value.kind = "odd" -> Failed
    [] value.kind = "map" /\ key \in DOMAIN value.of -> SelectBrowserExport(value.of[key], <<"">>)
    [] OTHER ->
         LET answers == [i \in 1 .. 3 |->
                           IF <<Conditions[i]>> \in DOMAIN value.of
                           THEN SelectBrowserExport(value.of[<<Conditions[i]>>], <<"">>) ELSE NotFound]
             first == SelectInSeq(answers, LAMBDA a : a # NotFound)
         IN IF first # 0 THEN answers[first]
            ELSE IF <<"require">> \in DOMAIN value.of THEN Failed ELSE NotFound

ValidateBrowserEntry(entry) == IF entry \in Unsafe THEN Failed ELSE Found(entry)

(* SelectPackageEntry.                                                        *)
SelectPackageEntry(package, subpath) ==
  LET exported == IF package.exports.kind = "none" THEN NotFound
                  ELSE SelectBrowserExport(package.exports, <<".">> \o subpath)
      field == SelectInSeq(package.entries, LAMBDA e : e # Unset)
  IN CASE exported.failed -> Failed
       [] exported.found -> ValidateBrowserEntry(exported.entry)
       [] ~exported.found /\ ~exported.failed /\ field # 0 -> ValidateBrowserEntry(package.entries[field])
       [] OTHER -> Failed

-----------------------------------------------------------------------------
(* MaterializeGraph: one package after another is copied, or transformed to one *)
(* file, and hashed; the first failure ends it.  A file of the output is named  *)
(* by its directory and path, its content by the package and file it is from.   *)
Materialize(done, spec, packages) ==
  LET package == packages[PackageRootName(spec)]
      selected == SelectPackageEntry(package, PackageSubpath(spec))
      directory == PackageOutputDirectory(spec)
      bundle == selected.entry \in package.cjs \/ ShouldBundle(spec)
      output == <<directory, IF bundle THEN "entry.mjs" ELSE selected.entry>>
      written == IF bundle THEN output :> [of |-> PackageRootName(spec), file |-> selected.entry]
                 ELSE [f \in {<<directory, g>> : g \in package.files} |->
                         [of |-> PackageRootName(spec), file |-> f[2]]]
      disk == written @@ done.disk
  IN CASE done.failed -> done
       [] ~done.failed /\ (~package.installed \/ selected.failed) -> [done EXCEPT !.failed = TRUE]
       [] ~done.failed /\ package.installed /\ ~selected.failed
            /\ (\/ selected.entry \notin package.files
                \/ bundle /\ selected.entry \in package.node) -> [done EXCEPT !.failed = TRUE]
       [] OTHER -> [failed |-> FALSE, disk |-> disk,
                    packages |-> Append(done.packages, [specifier |-> spec, output |-> output, bytes |-> disk[output]])]

Runtime == [specifier |-> <<"@", "copeland", "/", "browser-v1">>,
            output |-> <<<<"copeland-browser-v1">>, "index.js">>, bytes |-> [of |-> <<"tspack">>, file |-> "index.js"]]

MaterializeGraph(contracts, packages) ==
  LET done == FoldLeft(LAMBDA d, spec : Materialize(d, spec, packages),
                       [failed |-> FALSE, disk |-> <<>>, packages |-> <<>>], contracts)
  IN IF done.failed THEN done
     ELSE [done EXCEPT !.disk = (Runtime.output :> Runtime.bytes) @@ @, !.packages = Append(@, Runtime)]

(* The import map of WriteHost: one address for each specifier.                *)
ImportMap(result) ==
  [spec \in {p.specifier : p \in ToSet(result.packages)} |->
     (CHOOSE p \in ToSet(result.packages) : p.specifier = spec).output]

(* WriteHost: the scripts of the page in their order, by what they import.     *)
React    == {<<"react">>, <<"react-dom", "/", "client">>}
Scripts(result, plans, frames) ==
  LET served == {p.specifier : p \in ToSet(result.packages)}
  IN (IF React \subseteq served THEN <<React>> ELSE <<>>)
     \o (IF frames THEN <<{Runtime.specifier}>> ELSE <<>>)
     \o (IF plans THEN <<{Runtime.specifier}>> ELSE <<>>)

-----------------------------------------------------------------------------
(* The attachment artifact [listed, schema, project, plans]: what the build     *)
(* accepts (validateAttachmentPlanArtifact) and what the runtime in the page    *)
(* accepts (validateAttachmentArtifact).  An absent list is an empty one for    *)
(* the build.  A plan is [id, whole, lives]: its name, whether every other      *)
(* field is there, whether it has its three lifecycle marks.                   *)
ValidateAttachmentPlanArtifact_Repeated(artifact) ==
  /\ artifact.schema = 1 /\ artifact.project # ""
  /\ \A p \in ToSet(artifact.plans) : p.id # "" /\ p.whole /\ p.lives

ValidateAttachmentPlanArtifact(artifact) ==
  /\ artifact.schema = 1 /\ artifact.project # ""
  /\ \A p \in ToSet(artifact.plans) : p.id # "" /\ p.whole /\ p.lives
  /\ \A i, j \in DOMAIN artifact.plans : artifact.plans[i].id = artifact.plans[j].id => i = j

RuntimeAccepts(artifact) ==
  /\ artifact.listed /\ artifact.schema = 1
  /\ \A p \in ToSet(artifact.plans) : p.whole /\ p.lives
  /\ Cardinality({p.id : p \in ToSet(artifact.plans)}) = Len(artifact.plans)

-----------------------------------------------------------------------------
(* A build that succeeds serves, under each specifier it was asked for, the     *)
(* bytes it hashed, of an installed package of that name, and whatever a script *)
(* of the page imports; provided no two specifiers share a directory (which     *)
(* "a/b" and "a-b" do) and none names the runtime.  And the page does not       *)
(* refuse attachments that the build accepted, if it lists any.                 *)
PageIsServed(contracts, packages, plans, frames) ==
  LET result == MaterializeGraph(contracts, packages)
      apart == \A i, j \in DOMAIN contracts :
                 PackageOutputDirectory(contracts[i]) = PackageOutputDirectory(contracts[j]) => contracts[i] = contracts[j]
  IN ~result.failed =>
       /\ \A spec \in ToSet(contracts) : spec \in DOMAIN ImportMap(result)
       /\ apart => \A p \in ToSet(result.packages) :
            /\ result.disk[ImportMap(result)[p.specifier]] = p.bytes
            /\ p # Runtime => /\ p.bytes.of = PackageRootName(p.specifier)
                              /\ p.bytes.file \in packages[p.bytes.of].files \ Unsafe
       /\ \A i \in DOMAIN Scripts(result, plans, frames) :
            Scripts(result, plans, frames)[i] \subseteq DOMAIN ImportMap(result)

AcceptedAttachmentsLoad(artifact) ==
  ValidateAttachmentPlanArtifact(artifact) /\ artifact.listed => RuntimeAccepts(artifact)
=============================================================================
