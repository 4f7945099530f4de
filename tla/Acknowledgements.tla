--------------------------- MODULE Acknowledgements ---------------------------
(***************************************************************************)
(* Lifecycle scripts are never run; they are recorded in the lockfile, and a   *)
(* manifest may acknowledge them.  Three reports say what is acknowledged:     *)
(* check (internal/project/lifecycle_support.go and what internal/cli prints   *)
(* of it), doctor security (internal/cli/doctor_command.go) and why.  Each has  *)
(* a matcher of its own, and so has the gate of an update policy, which asks of  *)
(* a candidate what check will ask of it once it is locked.                    *)
(*                                                                         *)
(* A lock maps an identity to its scripts and a script to its command; a root   *)
(* of it belongs to a section.  An acknowledgement names a package, a script    *)
(* and a command; a category names scripts, or no script for all of its own.    *)
(***************************************************************************)
EXTENDS Naturals, Sequences, SequencesExt, FiniteSets

Consumer   == {"preinstall", "install", "postinstall"}
Maintainer == {"prepack", "prepare", "postpack", "prepublish", "prepublishOnly", "publish", "postpublish"}

(* ClassifyLifecycleScript.                                                   *)
Category(script) ==
  IF script \in Consumer THEN "consumer-install"
  ELSE IF script \in Maintainer THEN "maintainer-publish" ELSE "other"

(* FromPackageJSONScripts: the scripts of a package that are recorded.          *)
Recorded(scripts) == [s \in DOMAIN scripts \cap (Consumer \cup Maintainer) |-> scripts[s]]

Capabilities(lock) ==
  UNION {{[package |-> id, script |-> s, command |-> lock.scripts[id][s]] : s \in DOMAIN lock.scripts[id]} :
         id \in DOMAIN lock.scripts}

-----------------------------------------------------------------------------
(* Acknowledgements of a capability: word for word, for another command of its  *)
(* script, or for its category.                                              *)
Names(ack, c) == ack.package = c.package /\ ack.script = c.script
Exactly(ack, c) == Names(ack, c) /\ ack.command = c.command

Exact(c, acks)   == {i \in DOMAIN acks : Exactly(acks[i], c)}
Drifted(c, acks) == {i \in DOMAIN acks : Names(acks[i], c) /\ acks[i].command # c.command}

Covers(category, script) ==
  /\ category.category = Category(script)
  /\ category.scripts = {} \/ script \in category.scripts

First(indices) == CHOOSE i \in indices : \A j \in indices : i <= j

(* matchingLifecycleCategoryAcknowledgement: the first that covers it, or 0.    *)
FirstCategory(c, categories) ==
  LET matching == {i \in DOMAIN categories : Covers(categories[i], c.script)}
  IN IF matching = {} THEN 0 ELSE First(matching)

(* The scripts a category lists that are not of it.                            *)
Strangers(category) == {s \in category.scripts : Category(s) # category.category}

-----------------------------------------------------------------------------
(* What pulls a package in: breadth first from each root, the edges of a node   *)
(* in the order of where they lead.                                          *)
RECURSIVE Walk(_, _, _, _)
Walk(edges, queue, seen, found) ==
  IF queue = <<>> THEN found
  ELSE LET path  == Head(queue)
           next  == SetToSortSeq({e.to : e \in {x \in edges : x.from = Last(path)}} \ seen, <)
           paths == [i \in DOMAIN next |-> Append(path, next[i])]
       IN Walk(edges, Tail(queue) \o paths, seen \cup Range(next), found \cup Range(paths))

PathsFrom(lock, root) == Walk(lock.edges, <<<<root>>>>, {}, {})

PulledBy(lock, sections, id) ==
  {path \in UNION {PathsFrom(lock, r) : r \in {x \in DOMAIN lock.roots : lock.roots[x] \in sections}} :
     Last(path) = id}

(* isLifecycleRootEdge.                                                       *)
LifecyclePulledByPaths(lock, id) == PulledBy(lock, {"target", "test", "tool"}, id)

(* doctorLifecyclePulledByPathLines has its own list of roots, without tests.    *)
DoctorLifecyclePulledByPathLines(lock, id) == PulledBy(lock, {"target", "tool"}, id)

-----------------------------------------------------------------------------
(* lifecycleCapabilityDiagnostics: what is not acknowledged word for word is    *)
(* present, with the category that acknowledges it or 0.  Every drifted          *)
(* acknowledgement of it counts as used; one of them, of an unordered map, is    *)
(* the one a warning names.                                                  *)
CheckReport(lock, acks, categories) ==
  LET open == {c \in Capabilities(lock) : Exact(c, acks) = {}}
  IN [present |-> {[capability |-> c, category |-> FirstCategory(c, categories),
                    paths |-> LifecyclePulledByPaths(lock, c.package)] : c \in open},
      stale |-> {[capability |-> c, acks |-> Drifted(c, acks)] : c \in {x \in open : Drifted(x, acks) # {}}},
      unused |-> DOMAIN acks \ (UNION {Exact(c, acks) : c \in Capabilities(lock)} \cup UNION {Drifted(c, acks) : c \in open}),
      staleCategories |-> {i \in DOMAIN categories : Strangers(categories[i]) # {}},
      unusedCategories |-> DOMAIN categories \ {FirstCategory(c, categories) : c \in open}]

(* renderHumanDiagnostics: conflicts and lifecycle scripts are summarised when   *)
(* there are two or more to show.                                            *)
Unacknowledged(present) == {d \in present : d.category = 0}
ByCategory(present)     == present \ Unacknowledged(present)

Summary(kind, present) ==
  [kind |-> kind,
   unacknowledged |-> Cardinality(Unacknowledged(present)), acknowledged |-> Cardinality(ByCategory(present)),
   counts |-> [k \in {"consumer-install", "maintainer-publish", "other"} |->
                 Cardinality({d \in present : Category(d.capability.script) = k})]]

RenderLifecycle(present, show) ==
  LET open == Unacknowledged(present)
  IN CASE show -> [rows |-> present, summaries |-> {}]
       [] ~show /\ present = {} -> [rows |-> {}, summaries |-> {}]
       [] ~show /\ present # {} /\ open = {} -> [rows |-> {}, summaries |-> {Summary("acknowledged", present)}]
       [] ~show /\ Cardinality(open) = 1 ->
            [rows |-> open, summaries |-> IF ByCategory(present) = {} THEN {} ELSE {Summary("all", present)}]
       [] ~show /\ Cardinality(open) > 1 -> [rows |-> {}, summaries |-> {Summary("all", present)}]

RenderConflicts(conflicts, show) ==
  IF show \/ Cardinality(conflicts) < 2 THEN [rows |-> conflicts, summaries |-> {}]
  ELSE [rows |-> {}, summaries |-> {[packages |-> Cardinality(conflicts)]}]

-----------------------------------------------------------------------------
(* Evidence: a behavior fixture is a file, a report is a file that is JSON; no    *)
(* evidence is asked of an acknowledgement that names none.                    *)
FileStatus(disk, path) ==
  IF path = "" THEN "none" ELSE IF disk[path] \in {"absent", "directory"} THEN "missing" ELSE "present"

ReportStatus(disk, path) ==
  IF FileStatus(disk, path) = "present" /\ disk[path] # "json" THEN "invalid" ELSE FileStatus(disk, path)

Evaluate(disk, ack) == [fixture |-> FileStatus(disk, ack.fixture), report |-> ReportStatus(disk, ack.report)]

EvidenceDiagnostics(disk, acks) ==
  {d \in [ack : DOMAIN acks, what : {"fixture", "report"}, status : {"missing", "invalid"}] :
     Evaluate(disk, acks[d.ack])[d.what] = d.status}

-----------------------------------------------------------------------------
(* doctor security decides each capability in another order: a category is asked *)
(* before the drifted acknowledgements are, and only the first of these is used. *)
DoctorOutcome_DriftFirst(c, acks, categories) ==
  CASE Exact(c, acks) # {} -> "capability"
    [] Exact(c, acks) = {} /\ Drifted(c, acks) # {} -> "stale"
    [] Exact(c, acks) = {} /\ Drifted(c, acks) = {} /\ FirstCategory(c, categories) # 0 -> "lifecycle-category"
    [] OTHER -> "unacknowledged"

DoctorOutcome(c, acks, categories) ==
  CASE Exact(c, acks) # {} -> "capability"
    [] Exact(c, acks) = {} /\ FirstCategory(c, categories) # 0 -> "lifecycle-category"
    [] Exact(c, acks) = {} /\ FirstCategory(c, categories) = 0 /\ Drifted(c, acks) # {} -> "stale"
    [] OTHER -> "unacknowledged"

(* doctorLifecycleCapabilityCheck.                                             *)
DoctorCapabilityCheck(lock, c, disk, acks, categories) ==
  LET outcome == DoctorOutcome(c, acks, categories)
  IN [capability |-> c, outcome |-> outcome,
      status |-> IF outcome \in {"capability", "lifecycle-category"} THEN "ok" ELSE "warning",
      evidence |-> {Evaluate(disk, acks[i]) : i \in Exact(c, acks)},
      pulledBy |-> DoctorLifecyclePulledByPathLines(lock, c.package)]

(* doctorLifecycleSecurityChecks.                                              *)
DoctorReport(lock, disk, acks, categories) ==
  LET all == Capabilities(lock)
      of(outcome) == {c \in all : DoctorOutcome(c, acks, categories) = outcome}
      stale == {First(Drifted(c, acks)) : c \in of("stale")}
      unused == DOMAIN acks \ (UNION {Exact(c, acks) : c \in all} \cup stale)
      staleCategories == {i \in DOMAIN categories : Strangers(categories[i]) # {}}
      unusedCategories == DOMAIN categories \ {FirstCategory(c, categories) : c \in of("lifecycle-category")}
      open == of("unacknowledged")
  IN [rows |-> {DoctorCapabilityCheck(lock, c, disk, acks, categories) : c \in all},
      stale |-> stale, unused |-> unused,
      staleCategories |-> staleCategories, unusedCategories |-> unusedCategories,
      counts |-> [total |-> Cardinality(all), acknowledged |-> Cardinality(of("capability")),
                  byCategory |-> Cardinality(of("lifecycle-category")), stale |-> Cardinality(of("stale")),
                  unacknowledged |-> Cardinality(open),
                  packages |-> Cardinality({c.package : c \in all})],
      status |-> IF open \cup of("stale") = {} /\ unused \cup unusedCategories \cup staleCategories = {}
                 THEN "ok" ELSE "warning"]

(* doctorBehaviorEvidenceChecks.                                               *)
DoctorEvidence(disk, acks) ==
  LET count(what, status) == Cardinality({i \in DOMAIN acks : Evaluate(disk, acks[i])[what] = status})
  IN IF acks = <<>> THEN {}
     ELSE {[present |-> count("fixture", "present") + count("report", "present"),
            missing |-> count("fixture", "missing") + count("report", "missing"),
            invalid |-> count("report", "invalid"),
            rows |-> EvidenceDiagnostics(disk, acks)]}

(* loadDoctorSecurityManifest: the first step that fails says so, and without a   *)
(* manifest nothing is acknowledged.                                          *)
ManifestSteps == <<"version", "file", "frontend", "node", "output", "diagnostics">>

LoadManifest(project) ==
  LET failing == {i \in DOMAIN ManifestSteps : ManifestSteps[i] \in project.fails}
  IN IF failing = {} THEN [check |-> "loaded", acks |-> project.acks, categories |-> project.categories]
     ELSE [check |-> ManifestSteps[First(failing)], acks |-> <<>>, categories |-> <<>>]

(* doctorSecurity: without a lockfile the acknowledgements are counted, never     *)
(* compared.                                                                 *)
DoctorSecurity(project, disk) ==
  LET manifest == LoadManifest(project)
      stated == Len(manifest.acks) + Len(manifest.categories)
      there == project.lockfile = "read"
  IN [manifest |-> manifest.check,
      lockfile |-> project.lockfile,
      cannotBeEvaluated |-> IF project.lockfile = "missing" THEN stated ELSE 0,
      evidence |-> DoctorEvidence(disk, manifest.acks),
      lifecycle |-> IF there THEN {DoctorReport(project.lock, disk, manifest.acks, manifest.categories)} ELSE {}]

(* lockPackageRef: why knows the exact acknowledgements only.                    *)
WhyCapabilities(lock, disk, acks, id) ==
  {[capability |-> c, acknowledged |-> Exact(c, acks) # {}, category |-> Category(c.script),
    evidence |-> {Evaluate(disk, acks[i]) : i \in Exact(c, acks)}] :
     c \in {x \in Capabilities(lock) : x.package = id}}

-----------------------------------------------------------------------------
(* A capability with one drifted acknowledgement and no category: what doctor and  *)
(* check say of the others differs, for doctor lets a category answer before a      *)
(* drifted acknowledgement, names only the first drifted one of a capability, and    *)
(* counts every one it does not name as unused (doctor_command.go:885-907), though   *)
(* an unused one is an acknowledgement that the lockfile does not have               *)
(* (docs/doctor.md:78-79).                                                     *)
DriftIsNamed(c, acks, categories) ==
  \/ Exact(c, acks) # {}
  \/ Drifted(c, acks) = {}
  \/ FirstCategory(c, categories) = 0 /\ Cardinality(Drifted(c, acks)) = 1

(* The three reports agree: why acknowledges exactly what check is silent about,  *)
(* and a row of doctor is a warning exactly where check calls a capability        *)
(* unacknowledged.  Check accounts for each acknowledgement once, as met, drifted  *)
(* or unused, and doctor gives the same account where every drift is named; and    *)
(* the summary of doctor is ok exactly when check has only what a category         *)
(* acknowledges.                                                             *)
VerdictsAgree(lock, disk, acks, categories) ==
  LET check  == CheckReport(lock, acks, categories)
      doctor == DoctorReport(lock, disk, acks, categories)
      told   == UNION {WhyCapabilities(lock, disk, acks, id) : id \in DOMAIN lock.scripts}
      met    == UNION {Exact(c, acks) : c \in Capabilities(lock)}
      drifted == UNION {s.acks : s \in check.stale}
      counts == doctor.counts
  IN /\ {d.capability : d \in check.present} = {w.capability : w \in {x \in told : ~x.acknowledged}}
     /\ {d.capability : d \in Unacknowledged(check.present)}
          = {r.capability : r \in {x \in doctor.rows : x.status = "warning"}}
     /\ \A r \in doctor.rows : \A w \in told :
          w.capability = r.capability => (w.acknowledged <=> r.outcome = "capability") /\ w.evidence = r.evidence
     /\ met \cup drifted \cup check.unused = DOMAIN acks
     /\ met \cap drifted = {} /\ (met \cup drifted) \cap check.unused = {}
     /\ (\A c \in Capabilities(lock) : DriftIsNamed(c, acks, categories))
          => doctor.unused = check.unused /\ doctor.stale = drifted
     /\ check.unusedCategories = doctor.unusedCategories
     /\ counts.total = counts.acknowledged + counts.byCategory + counts.stale + counts.unacknowledged
     /\ (doctor.status = "ok")
          <=> /\ Unacknowledged(check.present) = {} /\ check.stale = {} /\ check.unused = {}
              /\ check.staleCategories = {} /\ check.unusedCategories = {}

(* Without --show-lifecycle and --show-conflicts a warning may be summed up, never *)
(* lost: what is not acknowledged is shown or counted.                           *)
HumanCheckHidesNothing(present, conflicts) ==
  LET shown == RenderLifecycle(present, FALSE)
      open  == Unacknowledged(present)
  IN /\ open \subseteq shown.rows \/ \E s \in shown.summaries : s.unacknowledged = Cardinality(open)
     /\ ByCategory(present) # {} => \E s \in shown.summaries : s.acknowledged = Cardinality(ByCategory(present))
     /\ \A s \in shown.summaries :
          s.counts["consumer-install"] + s.counts["maintainer-publish"] + s.counts["other"] = Cardinality(present)
     /\ LET lines == RenderConflicts(conflicts, FALSE)
        IN lines.rows = conflicts \/ lines.summaries = {[packages |-> Cardinality(conflicts)]}

(* Doctor without a manifest acknowledges nothing, and without a lockfile does     *)
(* not make up an empty one (docs/doctor.md:84).                                 *)
DoctorIsHonest(project, disk) ==
  LET section == DoctorSecurity(project, disk)
  IN /\ project.fails # {} =>
          /\ section.manifest \in project.fails /\ section.evidence = {}
          /\ \A report \in section.lifecycle :
               /\ \A r \in report.rows : r.outcome = "unacknowledged"
               /\ report.unused = {} /\ (report.status = "ok" <=> Capabilities(project.lock) = {})
     /\ section.lifecycle = {} <=> project.lockfile # "read"
     /\ \A e \in section.evidence : Cardinality(e.rows) = e.missing + e.invalid

AuditIsSound(project, disk) ==
  LET present == CheckReport(project.lock, project.acks, project.categories).present
  IN /\ VerdictsAgree(project.lock, disk, project.acks, project.categories)
     /\ HumanCheckHidesNothing(present, DOMAIN project.lock.scripts)
     /\ DoctorIsHonest(project, disk)

(* A package is pulled in by exactly the targets, tests and tools that lead to it,  *)
(* once each, along a shortest chain of edges; what only a root of another section  *)
(* leads to, a plain dependency, is pulled in by nothing; and check and doctor name  *)
(* the same chains but for those of tests.                                      *)
ChainsTo(lock, root, id) ==
  {path \in UNION {[1 .. n -> {root} \cup DOMAIN lock.scripts] : n \in 2 .. Cardinality(DOMAIN lock.scripts) + 1} :
     /\ path[1] = root /\ Last(path) = id
     /\ \A i \in 2 .. Len(path) : \E e \in lock.edges : e.from = path[i - 1] /\ e.to = path[i]}

PathsAreShortest(lock) ==
  \A id \in DOMAIN lock.scripts :
    LET paths == LifecyclePulledByPaths(lock, id)
    IN /\ \A root \in DOMAIN lock.roots :
            LET from   == {p \in paths : p[1] = root}
                chains == IF lock.roots[root] \in {"target", "test", "tool"} THEN ChainsTo(lock, root, id) ELSE {}
            IN /\ Cardinality(from) = IF chains = {} THEN 0 ELSE 1
               /\ \A p \in from : p \in chains /\ \A c \in chains : Len(p) <= Len(c)
       /\ DoctorLifecyclePulledByPathLines(lock, id) = {p \in paths : lock.roots[p[1]] # "test"}

-----------------------------------------------------------------------------
(* tspack outdated and the plan of tspack update --policy --dry-run             *)
(* (internal/project/outdated.go, update_policy.go, policy_security.go and       *)
(* internal/cli/update_command.go): what each declared dependency could move to,  *)
(* whether a row of the update policy lets it, and whether the lifecycle scripts  *)
(* of the candidate are acknowledged.                                          *)
(*                                                                         *)
(* A version is a triple of numbers of two digits at most; a requested range is a  *)
(* set of versions.  The registry maps a name to what it publishes, with its tag   *)
(* latest or {}; a dependency belongs to the package that declares it.            *)

Before(a, b) == \E i \in DOMAIN a : a[i] < b[i] /\ \A j \in 1 .. i - 1 : a[j] = b[j]

(* sort.Strings: versions are sorted as text, so that 10 comes before 9.           *)
Digits(n) == IF n < 10 THEN <<n, 0>> ELSE <<n \div 10, 1 + (n % 10)>>
TextBefore(a, b) ==
  Before(Digits(a[1]) \o Digits(a[2]) \o Digits(a[3]), Digits(b[1]) \o Digits(b[2]) \o Digits(b[3]))

Highest(versions) == CHOOSE v \in versions : \A w \in versions : w = v \/ Before(w, v)

(* selectHighestSatisfying, {} if there is none.                                 *)
Wanted(meta, range) ==
  LET fitting == DOMAIN meta.versions \cap range
  IN IF fitting = {} THEN {} ELSE {Highest(fitting)}

(* latestVersion: the tag, or the highest version.                               *)
Latest(meta) ==
  IF meta.latest # {} THEN meta.latest
  ELSE IF DOMAIN meta.versions = {} THEN {} ELSE {Highest(DOMAIN meta.versions)}

(* The locked versions of a package of npm, in the order of their text.            *)
CurrentVersions(locked, name) == SetToSortSeq({p.version : p \in {x \in locked : x.name = name}}, TextBefore)

-----------------------------------------------------------------------------
(* buildOutdatedResult, for one declaration.                                     *)
Status(current, wanted, latest) ==
  CASE current = <<>> -> "missing_lock"
    [] current # <<>> /\ \E w \in wanted : Before(Last(current), w) -> "wanted_available"
    [] current # <<>> /\ latest # {} /\ latest # wanted /\ \A w \in wanted : ~Before(Last(current), w) -> "latest_available"
    [] OTHER -> "current"

Entry(registry, locked, d) ==
  LET meta    == registry[d.name]
      current == CurrentVersions(locked, d.name)
      wanted  == IF meta.reachable THEN Wanted(meta, d.range) ELSE {}
      latest  == IF wanted = {} THEN {} ELSE Latest(meta)
      of(status, scripts) ==
        [source |-> d.source, name |-> d.name, kind |-> d.kind, range |-> d.range, current |-> current, wanted |-> wanted,
         latest |-> latest, status |-> status, available |-> latest # {} /\ latest \subseteq DOMAIN meta.versions,
         scripts |-> scripts, packages |-> {d.package}]
  IN CASE d.source # "npm" -> [of("not_applicable", <<>>) EXCEPT !.current = <<>>, !.wanted = {}, !.latest = {}, !.available = FALSE]
       [] d.source = "npm" /\ wanted = {} -> of("error", <<>>)
       [] d.source = "npm" /\ wanted # {} ->
            of(Status(current, wanted, latest),
               IF latest \subseteq DOMAIN meta.versions THEN Recorded(meta.versions[CHOOSE v \in latest : TRUE]) ELSE <<>>)

-----------------------------------------------------------------------------
(* matchUpdatePolicy: a row for the package outweighs one for the kind, and of     *)
(* equals the first counts.                                                     *)
RowMatches(row, e) ==
  /\ row.name = e.name /\ row.kind \in {e.kind, "any"}
  /\ row.packages = {} \/ row.packages \cap e.packages # {}

Score(row, e) == (IF row.kind = e.kind THEN 1 ELSE 0) + (IF row.packages # {} THEN 2 ELSE 0)

MatchUpdatePolicy(rows, e) ==
  LET matching == {i \in DOMAIN rows : RowMatches(rows[i], e)}
      best == {i \in matching : \A j \in matching : Score(rows[j], e) <= Score(rows[i], e)}
  IN IF best = {} THEN {} ELSE {rows[First(best)]}

RollingLevelAllows(current, latest, level) ==
  /\ current # <<>> /\ latest # {}
  /\ LET from == Last(current)
         to   == CHOOSE v \in latest : TRUE
     IN \/ ~Before(from, to)
        \/ level = "patch" /\ from[1] = to[1] /\ from[2] = to[2]
        \/ level = "minor" /\ from[1] = to[1]
        \/ level \in {"major", "latest"}

(* applyUpdatePolicy.                                                          *)
PolicyStatus(rows, e) ==
  LET row == MatchUpdatePolicy(rows, e)
  IN CASE e.status = "not_applicable" -> "not-applicable"
       [] e.status # "not_applicable" /\ row = {} -> "unclassified"
       [] e.status # "not_applicable" /\ \E r \in row : r.strategy = "manual" -> "blocked-manual"
       [] e.status # "not_applicable" /\ \E r \in row : r.strategy = "pinned" -> "pinned"
       [] OTHER -> IF \E r \in row : RollingLevelAllows(e.current, e.latest, r.level)
                   THEN "allowed" ELSE "outside-policy-level"

Entries(world) ==
  {LET e == Entry(world.registry, world.locked, d)
   IN [declaration |-> d, entry |-> e, policy |-> PolicyStatus(world.rows, e)] : d \in world.declared}

(* groupOutdatedDependencies: declarations that differ in no word of the report.    *)
GroupKey_NoPolicy(x) ==
  LET e == x.entry IN <<e.source, e.name, e.kind, e.range, e.current, e.wanted, e.latest, e.status>>

GroupKey(x) ==
  LET e == x.entry
  IN <<e.source, e.name, e.kind, e.range, e.current, e.wanted, e.latest, e.status, x.policy>>

(* A group is the first of its entries, with the packages of all of them.           *)
Groups(world) ==
  {LET those == {x \in Entries(world) : GroupKey(x) = key}
       one   == CHOOSE x \in those : TRUE
   IN [entry |-> [one.entry EXCEPT !.packages = UNION {x.entry.packages : x \in those}],
       policy |-> one.policy, declarations |-> {x.declaration : x \in those}] :
     key \in {GroupKey(x) : x \in Entries(world)}}

(* summarizeOutdated.                                                          *)
OutdatedSummary(world) ==
  LET count(statuses) == Cardinality({x \in Entries(world) : x.entry.status \in statuses})
  IN [total |-> Cardinality(world.declared), current |-> count({"current"}),
      outdated |-> count({"wanted_available", "latest_available"}), skipped |-> count({"not_applicable"}),
      errors |-> count({"error"})]

-----------------------------------------------------------------------------
(* EvaluatePolicySecurityGate: a script whose acknowledgement has another command   *)
(* is not acknowledged, not even by a category.                                 *)
CandidateID(e) == <<e.name, CHOOSE v \in e.latest : TRUE>>

CandidateCapabilities(e) ==
  {[package |-> CandidateID(e), script |-> s, command |-> e.scripts[s]] : s \in DOMAIN e.scripts}

GateAcknowledges(c, acks, categories) ==
  \/ Exact(c, acks) # {}
  \/ Drifted(c, acks) = {} /\ \E i \in DOMAIN categories : Covers(categories[i], c.script)

PolicySecurityGate(e, acks, categories) ==
  LET open == {c \in CandidateCapabilities(e) : ~GateAcknowledges(c, acks, categories)}
  IN CASE e.source # "npm" \/ e.latest = {} \/ e.status = "current" -> "not_applicable"
       [] e.source = "npm" /\ e.latest # {} /\ e.status # "current" /\ ~e.available -> "review_required"
       [] OTHER -> IF open = {} THEN "passed"
                   ELSE IF \E c \in open : c.script \in Consumer THEN "blocked" ELSE "review_required"

EffectiveAction(policy, gate) ==
  CASE policy = "allowed" /\ gate = "passed" -> "update"
    [] policy = "allowed" /\ gate = "review_required" -> "review"
    [] policy = "allowed" /\ gate = "blocked" -> "blocked"
    [] OTHER -> "skip"

(* buildPolicyUpdatePlan.                                                      *)
SectionOf(policy) ==
  CASE policy = "allowed" -> "allowed"
    [] policy \in {"blocked-manual", "pinned", "outside-policy-level"} -> "blocked"
    [] policy = "not-applicable" -> "notApplicable"
    [] policy = "unclassified" -> "unclassified"

Sections == {"allowed", "blocked", "notApplicable", "unclassified"}

Plan(world) ==
  LET candidate(g) ==
        LET gate == PolicySecurityGate(g.entry, world.acks, world.categories)
        IN [group |-> g, gate |-> gate, action |-> EffectiveAction(g.policy, gate)]
  IN [s \in Sections |-> {candidate(g) : g \in {x \in Groups(world) : SectionOf(x.policy) = s}}]

(* summarizePolicyUpdatePlan and summarizePolicySecurityGateStatus.                *)
PlanSummary(plan) ==
  LET gated(status) == Cardinality({c \in plan["allowed"] : c.gate = status})
      gates == {c.gate : c \in UNION {plan[s] : s \in Sections}}
  IN [ready |-> gated("passed"), securityBlocked |-> gated("blocked"), reviewRequired |-> gated("review_required"),
      wouldUpdate |-> plan["allowed"] # {}, wouldApply |-> gated("passed") > 0,
      gate |-> IF gates = {} THEN "not_applicable"
               ELSE IF Cardinality(gates) = 1 THEN CHOOSE x \in gates : TRUE ELSE "mixed"]

-----------------------------------------------------------------------------
(* Each declaration is in one group, whose section is that of its own policy       *)
(* decision and not of a declaration it is grouped with.                         *)
DeclarationsArePlannedOnce(world) ==
  LET plan == Plan(world)
  IN \A x \in Entries(world) :
       LET holding == {<<s, c>> \in UNION {{s} \X plan[s] : s \in Sections} : x.declaration \in c.group.declarations}
       IN /\ Cardinality(holding) = 1
          /\ \A h \in holding : h[1] = SectionOf(x.policy) /\ x.declaration.package \in h[2].group.entry.packages

(* What the plan would apply, check would not complain about once it is locked: no   *)
(* script of it is unacknowledged and no acknowledgement of it has drifted; what the  *)
(* gate holds back, for another reason than missing metadata, check would report; and *)
(* it is blocked exactly if one such script runs when a consumer installs.            *)
GateForeseesCheck(world) ==
  \A c \in UNION {Plan(world)[s] : s \in Sections} :
    LET e == c.group.entry
        lock == [scripts |-> [id \in {CandidateID(e)} |-> e.scripts], edges |-> {}, roots |-> <<>>]
        report == CheckReport(lock, world.acks, world.categories)
        reported == {d.capability : d \in Unacknowledged(report.present)} \cup {s.capability : s \in report.stale}
    IN c.gate # "not_applicable" /\ e.available =>
         /\ c.gate = "passed" <=> reported = {}
         /\ c.gate = "blocked" <=> \E x \in reported : Category(x.script) = "consumer-install"

(* What a rolling row lets roll stays in the level it names, from the locked version *)
(* that is the only one of the package; and what has no row, or a row that is not      *)
(* rolling, is never updated.                                                    *)
RollingStaysInLevel(world) ==
  \A c \in UNION {Plan(world)[s] : s \in Sections} : \A d \in c.group.declarations :
    LET e == c.group.entry
        own == [e EXCEPT !.packages = {d.package}]
        row == MatchUpdatePolicy(world.rows, own)
    IN c.action # "skip" =>
         /\ \E r \in row : r.strategy = "rolling"
         /\ e.status \in {"wanted_available", "latest_available"}
         /\ \A r \in row, to \in e.latest :
              Len(e.current) = 1 /\ Before(e.current[1], to)
                => /\ r.level = "patch" => e.current[1][1] = to[1] /\ e.current[1][2] = to[2]
                   /\ r.level = "minor" => e.current[1][1] = to[1]

SummaryAddsUp(world) ==
  LET plan == Plan(world)
      summary == PlanSummary(plan)
      missing == {x \in Entries(world) : x.entry.status = "missing_lock"}
      outdated == OutdatedSummary(world)
  IN /\ Cardinality(plan["allowed"])
          = summary.ready + summary.securityBlocked + summary.reviewRequired
              + Cardinality({c \in plan["allowed"] : c.action = "skip"})
     /\ summary.wouldApply <=> \E c \in UNION {plan[s] : s \in Sections} : c.action = "update"
     /\ outdated.total = outdated.current + outdated.outdated + outdated.skipped + outdated.errors + Cardinality(missing)

PlanIsGated(world) ==
  /\ DeclarationsArePlannedOnce(world)
  /\ GateForeseesCheck(world)
  /\ RollingStaysInLevel(world)
  /\ SummaryAddsUp(world)
=============================================================================
