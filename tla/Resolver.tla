------------------------------ MODULE Resolver ------------------------------
(***************************************************************************)
(* ResolveNPM: the frontier of requests is grouped by package and range,     *)
(* workers prepare the groups concurrently through two memos, and one         *)
(* goroutine commits what they prepared in the order of the groups.  Then     *)
(* the peers that nobody provides are resolved the same way.                  *)
(*                                                                         *)
(* A package is <<"pkg", name, version>>, names and ranges are their rank in  *)
(* string order, a root is <<"root", k, 0>> and the environment of a peer    *)
(* <<"peer", name, 0>>.  The version of a local package is 0.  tspack update  *)
(* gives the resolver a context that is never cancelled.                      *)
(***************************************************************************)
EXTENDS Integers, Sequences, FiniteSets, SequencesExt, Functions

(* internal/requirements: the tape of package requirements.  A fact is       *)
(* [name, range, scope, kind, optional, of, ref] and its position in the tape *)
(* is its Order.  A slot is a scope and a name; scope 0 is the workspace, any  *)
(* other the alias that a direct dependency gives the package.                *)
SlotKey(f) == <<f.scope, f.name>>

KindRank(kind) ==
  CASE kind = "peer" -> 30 [] kind = "target-explicit" -> 45 [] kind = "project-explicit" -> 50

(* Build sorts by rank, an optional peer below a required one, then Order;   *)
(* the last fact of a slot controls it.                                      *)
Above(facts, i, j) ==
  \/ KindRank(facts[i].kind) > KindRank(facts[j].kind)
  \/ /\ facts[i].kind = facts[j].kind
     /\ \/ facts[i].kind = "peer" /\ ~facts[i].optional /\ facts[j].optional
        \/ (facts[i].kind = "peer" => facts[i].optional = facts[j].optional) /\ i > j

Controls(facts, i) ==
  \A j \in DOMAIN facts : j # i /\ SlotKey(facts[j]) = SlotKey(facts[i]) => Above(facts, i, j)

Controllers(facts) == {i \in DOMAIN facts : Controls(facts, i)}

ControllersOf(facts, slot) == {i \in Controllers(facts) : SlotKey(facts[i]) = slot}

Controller(facts, slot) == CHOOSE i \in ControllersOf(facts, slot) : TRUE

-----------------------------------------------------------------------------
CONSTANTS
  Manifests,    \* the manifests: [direct, denied], the direct requests
                \* [name, range, ref, from, edge, optional, scope, kind] in the
                \* order of the manifest, and the names its policy denies
  Published,    \* name -> version -> [deps, peers], sequences of
                \* [name, range, ref, optional]
  Local,        \* name -> [valid, walks, deps, peers]; walks is FALSE for a
                \* workspace package, whose dependencies are its own roots
  RangeOf,      \* range -> the versions it admits
  BadRanges,    \* the ranges that do not parse
  Artifacts,    \* what a registry may send for a package
  MaxJobs, HostBudget,  \* ResolveJobs and the budget of the controller
  MaxFailures   \* bound: the requests that do not give what was asked for

Names == DOMAIN Published

(* What a package needs is known to the registry by name, if only with no       *)
(* version; a direct request may be for a local package, too.                  *)
Dependencies(deps) ==
  /\ deps \in Seq(ToSet(deps))
  /\ \A i \in DOMAIN deps : deps[i].name \in Names /\ deps[i].range \in Int /\ deps[i].optional \in BOOLEAN

DirectRequest(r) ==
  /\ r.name \in Names \cup DOMAIN Local /\ r.range \in Int /\ r.optional \in BOOLEAN
  /\ r.from[1] = "root" /\ r.kind \in {"target-explicit", "project-explicit"}

ASSUME ResolverAssumption ==
  /\ MaxJobs \in Nat \ {0}
  /\ HostBudget \in Nat \ {0}
  /\ MaxFailures \in Nat
  /\ \A a \in Artifacts : a.integrity \in {"none", "unsupported", "wrong", "right"}
  /\ Names \subseteq Int /\ Names \cap DOMAIN Local = {}
  /\ \A n \in Names :
       /\ DOMAIN Published[n] \subseteq Nat \ {0} /\ IsFiniteSet(DOMAIN Published[n])
       /\ \A v \in DOMAIN Published[n] :
            Dependencies(Published[n][v].deps) /\ Dependencies(Published[n][v].peers)
  /\ \A n \in DOMAIN Local : Dependencies(Local[n].deps) /\ Dependencies(Local[n].peers)
  /\ \A m \in Manifests :
       m.direct \in Seq(ToSet(m.direct)) /\ \A k \in DOMAIN m.direct : DirectRequest(m.direct[k])

VARIABLES
  manifest,          \* the one that is resolved
  packages, edges,   \* the lock so far
  facts,             \* requirementFacts
  recorded,          \* the packages in peerRequirementsByPackage
  slots,             \* selectedSlots
  diags,             \* [code, severity, about]
  tape,              \* the status of every fact, at the end
  pc,                \* enqueue, frontier, prepare, commit, peers, reconcile, prune, recompute,
                     \* finalize, done
  stage,             \* roots or peers: what the frontiers come from
  frontier,          \* a set of work items
  committing, fatal, \* the next frontier so far, and that there is none
  groups,            \* the groups of this frontier, in order
  next,              \* the direct request, or group, whose turn it is
  stopped,           \* stopSubmitting
  offered,           \* the submitter has looked at stopSubmitting
  worker,            \* worker -> [at, group, id]
  meta,              \* name -> none, pending, ready, failed
  prep,              \* id -> none, pending, or what was prepared
  results,           \* group -> what was prepared
  iteration, before, \* of resolvePeerRequirements
  asked,             \* id -> how often a registry was asked for its artifact;
                     \* with version 0, for the metadata of the name
  failures

lock == <<packages, edges, facts, recorded, slots, diags, tape>>
pool == <<groups, next, stopped, offered, worker, results>>
memo == <<meta, prep, asked, failures>>
flow == <<pc, stage, frontier, committing, fatal, iteration, before>>
vars == <<manifest, lock, pool, memo, flow>>

Ids == {"pkg"} \X (Names \cup DOMAIN Local) \X ({0} \cup UNION {DOMAIN Published[n] : n \in Names})
IdOf(name, version) == <<"pkg", name, version>>
NameOf(id) == id[2]
VersionOf(id) == id[3]
Registry(id) == id[2] \in Names

Valid(range) == range \notin BadRanges
(* selectedVersionSatisfies: no version, 0, satisfies nothing. *)
Admits(range, version) == Valid(range) /\ version # 0 /\ version \in RangeOf[range]

(* Classify, for the versions that were selected; 0 when there is none. *)
SelectedIn(selected, slot) == IF slot \in DOMAIN selected THEN selected[slot] ELSE 0

Status(i, selected) ==
  LET f == facts[i]
      version == SelectedIn(selected, SlotKey(f))
      compatible == Admits(f.range, version)
  IN CASE ~Valid(f.range) -> "invalid"
       [] Valid(f.range) /\ version = 0 -> IF f.optional THEN "optional-unsatisfied" ELSE "pending"
       [] Valid(f.range) /\ version # 0 /\ Controls(facts, i) ->
            IF compatible THEN "controlling" ELSE "invalid"
       [] Valid(f.range) /\ version # 0 /\ ~Controls(facts, i) ->
            IF compatible THEN "shadowed-compatible"
            ELSE IF f.optional THEN "optional-unsatisfied" ELSE "overridden-incompatible"

Workers == 1 .. MaxJobs
NoSlot == <<>>
Idle == [at |-> "idle", group |-> <<0, 0>>, id |-> <<"pkg", 0, 0>>]
Nothing == [kind |-> "none", id |-> <<"pkg", 0, 0>>, code |-> ""]
InFlight == [kind |-> "pending", id |-> <<"pkg", 0, 0>>, code |-> ""]
Prepared(id) == [kind |-> "package", id |-> id, code |-> ""]
Failure(code) == [kind |-> "failure", id |-> <<"pkg", 0, 0>>, code |-> code]

Errors == {d \in diags : d.severity = "error"}
Diagnostic(code, optional, about) ==
  [code |-> code, severity |-> IF optional THEN "warning" ELSE "error", about |-> about]

-----------------------------------------------------------------------------
Direct == manifest.direct
Denied == manifest.denied

Init ==
  /\ manifest \in Manifests
  /\ packages = {} /\ edges = <<>> /\ facts = <<>> /\ recorded = {} /\ diags = {}
  /\ slots = [s \in {} |-> 0] /\ tape = <<>>
  /\ pc = "enqueue" /\ stage = "roots" /\ frontier = {} /\ committing = {} /\ fatal = FALSE
  /\ groups = <<>> /\ next = 1 /\ stopped = FALSE /\ offered = FALSE
  /\ worker = [w \in Workers |-> Idle]
  /\ meta = [n \in Names |-> "none"]
  /\ prep = [i \in Ids |-> Nothing]
  /\ results = [g \in {} |-> Nothing]
  /\ iteration = 0 /\ before = 0
  /\ asked = [i \in Ids |-> 0] /\ failures = 0

Item(dep, from, edge) ==
  [name |-> dep.name, range |-> dep.range, ref |-> dep.ref, from |-> from,
   edge |-> edge, optional |-> dep.optional, slot |-> NoSlot]

Transitive(id, deps) == {Item(deps[i], id, "runtime") : i \in DOMAIN deps}

PeerFact(id, p) ==
  [name |-> p.name, range |-> p.range, ref |-> p.ref, scope |-> 0, kind |-> "peer",
   optional |-> p.optional, of |-> id]

(* appendPeerRequirements: once for a package. *)
WithPeers(s, id, peers) ==
  IF id \in s.recorded THEN s
  ELSE [s EXCEPT !.recorded = @ \cup {id},
                 !.facts = @ \o [i \in DOMAIN peers |-> PeerFact(id, peers[i])]]

EdgeOf(r, id) ==
  [from |-> r.from, to |-> id, kind |-> r.edge, optional |-> r.optional, ref |-> r.ref]

(* resolveNonNPMDependency: resolved where it is met; what it needs is       *)
(* requested only the first time.                                            *)
ResolveLocal(s, r) ==
  LET id == IdOf(r.name, 0)
      pkg == Local[r.name]
      entered == [s EXCEPT !.packages = @ \cup {id}, !.edges = Append(@, EdgeOf(r, id))]
      met == WithPeers(entered, id, pkg.peers)
  IN IF ~pkg.valid
     THEN [s EXCEPT !.diags = @ \cup {Diagnostic("LOCAL_INVALID", FALSE, r.name)}]
     ELSE IF id \in s.packages \/ ~pkg.walks THEN entered
     ELSE [met EXCEPT !.frontier = @ \cup Transitive(id, pkg.deps)]

(* enqueueSharedDirectRequest, for the requests of the manifest in its order. *)
SharedFact(r) ==
  [name |-> r.name, range |-> r.range, ref |-> r.ref, scope |-> r.scope,
   kind |-> r.kind, optional |-> r.optional, of |-> r.from]

EnqueueDirect ==
  /\ pc = "enqueue" /\ next <= Len(Direct)
  /\ LET r == Direct[next]
         s == ResolveLocal([packages |-> packages, edges |-> edges, facts |-> facts,
                            recorded |-> recorded, diags |-> diags, frontier |-> frontier], r)
         fact == SharedFact(r)
     IN IF r.name \in DOMAIN Local
        THEN /\ packages' = s.packages /\ edges' = s.edges /\ facts' = s.facts
             /\ recorded' = s.recorded /\ diags' = s.diags /\ frontier' = s.frontier
        ELSE /\ facts' = Append(facts, fact)
             /\ frontier' = frontier \cup {[Item(r, r.from, r.edge) EXCEPT !.slot = SlotKey(fact)]}
             /\ UNCHANGED <<packages, edges, recorded, diags>>
  /\ next' = next + 1
  /\ UNCHANGED <<manifest, slots, tape, groups, stopped, offered, worker, results, memo, pc, stage, committing, fatal, iteration, before>>

(* applyRequirementControllers: every request of a slot asks for what the    *)
(* controlling one asks for.                                                 *)
Controlled_Own(r) == r

Controlled(r) ==
  IF r.slot = NoSlot THEN r
  ELSE [r EXCEPT !.range = facts[Controller(facts, r.slot)].range]

ApplyControllers ==
  /\ pc = "enqueue" /\ next > Len(Direct)
  /\ frontier' = {Controlled(r) : r \in frontier}
  /\ pc' = "frontier"
  /\ UNCHANGED <<manifest, lock, pool, memo, stage, committing, fatal, iteration, before>>

-----------------------------------------------------------------------------
(* Decide, of the occupancy controller: HostBudget is the number of hosts    *)
(* times the jobs for one, at least MaxJobs when the mode is not             *)
(* feedforward.                                                              *)
TargetJobs(work) ==
  LET wanted == IF work > MaxJobs THEN MaxJobs ELSE work
      budgeted == IF HostBudget < wanted THEN HostBudget ELSE wanted
      least == IF budgeted < 1 THEN 1 ELSE budgeted
  IN IF work <= 0 THEN 0
     ELSE IF MaxJobs <= 1 THEN 1
     ELSE IF least > work THEN work ELSE least

(* groupWorkItems, in the order of normalizeWorkItems. *)
GroupOf(r) == <<r.name, r.range>>
Before(g, h) == g[1] < h[1] \/ (g[1] = h[1] /\ g[2] < h[2])
InOrder(S) ==
  [i \in 1 .. Cardinality(S) |-> CHOOSE g \in S : Cardinality({h \in S : Before(h, g)}) = i - 1]
Groups(f) == InOrder({GroupOf(r) : r \in f})
Requests(g) == {r \in frontier : GroupOf(r) = g}
HasRequired(g) == \E r \in Requests(g) : ~r.optional

Jobs == TargetJobs(Len(groups))

(* The end of the loop over frontiers: after the roots, the peers; after a  *)
(* round of peers, another one if it found new requirements.                 *)
EndOfFrontiers(broken) ==
  pc' = IF stage = "roots"
        THEN (IF (\E d \in diags' : d.severity = "error") THEN "finalize" ELSE "peers")
        ELSE IF broken \/ before = Len(facts') THEN "reconcile" ELSE "peers"

RefuseFrontier ==
  /\ pc = "frontier"
  /\ \E r \in frontier :
       /\ r.name \in Denied
       /\ \A q \in frontier : q.name \in Denied => ~Before(GroupOf(q), GroupOf(r))
       /\ diags' = diags \cup {Diagnostic("SOURCE_POLICY_DENIED", FALSE, r.name)}
  /\ UNCHANGED facts /\ EndOfFrontiers(TRUE)
  /\ UNCHANGED <<manifest, packages, edges, recorded, slots, tape, pool, memo, stage, frontier, committing, fatal, iteration, before>>

LeaveFrontiers ==
  /\ pc = "frontier" /\ frontier = {}
  /\ UNCHANGED <<diags, facts>> /\ EndOfFrontiers(FALSE)
  /\ UNCHANGED <<manifest, packages, edges, recorded, slots, tape, pool, memo, stage, frontier, committing, fatal, iteration, before>>

PrepareGroups ==
  /\ pc = "frontier" /\ frontier # {} /\ \A r \in frontier : r.name \notin Denied
  /\ groups' = Groups(frontier)
  /\ next' = 1 /\ stopped' = FALSE /\ offered' = FALSE /\ results' = [g \in {} |-> Nothing]
  /\ pc' = "prepare"
  /\ UNCHANGED <<manifest, lock, worker, memo, stage, frontier, committing, fatal, iteration, before>>

(* The submitter looks at stopSubmitting, then blocks until a worker takes  *)
(* the group.                                                                *)
Offer ==
  /\ pc = "prepare" /\ ~offered /\ next <= Len(groups) /\ ~stopped
  /\ offered' = TRUE
  /\ UNCHANGED <<manifest, lock, groups, next, stopped, worker, results, memo, flow>>

Moves(w, place, group, id) == worker' = [worker EXCEPT ![w] = [at |-> place, group |-> group, id |-> id]]

Take(w) ==
  /\ pc = "prepare" /\ offered /\ w <= Jobs /\ worker[w].at = "idle"
  /\ Moves(w, "metadata", groups[next], Idle.id)
  /\ offered' = FALSE /\ next' = next + 1
  /\ UNCHANGED <<manifest, lock, groups, stopped, results, memo, flow>>

At(w, place) == pc = "prepare" /\ worker[w].at = place
Group(w) == worker[w].group
Ask(x) == asked' = [asked EXCEPT ![x] = @ + 1]

(* A result is handed to the collector; a failure that somebody needs stops *)
(* the submitter when there are several workers.                             *)
Deliver(w, result) ==
  /\ results' = [g \in DOMAIN results \cup {Group(w)} |-> IF g = Group(w) THEN result ELSE results[g]]
  /\ worker' = [worker EXCEPT ![w] = Idle]
  /\ stopped' = (stopped \/ (Jobs # 1 /\ result.kind = "failure" /\ HasRequired(Group(w))))

(* packageMetadata *)
LookupMetadata(w) ==
  /\ At(w, "metadata") /\ meta[Group(w)[1]] = "none"
  /\ meta' = [meta EXCEPT ![Group(w)[1]] = "pending"]
  /\ Moves(w, "fetchMetadata", Group(w), worker[w].id)
  /\ Ask(IdOf(Group(w)[1], 0))
  /\ UNCHANGED <<manifest, lock, groups, next, stopped, offered, results, prep, failures, flow>>

MetadataArrives_NotClosed(w) ==
  /\ At(w, "fetchMetadata")
  /\ \/ meta' = [meta EXCEPT ![Group(w)[1]] = "ready"] /\ UNCHANGED failures
     \/ failures < MaxFailures /\ failures' = failures + 1 /\ UNCHANGED meta
  /\ Moves(w, "metadata", Group(w), worker[w].id)
  /\ UNCHANGED <<manifest, lock, groups, next, stopped, offered, results, prep, asked, flow>>

MetadataArrives(w) ==
  /\ At(w, "fetchMetadata")
  /\ \/ meta' = [meta EXCEPT ![Group(w)[1]] = "ready"] /\ UNCHANGED failures
     \/ /\ failures < MaxFailures /\ failures' = failures + 1
        /\ meta' = [meta EXCEPT ![Group(w)[1]] = "failed"]
  /\ Moves(w, "metadata", Group(w), worker[w].id)
  /\ UNCHANGED <<manifest, lock, groups, next, stopped, offered, results, prep, asked, flow>>

MetadataFails(w) ==
  /\ At(w, "metadata") /\ meta[Group(w)[1]] = "failed"
  /\ Deliver(w, Failure("METADATA_ERROR"))
  /\ UNCHANGED <<manifest, lock, groups, next, offered, memo, flow>>

(* selectRegistryVersion: the highest version the range admits. *)
Candidates(g) == {v \in DOMAIN Published[g[1]] : Admits(g[2], v)}
Selected(g) == IdOf(g[1], CHOOSE v \in Candidates(g) : \A u \in Candidates(g) : u <= v)

NoVersion(w) ==
  /\ At(w, "metadata") /\ meta[Group(w)[1]] = "ready" /\ Candidates(Group(w)) = {}
  /\ Deliver(w, Failure(IF Valid(Group(w)[2]) THEN "VERSION_NOT_FOUND" ELSE "INVALID_RANGE"))
  /\ UNCHANGED <<manifest, lock, groups, next, offered, memo, flow>>

AlreadySeen(w) ==
  /\ At(w, "metadata") /\ meta[Group(w)[1]] = "ready" /\ Candidates(Group(w)) # {}
  /\ Selected(Group(w)) \in packages
  /\ Deliver(w, Prepared(Selected(Group(w))))
  /\ UNCHANGED <<manifest, lock, groups, next, offered, memo, flow>>

LookupPackage_Unshared(w) ==
  /\ At(w, "metadata") /\ meta[Group(w)[1]] = "ready" /\ Candidates(Group(w)) # {}
  /\ LET id == Selected(Group(w)) IN
       /\ id \notin packages
       /\ prep' = [prep EXCEPT ![id] = InFlight]
       /\ Moves(w, "fetchArtifact", Group(w), id)
       /\ Ask(id)
  /\ UNCHANGED <<manifest, lock, groups, next, stopped, offered, results, meta, failures, flow>>

(* prepareSelectedPackage *)
LookupPackage(w) ==
  /\ At(w, "metadata") /\ meta[Group(w)[1]] = "ready" /\ Candidates(Group(w)) # {}
  /\ LET id == Selected(Group(w)) IN
       /\ id \notin packages
       /\ IF prep[id].kind = "none"
          THEN /\ prep' = [prep EXCEPT ![id] = InFlight]
               /\ Moves(w, "fetchArtifact", Group(w), id)
               /\ Ask(id)
          ELSE /\ Moves(w, "await", Group(w), id)
               /\ UNCHANGED <<prep, asked>>
  /\ UNCHANGED <<manifest, lock, groups, next, stopped, offered, results, meta, failures, flow>>

(* prepareSelectedPackageUncached, in the order of its checks. *)
Verdict(id, a) ==
  CASE ~a.arrives -> Failure("ARTIFACT_ERROR")
    [] a.arrives /\ a.required /\ a.integrity = "none" -> Failure("TRUST_FAILED")
    [] a.arrives /\ a.integrity = "unsupported" -> Failure("UNSUPPORTED_INTEGRITY")
    [] a.arrives /\ a.integrity = "wrong" -> Failure("ARTIFACT_INTEGRITY_FAILED")
    [] a.arrives /\ (a.integrity = "right" \/ (a.integrity = "none" /\ ~a.required)) ->
         IF a.manifest = "missing" THEN Failure("ARTIFACT_PACKAGE_JSON_MISSING")
         ELSE IF a.manifest = "other" THEN Failure("ARTIFACT_METADATA_MISMATCH")
         ELSE IF a.locked = "different" THEN Failure("TRUST_FAILED")
         ELSE IF ~a.captured THEN Failure("ARTIFACT_CAPTURE_FAILED")
         ELSE Prepared(id)

ArtifactArrives(w) ==
  /\ At(w, "fetchArtifact")
  /\ \E a \in Artifacts :
       LET verdict == Verdict(worker[w].id, a) IN
       /\ \/ verdict.kind = "package" /\ UNCHANGED failures
          \/ verdict.kind = "failure" /\ failures < MaxFailures /\ failures' = failures + 1
       /\ prep' = [prep EXCEPT ![worker[w].id] = verdict]
       /\ Deliver(w, verdict)
  /\ UNCHANGED <<manifest, lock, groups, next, offered, meta, asked, flow>>

Await(w) ==
  /\ At(w, "await") /\ prep[worker[w].id].kind \in {"package", "failure"}
  /\ Deliver(w, prep[worker[w].id])
  /\ UNCHANGED <<manifest, lock, groups, next, offered, memo, flow>>

-----------------------------------------------------------------------------
(* The commit: one goroutine, over the requests in their order.  A group    *)
(* that was not prepared is passed over.                                     *)
AllHandedIn ==
  /\ \A w \in Workers : worker[w].at = "idle"
  /\ ~offered /\ (stopped \/ next > Len(groups))

FromPeer(r) == r.from[1] = "peer"

SlotsAfter(sl, rs, id) ==
  [k \in DOMAIN sl \cup ({r.slot : r \in rs} \ {NoSlot}) |->
     IF \E r \in rs : r.slot = k THEN VersionOf(id) ELSE sl[k]]

(* Everything is handed in: what the groups found is now committed. *)
BeginCommit ==
  /\ pc = "prepare" /\ AllHandedIn
  /\ pc' = "commit" /\ next' = 1 /\ committing' = {} /\ fatal' = FALSE
  /\ UNCHANGED <<manifest, lock, groups, stopped, offered, worker, results, memo, stage, frontier, iteration, before>>

Committing == pc = "commit" /\ next <= Len(groups)
Turn == groups[next]
NextGroup == next' = next + 1

PassOver ==
  /\ Committing /\ Turn \notin DOMAIN results /\ NextGroup
  /\ UNCHANGED <<manifest, lock, groups, stopped, offered, worker, results, memo, flow>>

CommitFailure ==
  /\ Committing /\ Turn \in DOMAIN results /\ results[Turn].kind = "failure"
  /\ diags' = diags \cup {Diagnostic(results[Turn].code, r.optional, Turn[1]) : r \in Requests(Turn)}
  /\ fatal' = (fatal \/ HasRequired(Turn))
  /\ NextGroup
  /\ UNCHANGED <<manifest, packages, edges, facts, recorded, slots, tape, groups, stopped, offered, worker,
                 results, memo, pc, stage, frontier, committing, iteration, before>>

(* The edges of a set, in the order they have.                                 *)
Only(s, S) ==
  LET upTo[i \in 0 .. Len(s)] ==
        IF i = 0 THEN <<>> ELSE IF s[i] \in S THEN Append(upTo[i - 1], s[i]) ELSE upTo[i - 1]
  IN upTo[Len(s)]

(* The edges and slots of the requests; the package, with what it needs and *)
(* its peers, when it is the first to bring it.                              *)
CommitPackage_SeenWhenPrepared ==
  /\ Committing /\ Turn \in DOMAIN results /\ results[Turn].kind = "package"
  /\ LET rs == Requests(Turn)
         id == results[Turn].id
         shared == \E g \in DOMAIN results : g # Turn /\ results[g].id = id
         version == Published[NameOf(id)][VersionOf(id)]
     IN /\ edges' = edges \o SetToSeq({EdgeOf(r, id) : r \in rs})
        /\ slots' = SlotsAfter(slots, rs, id)
        /\ packages' = packages \cup {id}
        /\ committing' = IF id \in packages \/ shared THEN committing
                         ELSE committing \cup Transitive(id, version.deps)
        /\ UNCHANGED <<facts, recorded>>
  /\ NextGroup
  /\ UNCHANGED <<manifest, diags, tape, groups, stopped, offered, worker, results, memo, pc, stage, frontier,
                 fatal, iteration, before>>

CommitPackage ==
  /\ Committing /\ Turn \in DOMAIN results /\ results[Turn].kind = "package"
  /\ LET rs == Requests(Turn)
         id == results[Turn].id
         released == {r.from : r \in {q \in rs : FromPeer(q)}}
         version == Published[NameOf(id)][VersionOf(id)]
     IN /\ edges' = Only(edges, {e \in ToSet(edges) : e.from \notin released})
                    \o SetToSeq({EdgeOf(r, id) : r \in rs})
        /\ slots' = SlotsAfter(slots, rs, id)
        /\ packages' = packages \cup {id}
        /\ IF id \in packages THEN UNCHANGED <<committing, facts, recorded>>
           ELSE /\ committing' = committing \cup Transitive(id, version.deps)
                /\ facts' = WithPeers([facts |-> facts, recorded |-> recorded], id, version.peers).facts
                /\ recorded' = recorded \cup {id}
  /\ NextGroup
  /\ UNCHANGED <<manifest, diags, tape, groups, stopped, offered, worker, results, memo, pc, stage, frontier,
                 fatal, iteration, before>>

EndCommit ==
  /\ pc = "commit" /\ next > Len(groups)
  /\ frontier' = committing
  /\ UNCHANGED <<diags, facts>>
  /\ IF fatal THEN EndOfFrontiers(TRUE) ELSE pc' = "frontier"
  /\ UNCHANGED <<manifest, packages, edges, recorded, slots, tape, pool, memo, stage, committing, fatal, iteration, before>>

-----------------------------------------------------------------------------
(* resolvePeerRequirements, one round of it. *)
Unprovided_AnyVersion(i) ==
  facts[i].kind = "peer" /\ ~facts[i].optional /\ SelectedIn(slots, SlotKey(facts[i])) = 0

Unprovided(i) ==
  /\ facts[i].kind = "peer" /\ ~facts[i].optional
  /\ ~Admits(facts[i].range, SelectedIn(slots, SlotKey(facts[i])))

PeerItem(f) ==
  [name |-> f.name, range |-> f.range, ref |-> f.ref, from |-> <<"peer", f.name, 0>>,
   edge |-> "peer", optional |-> FALSE, slot |-> SlotKey(f)]

Wanted == {PeerItem(facts[i]) : i \in {j \in Controllers(facts) : Unprovided(j)}}

ResolvePeers ==
  /\ pc = "peers" /\ iteration <= Len(facts) + 1 /\ Wanted # {}
  /\ stage' = "peers" /\ frontier' = Wanted /\ pc' = "frontier"
  /\ iteration' = iteration + 1 /\ before' = Len(facts)
  /\ UNCHANGED <<manifest, lock, pool, memo, committing, fatal>>

PeersSettled ==
  /\ pc = "peers" /\ (Wanted = {} \/ iteration > Len(facts) + 1)
  /\ pc' = "reconcile"
  /\ UNCHANGED <<manifest, lock, pool, memo, stage, frontier, committing, fatal, iteration, before>>

(* reconcilePeerEnvironmentEdges: a peer edge stays while a peer controls   *)
(* the slot and admits what the edge leads to.                               *)
StillWanted(e) ==
  \/ e.from[1] # "peer"
  \/ /\ e.to \in packages
     /\ \E i \in Controllers(facts) :
          /\ SlotKey(facts[i]) = <<0, NameOf(e.to)>>
          /\ facts[i].kind = "peer" /\ Admits(facts[i].range, VersionOf(e.to))

(* pruneUnreachablePackages: what is in every set of packages that holds    *)
(* what the roots lead to and what its members lead to.                       *)
ClosedUnder(es, ps, S) ==
  \A i \in DOMAIN es :
    es[i].to \in ps /\ (es[i].from \in ps => es[i].from \in S) => es[i].to \in S

Reachable(es, ps) == {id \in ps : \A S \in SUBSET ps : ClosedUnder(es, ps, S) => id \in S}

Pruned(es, ps, reached) ==
  Only(es, {e \in ToSet(es) : e.to \in reached /\ (e.from \in ps => e.from \in reached)})

(* recomputeSelectedSlots: of the edges of roots to one name, the last one  *)
(* stands.  Only slots of the workspace are looked at.                       *)
RootEdges(es, ps) == Only(es, {e \in ToSet(es) : e.from \notin ps})
KnownSlots == {SlotKey(facts[i]) : i \in DOMAIN facts}
Recomputed(es, ps) ==
  LET rooted == RootEdges(es, ps)
      known == {s \in KnownSlots : s[1] = 0 /\ \E i \in DOMAIN rooted : NameOf(rooted[i].to) = s[2]}
      Newest(s) == CHOOSE i \in DOMAIN rooted :
                   /\ NameOf(rooted[i].to) = s[2]
                   /\ \A j \in DOMAIN rooted : NameOf(rooted[j].to) = s[2] => j <= i
  IN [s \in known |-> VersionOf(rooted[Newest(s)].to)]

Reconcile ==
  /\ pc = "reconcile" /\ pc' = "prune"
  /\ edges' = Only(edges, {e \in ToSet(edges) : StillWanted(e)})
  /\ UNCHANGED <<manifest, packages, facts, recorded, slots, diags, tape, pool, memo, stage, frontier, committing, fatal, iteration, before>>

Prune ==
  /\ pc = "prune" /\ pc' = "recompute"
  /\ packages' = Reachable(edges, packages)
  /\ edges' = Pruned(edges, packages, packages')
  /\ UNCHANGED <<manifest, facts, recorded, slots, diags, tape, pool, memo, stage, frontier, committing, fatal, iteration, before>>

Recompute ==
  /\ pc = "recompute" /\ pc' = "finalize"
  /\ slots' = Recomputed(edges, packages)
  /\ UNCHANGED <<manifest, packages, edges, facts, recorded, diags, tape, pool, memo, stage, frontier, committing, fatal, iteration, before>>

(* finalizeRequirementTape *)
Finalize ==
  /\ pc = "finalize"
  /\ tape' = [i \in DOMAIN facts |-> Status(i, slots)]
  /\ diags' = diags \cup
       {Diagnostic("PEER_REQUIREMENT_OVERRIDDEN", TRUE, facts[i].name) :
          i \in {j \in DOMAIN facts : tape'[j] = "overridden-incompatible" /\ facts[j].kind = "peer"}}
  /\ pc' = "done"
  /\ UNCHANGED <<manifest, packages, edges, facts, recorded, slots, pool, memo, stage, frontier, committing, fatal, iteration, before>>

Work(w) ==
  \/ Take(w) \/ LookupMetadata(w) \/ MetadataArrives(w) \/ MetadataFails(w) \/ NoVersion(w)
  \/ AlreadySeen(w) \/ LookupPackage(w) \/ ArtifactArrives(w) \/ Await(w)

Coordinate ==
  \/ EnqueueDirect \/ ApplyControllers \/ RefuseFrontier \/ LeaveFrontiers \/ PrepareGroups \/ Offer
  \/ BeginCommit \/ PassOver \/ CommitFailure \/ CommitPackage \/ EndCommit
  \/ ResolvePeers \/ PeersSettled \/ Reconcile \/ Prune \/ Recompute \/ Finalize

Next == Coordinate \/ \E w \in Workers : Work(w)

Spec == Init /\ [][Next]_vars

(* The goroutines run, and an HTTP request is answered or times out. *)
FairSpec == Spec /\ WF_vars(Coordinate) /\ \A w \in Workers : WF_vars(Work(w))

-----------------------------------------------------------------------------
TypeOK ==
  /\ packages \subseteq Ids /\ recorded \subseteq Ids
  /\ pc \in {"enqueue", "frontier", "prepare", "commit", "peers", "reconcile", "prune", "recompute",
            "finalize", "done"}
  /\ next \in Nat \ {0}
  /\ stopped \in BOOLEAN /\ offered \in BOOLEAN
  /\ \A w \in Workers : worker[w].at \in {"idle", "metadata", "fetchMetadata", "fetchArtifact", "await"}
  /\ meta \in [Names -> {"none", "pending", "ready", "failed"}]
  /\ \A i \in Ids : prep[i].kind \in {"none", "pending", "package", "failure"}
  /\ failures \in 0 .. MaxFailures

(* The single flight of packageMetadata and prepareSelectedPackage: however  *)
(* many workers want a package, and in however many frontiers, the registry  *)
(* is asked once for its metadata and once for its artifact.                 *)
AskedOnce == \A id \in Ids : asked[id] <= 1

Succeeded == pc = "done" /\ Errors = {}

Leads(e, dep) ==
  /\ e.ref = dep.ref /\ NameOf(e.to) = dep.name /\ e.to \in packages
  /\ Admits(dep.range, VersionOf(e.to))
  /\ \A v \in DOMAIN Published[dep.name] : Admits(dep.range, v) => v <= VersionOf(e.to)

DepsOf(id) ==
  IF Registry(id) THEN Published[NameOf(id)][VersionOf(id)].deps
  ELSE IF Local[NameOf(id)].walks THEN Local[NameOf(id)].deps ELSE <<>>

(* A lock that is given back without an error is closed, whatever the order  *)
(* of the workers: every required dependency of every package in it leads to *)
(* the highest version its range admits, which is in it, too; every direct    *)
(* dependency leads to what its slot's controller asks for; and everything in *)
(* it is reached from a root.                                                *)
LockIsClosed ==
  Succeeded =>
    /\ \A id \in packages : \A i \in DOMAIN DepsOf(id) :
         ~DepsOf(id)[i].optional =>
           \E e \in ToSet(edges) : e.from = id /\ Leads(e, DepsOf(id)[i])
    /\ \A e \in ToSet(edges) : e.to \in packages /\ (e.from[1] = "pkg" => e.from \in packages)
    /\ packages = Reachable(edges, packages)

(* A direct dependency leads to the highest version that the controlling        *)
(* requirement of its slot admits (applyRequirementControllers).              *)
DirectIsControlled ==
  Succeeded =>
    \A k \in DOMAIN Direct : Direct[k].name \notin DOMAIN Local /\ ~Direct[k].optional =>
      \E e \in ToSet(edges) :
        /\ e.from = Direct[k].from
        /\ Leads(e, [Direct[k] EXCEPT !.range =
                       facts[Controller(facts, <<Direct[k].scope, Direct[k].name>>)].range])

(* The types, the single flight and the closed lock with what is asked for      *)
(* directly, of one invariant.                                               *)
ResolutionIsSound == TypeOK /\ AskedOnce /\ LockIsClosed /\ DirectIsControlled

(* A required peer of a package in the lock is there, in a version its       *)
(* package admits, or the user is warned: another requirement overrides it,  *)
(* or an optional one controls it and could not be resolved.                 *)
PeersAreAnswered ==
  Succeeded =>
    \A i \in DOMAIN facts :
      facts[i].kind = "peer" /\ ~facts[i].optional /\ Valid(facts[i].range) /\ facts[i].of \in packages =>
        \/ \E e \in ToSet(edges) :
             /\ e.from[1] # "pkg" /\ NameOf(e.to) = facts[i].name
             /\ Admits(facts[i].range, VersionOf(e.to))
        \/ \E d \in diags : d.about = facts[i].name

(* Every peer that a lock requires is met, or its user knows that it is not.   *)
RequirementsAreMet == PeersAreAnswered

(* Resolution ends: the rounds for peers are bounded, no worker waits for a  *)
(* memo that nobody fills, and no group for a worker.                         *)
Termination == <>(pc = "done")
=============================================================================
