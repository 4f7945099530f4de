---------------------------- MODULE WorkflowPlan ----------------------------
(***************************************************************************)
(* What the manifest accepts as a workflow (validateWorkflows), and the plan  *)
(* that a workflow of jobs becomes (BuildPlan).                              *)
(*                                                                         *)
(* A step is [op, packages, targets, target, filter, audit, command, script, *)
(* shell, cwd, caps, env, timeout, transfer, inputs]: sets of packages and    *)
(* targets, the singular target and the filter as sets of at most one, audit *)
(* "unset", "level" or "odd", command a sequence of "word" and "blank", cwd   *)
(* "unset", "workspace", "odd" or the name of a package, env a sequence of    *)
(* [name, kind, secret], transfer the target platform or "unset", inputs a    *)
(* sequence of value categories.  Identifiers, environment names and path     *)
(* patterns are well formed.                                                 *)
(***************************************************************************)
EXTENDS FlowLowering, BuildOrder

Unset == "unset"
Platforms == {"linux", "windows", "macos", "currentHost"}
NativeOperations == {"sync", "check", "build", "test", "pack", "audit", "transfer"}
Categories == {"control", "smallSerialized", "artifactReference", "regionLocal", "placement"}

ReportIf(condition, code) == IF condition THEN {code} ELSE {}
Repeats(s) == \E i, j \in DOMAIN s : i < j /\ s[i] = s[j]

-----------------------------------------------------------------------------
ValidateEnvironment(env) ==
  LET names == [i \in DOMAIN env |-> env[i].name]
  IN ReportIf(Repeats(names), "ENV_DUPLICATE")
     \cup ReportIf(\E i \in DOMAIN env : \/ env[i].kind \notin {"plain", "secret"}
                                         \/ env[i].kind = "plain" /\ env[i].secret # Unset,
                   "ENV_VALUE_INVALID")
     \cup ReportIf(\E i \in DOMAIN env : env[i].kind = "secret" /\ env[i].secret = Unset,
                   "SECRET_REFERENCE_INVALID")

ValidateNative(step) ==
  ReportIf(step.command # <<>> \/ step.script \/ step.cwd # Unset \/ step.env # <<>> \/ step.caps # {},
           "NATIVE_STEP_INVALID")
  \cup ReportIf(\/ step.op \notin {"pack", "build", "test"} /\ step.packages # {}
                \/ step.op # "build" /\ step.targets # {}
                \/ step.op # "test" /\ step.target # {}, "TARGETING_UNSUPPORTED")
  \cup ReportIf(step.op = "test" /\ step.target = {} /\ step.packages # {}, "TEST_TARGET_REQUIRED")
  \cup ReportIf(step.op = "test" /\ step.target # {} /\ Cardinality(step.packages) # 1,
                "TEST_PACKAGE_REQUIRED")
  \cup ReportIf(step.op # "test" /\ step.filter # {}, "TEST_FILTER_INVALID")
  \cup ReportIf(step.audit = "odd" \/ (step.op # "audit" /\ step.audit # Unset), "AUDIT_OPTIONS_INVALID")
  \cup ReportIf(IF step.op = "transfer" THEN step.transfer \notin Platforms ELSE step.transfer # Unset,
                "TRANSFER_TARGET_INVALID")
  \cup ReportIf(step.op = "transfer" /\ step.inputs # <<"artifactReference">>, "TRANSFER_INPUT_INVALID")

ValidateExternal(step) ==
  (IF step.op = "process"
   THEN ReportIf(step.command = <<>>, "PROCESS_COMMAND_REQUIRED")
        \cup ReportIf("blank" \in ToSet(step.command) \/ step.script \/ step.shell # Unset,
                      "PROCESS_COMMAND_INVALID")
   ELSE ReportIf(~step.script, "SHELL_SCRIPT_REQUIRED")
        \cup ReportIf(step.shell \notin {Unset, "sh", "powershell"} \/ step.command # <<>>, "SHELL_INVALID"))
  \cup ReportIf(\/ ~({"process", "workspaceRead"} \subseteq step.caps)
                \/ (step.env # <<>> /\ "environment" \notin step.caps)
                \/ \E i \in DOMAIN step.env : step.env[i].kind = "secret" /\ "secrets" \notin step.caps,
                "CAPABILITY_REQUIRED")

ValidateStep(step, packages) ==
  (CASE step.op \in NativeOperations -> ValidateNative(step)
     [] step.op \in {"process", "shellScript"} -> ValidateExternal(step)
     [] OTHER -> {"STEP_UNSUPPORTED"})
  \cup ReportIf(step.timeout < 0, "TIMEOUT_INVALID")
  \cup ReportIf(step.cwd = "odd", "CWD_INVALID")
  \cup ReportIf(~(step.packages \subseteq packages)
                \/ step.cwd \notin packages \cup {Unset, "workspace", "odd"}, "PACKAGE_UNKNOWN")
  \cup ReportIf(\E i \in DOMAIN step.inputs : step.inputs[i] \notin Categories, "VALUE_CATEGORY_INVALID")
  \cup ReportIf(~(step.caps \subseteq {"network", "workspaceRead", "workspaceWrite", "environment",
                                       "secrets", "process"}), "CAPABILITY_INVALID")
  \cup ValidateEnvironment(step.env)

-----------------------------------------------------------------------------
(* A job is [identity, needs, platform, matrix, env, steps]; a matrix maps    *)
(* its axes to sequences of values.                                          *)
ValidateMatrix(matrix) ==
  ReportIf(\E axis \in DOMAIN matrix : matrix[axis] = <<>> \/ Repeats(matrix[axis]), "MATRIX_INVALID")

Identities(jobs) == [i \in DOMAIN jobs |-> jobs[i].identity]
NeedsOf(jobs) ==
  [identity \in ToSet(Identities(jobs)) |->
     jobs[CHOOSE i \in DOMAIN jobs :
            jobs[i].identity = identity /\ \A j \in DOMAIN jobs : jobs[j].identity = identity => j <= i].needs]

ValidateJobs(jobs, packages) ==
  ReportIf(Repeats(Identities(jobs)), "JOB_IDENTITY_DUPLICATE")
  \cup ReportIf(jobs = <<>>, "JOBS_REQUIRED")
  \cup ReportIf(\E i \in DOMAIN jobs : jobs[i].platform \notin Platforms, "PLATFORM_INVALID")
  \cup ReportIf(\E i \in DOMAIN jobs : jobs[i].steps = <<>>, "STEPS_REQUIRED")
  \cup UNION {ValidateEnvironment(jobs[i].env) \cup ValidateMatrix(jobs[i].matrix) : i \in DOMAIN jobs}
  \cup UNION {UNION {ValidateStep(jobs[i].steps[k], packages) : k \in DOMAIN jobs[i].steps} :
                i \in DOMAIN jobs}
  \cup ReportIf(\E i \in DOMAIN jobs : jobs[i].identity \in ToSet(jobs[i].needs), "JOB_SELF_DEPENDENCY")
  \cup ReportIf(\E i \in DOMAIN jobs : ~(ToSet(jobs[i].needs) \subseteq ToSet(Identities(jobs))),
                "JOB_DEPENDENCY_UNKNOWN")
  \cup ReportIf(\E i \in DOMAIN jobs : Repeats(jobs[i].needs), "JOB_DEPENDENCY_DUPLICATE")
  \cup ReportIf(WorkflowDependencyCycle(NeedsOf(jobs), Identities(jobs)), "JOB_DEPENDENCY_CYCLE")

-----------------------------------------------------------------------------
(* validateWorkflowFlowNode over the authoring forms of FlowLowering, with    *)
(* the branches of a parallel node, the platform of a region and the depth of *)
(* a condition written out.  Concurrency 0 is one that is not given, Nothing  *)
(* an else that is not.                                                      *)
Branch(identity, children) == [kind |-> "branch", identity |-> identity, children |-> children]
Region(platform, children) == [kind |-> "region", platform |-> platform, children |-> children]
Condition(depth, source, then, else) ==
  [kind |-> "when", depth |-> depth, source |-> source, then |-> then, else |-> else]

MaxItems == 256
MaxConcurrency == 32
DefaultConcurrency == 4
MaxDepth == 8

Kinds(arms) == [i \in DOMAIN arms |-> arms[i].outcome]

RECURSIVE ValidateNode(_)
ValidateNodes(nodes) == UNION {ValidateNode(nodes[i]) : i \in DOMAIN nodes}

ValidateForEach(t) ==
  ReportIf(Len(t.items) \notin 1 .. MaxItems, "FOREACH_LIMIT_INVALID")
  \cup ReportIf(t.mode \notin {"sequential", "parallel"}, "FOREACH_MODE_INVALID")
  \cup ReportIf(\/ t.mode = "sequential" /\ t.concurrency \notin {0, 1}
                \/ t.mode = "parallel" /\ t.concurrency \notin 0 .. MaxConcurrency,
                "FOREACH_CONCURRENCY_INVALID")
  \cup ReportIf(t.policy \notin {"failFast", "collectAll"}, "FOREACH_FAILURE_POLICY_INVALID")
  \cup ValidateNodes(t.items)

ValidateMatch_Any(t) ==
  ReportIf(Repeats(Kinds(t.arms)), "MATCH_KIND_DUPLICATE")
  \cup UNION {ValidateNode(t.arms[i].flow) : i \in DOMAIN t.arms}

(* The effect of a match is not validated here; its arms are.                *)
ValidateMatch(t) ==
  ReportIf(Repeats(Kinds(t.arms)), "MATCH_KIND_DUPLICATE")
  \cup ReportIf(~(ToSet(Outcomes) \subseteq ToSet(Kinds(t.arms))), "MATCH_NON_EXHAUSTIVE")
  \cup UNION {ValidateNode(t.arms[i].flow) : i \in DOMAIN t.arms}

ValidateNode(t) ==
  CASE t.kind = "effect"   -> {}
    [] t.kind = "sequence" -> ReportIf(t.children = <<>>, "SEQUENCE_EMPTY") \cup ValidateNodes(t.children)
    [] t.kind = "branch"   -> ReportIf(t.children = <<>>, "BRANCH_EMPTY") \cup ValidateNodes(t.children)
    [] t.kind = "region"   -> ReportIf(t.children = <<>>, "REGION_EMPTY") \cup ValidateNodes(t.children)
                              \cup ReportIf(t.platform \notin Platforms \cup {Unset}, "PLATFORM_INVALID")
    [] t.kind = "parallel" ->
         ReportIf(Len(t.children) < 2, "PARALLEL_TOO_SMALL")
         \cup ReportIf(\E i \in DOMAIN t.children : t.children[i].kind # "branch", "PARALLEL_BRANCH_REQUIRED")
         \cup ReportIf(\E i, j \in DOMAIN t.children :
                          /\ i < j /\ t.children[i].kind = "branch" /\ t.children[j].kind = "branch"
                          /\ t.children[i].identity = t.children[j].identity, "BRANCH_IDENTITY_DUPLICATE")
         \cup ValidateNodes(t.children)
    [] t.kind = "match"    -> ValidateMatch(t)
    [] t.kind = "finally"  -> ValidateNode(t.body) \cup ValidateNode(t.cleanup)
    [] t.kind = "forEach"  -> ValidateForEach(t)
    [] t.kind = "when"     -> ReportIf(t.depth > MaxDepth, "PREDICATE_LIMIT_EXCEEDED")
                              \cup ValidateNode(t.then)
                              \cup (IF t.else = Nothing THEN {} ELSE ValidateNode(t.else))

(* The tree as BuildFlow reads it.                                           *)
RECURSIVE Lower(_)
LowerAll(nodes) == [i \in DOMAIN nodes |-> Lower(nodes[i])]
Lower(t) ==
  CASE t.kind = "effect" -> t
    [] t.kind \in {"sequence", "branch"} -> Sequence(LowerAll(t.children))
    [] t.kind = "parallel" -> Parallel(LowerAll(t.children))
    [] t.kind = "region"   -> On(LowerAll(t.children))
    [] t.kind = "match"    -> Match(t.source, [i \in DOMAIN t.arms |-> [t.arms[i] EXCEPT !.flow = Lower(@)]])
    [] t.kind = "finally"  -> Finally(Lower(t.body), Lower(t.cleanup))
    [] t.kind = "when"     -> When(t.source, Lower(t.then), Lower(t.else))
    [] t.kind = "forEach"  ->
         ForEach(t.mode, CASE t.mode = "sequential" -> 1
                           [] t.mode = "parallel" /\ t.concurrency = 0 -> DefaultConcurrency
                           [] OTHER -> t.concurrency,
                 t.policy, LowerAll(t.items))

(* The copies of a cleanup have results of their own, so that a match, a      *)
(* condition or an input in it names a value that no node of the flow         *)
(* produces.                                                                *)
ReadsAResult(t) == t.kind \in {"match", "when"} \/ (t.kind = "effect" /\ t.inputs # {})
ReadsInCleanup(tree) ==
  \E scope \in Subtrees(tree) :
    scope.kind = "finally" /\ \E t \in Subtrees(scope.cleanup) : ReadsAResult(t)

(* A workflow that the manifest accepts, in which no parallel loop is inside  *)
(* another loop and no cleanup reads a result, becomes a flow that the        *)
(* runtime accepts.                                                         *)
TreesAreLowered(tree) ==
  LET lowered == Lower(tree)
  IN ValidateNode(tree) = {} /\ ~NestsParallelLoop(lowered, FALSE) /\ ~ReadsInCleanup(lowered) =>
       ValidateFlow(BuildFlow(lowered))

-----------------------------------------------------------------------------
(* BuildPlan: a job runs once for each combination of its matrix, named by   *)
(* the job and the combination.                                              *)
ExpandMatrix(matrix) ==
  {c \in [DOMAIN matrix -> UNION {ToSet(matrix[a]) : a \in DOMAIN matrix}] :
     \A a \in DOMAIN matrix : c[a] \in ToSet(matrix[a])}

InstancesOf(job) == {<<job.identity, combination>> : combination \in ExpandMatrix(job.matrix)}

NeededInstances_First(jobs, job) ==
  {(CHOOSE instance \in InstancesOf(jobs[i]) : TRUE) :
     i \in {j \in DOMAIN jobs : jobs[j].identity \in ToSet(job.needs)}}

NeededInstances(jobs, job) ==
  UNION {InstancesOf(jobs[i]) : i \in {j \in DOMAIN jobs : jobs[j].identity \in ToSet(job.needs)}}

BuildPlan(jobs) ==
  LET instances(job) ==
        SetToSeq({Job(instance, NeededInstances(jobs, job),
                      [k \in DOMAIN job.steps |-> Process(<<instance, k>>)]) : instance \in InstancesOf(job)})
  IN FlattenSeq([i \in DOMAIN jobs |-> instances(jobs[i])])

(* A workflow of jobs that the manifest accepts becomes a flow that the       *)
(* runtime accepts, in which every step of every combination has its node and *)
(* the first step of a job can only start once the branch of each combination *)
(* of each job it needs is over.                                             *)
JobsArePlanned(jobs, packages) ==
  ValidateJobs(jobs, packages) = {} =>
    LET flow == BuildFlowFromPlan(BuildPlan(jobs))
        NodeOf(name) == {n \in DOMAIN flow : flow[n].kind = "effect" /\ flow[n].name = name}
        exitOf(n) == CHOOSE m \in DOMAIN flow :
                       flow[m].kind = "branchExit" /\ m \in Reach(flow, {n})
                       /\ \A other \in Reach(flow, {n}) : flow[other].kind = "branchExit" =>
                            other = m \/ other \in Reach(flow, Edges(flow, m))
        waits(n, m) == exitOf(m) \in flow[n].waitFor
    IN /\ ValidateFlow(flow)
       /\ \A i \in DOMAIN jobs : \A instance \in InstancesOf(jobs[i]) :
            /\ \A k \in DOMAIN jobs[i].steps : Cardinality(NodeOf(<<instance, k>>)) = 1
            /\ \A j \in DOMAIN jobs : jobs[j].identity \in ToSet(jobs[i].needs) =>
                 \A other \in InstancesOf(jobs[j]) :
                   \A n \in NodeOf(<<instance, 1>>), m \in NodeOf(<<other, Len(jobs[j].steps)>>) : waits(n, m)
=============================================================================
