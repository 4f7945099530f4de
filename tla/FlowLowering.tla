---------------------------- MODULE FlowLowering ----------------------------
(***************************************************************************)
(* How internal/workflow/flow.go turns an authored workflow into the flow  *)
(* the machine runs: BuildFlow for a tree of authoring nodes and           *)
(* BuildFlowFromPlan for the jobs of the compatibility form.               *)
(*                                                                         *)
(* A tree is a record with a kind; a builder is the part of flowBuilder    *)
(* the graph depends on.  Names stay authored identities while the graph   *)
(* is built (a match may be lowered before the effect it reads) and are    *)
(* resolved to the producing node at the end.  Placement (regions,         *)
(* platforms, environments) and the iterator's cursor data are left out.   *)
(***************************************************************************)
EXTENDS Naturals, Sequences, FiniteSets, SequencesExt, TLC

NoName == "none"
Outcomes == <<"succeeded", "failed", "cancelled", "timedOut">>

(* Authoring forms. An effect without a result identity has result NoName. *)
Effect(name)          == [kind |-> "effect", name |-> name, result |-> name, inputs |-> {}]
Process(name)         == [kind |-> "effect", name |-> name, result |-> NoName, inputs |-> {}]
Consume(name, inputs) == [kind |-> "effect", name |-> name, result |-> name, inputs |-> inputs]
Sequence(children)    == [kind |-> "sequence", children |-> children]
Parallel(children)    == [kind |-> "parallel", children |-> children]
On(children)          == [kind |-> "region", children |-> children]
Match(source, arms)   == [kind |-> "match", source |-> source, arms |-> arms]
Finally(body, cleanup) == [kind |-> "finally", body |-> body, cleanup |-> cleanup]
When(source, then, else) == [kind |-> "when", source |-> source, then |-> then, else |-> else]
ForEach(mode, concurrency, policy, items) ==
  [kind |-> "forEach", mode |-> mode, concurrency |-> concurrency,
   policy |-> policy, items |-> items]
Nothing == Sequence(<<>>)

-----------------------------------------------------------------------------
BareNode(kind) ==
  [kind |-> kind, name |-> NoName, result |-> <<>>, reads |-> {}, cause |-> NoName,
   valued |-> FALSE, terminal |-> NoName, targets |-> {}, waitFor |-> {}, next |-> <<>>]

Terminal(outcome) == [BareNode("terminal") EXCEPT !.terminal = outcome]

(* newFlowBuilder *)
NewBuilder(authored) ==
  [nodes |-> <<BareNode("entry")>> \o [i \in 1..4 |-> Terminal(Outcomes[i])],
   failure |-> 3, cancel |-> 4, timeout |-> 5, cause |-> NoName,
   lowered |-> {}, matches |-> <<>>, authored |-> authored]

AddNode(b, node) == [b EXCEPT !.nodes = Append(@, node)]
Newest(b) == Len(b.nodes)

AddTransition(b, from, label, to) ==
  [b EXCEPT !.nodes[from].next = (label :> to) @@ @]

RECURSIVE AddTransitions(_, _, _)
AddTransitions(b, from, rows) ==
  IF rows = <<>> THEN b
  ELSE AddTransitions(AddTransition(b, from, rows[1][1], rows[1][2]), from, Tail(rows))

AddTarget(b, fork, target) == [b EXCEPT !.nodes[fork].targets = @ \cup {target}]
AddWaitFor(b, join, exit)  == [b EXCEPT !.nodes[join].waitFor = @ \cup {exit}]

(* The targets of the four outcomes, saved and restored around a scope. *)
Route(b, failure, cancel, timeout) ==
  [b EXCEPT !.failure = failure, !.cancel = cancel, !.timeout = timeout]
Restore(b, outer) ==
  [Route(b, outer.failure, outer.cancel, outer.timeout) EXCEPT !.cause = outer.cause]

Lowered(b, entry) == [b |-> b, entry |-> entry]

(***************************************************************************)
(* compileEffect.  A result identity is lowered once; a cleanup copy gets  *)
(* an identity of its own.  An effect some match already consumes leaves   *)
(* by its continuation whatever its outcome.                               *)
(***************************************************************************)
CompileEffect(b, step, continuation) ==
  LET n == Newest(b) + 1
      result == IF step.result = NoName THEN <<"auto", n>>
                ELSE IF b.cause = NoName THEN <<"authored", step.result>>
                ELSE <<"cleanup", step.result, b.cause, n>>
      matched == b.cause = NoName /\ step.result \in DOMAIN b.matches
      node == [BareNode("effect") EXCEPT !.name = step.name, !.result = result,
                                         !.valued = step.result # NoName,
                                         !.reads = step.inputs, !.cause = b.cause]
      added == [AddNode(b, node) EXCEPT !.lowered = @ \cup {result}]
  IN IF result \in b.lowered THEN Lowered(b, continuation)
     ELSE Lowered(AddTransitions(added, n,
                    <<<<"succeeded", continuation>>,
                      <<"failed",    IF matched THEN continuation ELSE b.failure>>,
                      <<"cancelled", IF matched THEN continuation ELSE b.cancel>>,
                      <<"timedOut",  IF matched THEN continuation ELSE b.timeout>>>>),
                  n)

RECURSIVE Compile(_, _, _), CompileSequence(_, _, _), CompileBranches(_, _, _, _),
          CompileArms(_, _, _, _), CompileItems(_, _, _, _), AddNodes(_, _, _)

(* Children are lowered last to first, each continuing with its successor. *)
CompileSequence(b, children, continuation) ==
  IF children = <<>> THEN Lowered(b, continuation)
  ELSE LET last == Compile(b, Last(children), continuation)
       IN CompileSequence(last.b, Front(children), last.entry)

CompileBranches(b, children, join, fork) ==
  IF children = <<>> THEN b
  ELSE LET exit == Newest(b) + 1
           branch == Compile(AddNode(b, BareNode("branchExit")), Head(children), exit)
       IN CompileBranches(AddWaitFor(AddTarget(branch.b, fork, branch.entry), join, exit),
                          Tail(children), join, fork)

CompileParallel(b, children, continuation) ==
  LET join == Newest(b) + 1
      fork == join + 1
      opened == AddTransition(AddNode(AddNode(b, BareNode("join")), BareNode("fork")),
                              join, "continue", continuation)
  IN Lowered(AddTarget(CompileBranches(opened, children, join, fork), fork, join), fork)

CompileRegion(b, children, continuation) ==
  LET region == Newest(b) + 1
      body == CompileSequence(AddNode(b, BareNode("entry")), children, continuation)
  IN Lowered(AddTransition(body.b, region, "continue", body.entry), region)

CompileArms(b, match, arms, continuation) ==
  IF arms = <<>> THEN b
  ELSE LET arm == Compile(b, Head(arms).flow, continuation)
       IN CompileArms(AddTransition(arm.b, match, Head(arms).outcome, arm.entry),
                      match, Tail(arms), continuation)

CompileMatch(b, t, continuation) ==
  LET match == Newest(b) + 1
      opened == AddNode(b, [BareNode("match") EXCEPT !.reads = {t.source.result}])
      armed == CompileArms(opened, match, t.arms, continuation)
      known == [armed EXCEPT !.matches = (t.source.result :> match) @@ @]
  IN IF t.source.result \in b.authored THEN Lowered(known, match)
     ELSE CompileEffect(known, t.source, match)

(***************************************************************************)
(* compileCleanup and the finally form: four copies of the cleanup, one    *)
(* per way the body ends, each continuing where that ending would have     *)
(* gone.  A cleanup that itself fails goes straight to a terminal.         *)
(***************************************************************************)
CompileCleanup(b, cleanup, continuation, cause) ==
  LET routed == Route(b, 3, 4, IF cause = "succeeded" THEN 5 ELSE 3)
      copy == Compile([routed EXCEPT !.cause = cause], cleanup, continuation)
  IN Lowered(Restore(copy.b, b), copy.entry)

CompileFinally(b, t, continuation) ==
  LET done      == CompileCleanup(b, t.cleanup, continuation, "succeeded")
      failed    == CompileCleanup(done.b, t.cleanup, b.failure, "failed")
      cancelled == CompileCleanup(failed.b, t.cleanup, b.cancel, "cancelled")
      timedOut  == CompileCleanup(cancelled.b, t.cleanup, b.timeout, "timedOut")
      body == Compile(Route(timedOut.b, failed.entry, cancelled.entry, timedOut.entry),
                      t.body, done.entry)
  IN Lowered(Restore(body.b, b), body.entry)

CompileWhen_Swapped(b, t, continuation) ==
  LET else == Compile(b, t.else, continuation)
      then == Compile(else.b, t.then, continuation)
      condition == Newest(then.b) + 1
      added == AddNode(then.b, [BareNode("predicate") EXCEPT !.reads = {t.source}])
  IN Lowered(AddTransitions(added, condition,
                            <<<<"true", else.entry>>, <<"false", then.entry>>>>), condition)

CompileWhen(b, t, continuation) ==
  LET else == Compile(b, t.else, continuation)
      then == Compile(else.b, t.then, continuation)
      condition == Newest(then.b) + 1
      added == AddNode(then.b, [BareNode("predicate") EXCEPT !.reads = {t.source}])
  IN Lowered(AddTransitions(added, condition,
                            <<<<"true", then.entry>>, <<"false", else.entry>>>>), condition)

(* compileForEachItem: the item's flow behind its iterator node; collectAll *)
(* makes every ending of the item continue.                                 *)
CompileItem(b, t, item, continuation) ==
  LET routed == IF t.policy = "collectAll"
                THEN Route(b, continuation, continuation, continuation) ELSE b
      body == Compile(routed, item, continuation)
      cursor == Newest(body.b) + 1
  IN Lowered(AddTransition(AddNode(Restore(body.b, b), BareNode("iterator")),
                           cursor, "continue", body.entry), cursor)

RECURSIVE CompileSequentialItems(_, _, _, _)
CompileSequentialItems(b, t, items, continuation) ==
  IF items = <<>> THEN Lowered(b, continuation)
  ELSE LET last == CompileItem(b, t, Last(items), continuation)
       IN CompileSequentialItems(last.b, t, Front(items), last.entry)

AddNodes(b, node, count) == IF count = 0 THEN b ELSE AddNodes(AddNode(b, node), node, count - 1)

CompileItems(b, t, exits, entries) ==
  LET i == Len(entries) + 1
  IN IF i > Len(t.items) THEN [b |-> b, entries |-> entries]
     ELSE LET item == CompileItem(b, t, t.items[i], exits[i])
          IN CompileItems(item.b, t, exits, Append(entries, item.entry))

RECURSIVE Admit(_, _, _, _, _)
(* Exit i admits the item one window further; the fork starts the first     *)
(* window.                                                                  *)
Admit(b, exits, entries, window, i) ==
  IF i > Len(exits) THEN b
  ELSE Admit(IF i + window <= Len(entries)
             THEN AddTransition(b, exits[i], "continue", entries[i + window]) ELSE b,
             exits, entries, window, i + 1)

FirstWindow(entries, window) == {entries[i] : i \in {j \in DOMAIN entries : j <= window}}

CompileParallelItems(b, t, continuation) ==
  LET join == Newest(b) + 1
      fork == join + 1
      exits == [i \in DOMAIN t.items |-> fork + i]
      opened == AddTransition(AddNode(AddNode(b, BareNode("join")), BareNode("fork")),
                              join, "continue", continuation)
      bare == [AddNodes(opened, BareNode("branchExit"), Len(t.items))
                 EXCEPT !.nodes[join].waitFor = {exits[i] : i \in DOMAIN exits}]
      items == CompileItems(bare, t, exits, <<>>)
      linked == Admit(items.b, exits, items.entries, t.concurrency, 1)
  IN Lowered([linked EXCEPT !.nodes[fork].targets =
                FirstWindow(items.entries, t.concurrency) \cup {join}], fork)

CompileForEach(b, t, continuation) ==
  IF t.mode = "sequential" THEN CompileSequentialItems(b, t, t.items, continuation)
  ELSE CompileParallelItems(b, t, continuation)

Compile(b, t, continuation) ==
  CASE t.kind = "effect"   -> CompileEffect(b, t, continuation)
    [] t.kind = "sequence" -> CompileSequence(b, t.children, continuation)
    [] t.kind = "parallel" -> CompileParallel(b, t.children, continuation)
    [] t.kind = "region"   -> CompileRegion(b, t.children, continuation)
    [] t.kind = "match"    -> CompileMatch(b, t, continuation)
    [] t.kind = "finally"  -> CompileFinally(b, t, continuation)
    [] t.kind = "when"     -> CompileWhen(b, t, continuation)
    [] t.kind = "forEach"  -> CompileForEach(b, t, continuation)

-----------------------------------------------------------------------------
(***************************************************************************)
(* collectAuthoredEffects.  It descends into children, bodies, cleanups,   *)
(* arms and items, and not into the branches of When.                      *)
(***************************************************************************)
RECURSIVE Authored(_)
Authored(t) ==
  CASE t.kind = "effect"  -> IF t.result = NoName THEN {} ELSE {t.result}
    [] t.kind \in {"sequence", "parallel", "region"} ->
         UNION {Authored(t.children[i]) : i \in DOMAIN t.children}
    [] t.kind = "match"   -> UNION {Authored(t.arms[i].flow) : i \in DOMAIN t.arms}
    [] t.kind = "finally" -> Authored(t.body) \cup Authored(t.cleanup)
    [] t.kind = "forEach" -> UNION {Authored(t.items[i]) : i \in DOMAIN t.items}
    [] t.kind = "when"    -> {}

(* compileForEach refuses a parallel loop inside another loop. *)
RECURSIVE NestsParallelLoop(_, _)
NestsParallelLoop(t, inLoop) ==
  CASE t.kind = "effect"  -> FALSE
    [] t.kind \in {"sequence", "parallel", "region"} ->
         \E i \in DOMAIN t.children : NestsParallelLoop(t.children[i], inLoop)
    [] t.kind = "match"   -> \E i \in DOMAIN t.arms : NestsParallelLoop(t.arms[i].flow, inLoop)
    [] t.kind = "finally" -> NestsParallelLoop(t.body, inLoop) \/ NestsParallelLoop(t.cleanup, inLoop)
    [] t.kind = "when"    -> NestsParallelLoop(t.then, inLoop) \/ NestsParallelLoop(t.else, inLoop)
    [] t.kind = "forEach" ->
         \/ inLoop /\ t.mode = "parallel"
         \/ \E i \in DOMAIN t.items : NestsParallelLoop(t.items[i], TRUE)

(* A node as the machine reads it: authored identities resolved to the node *)
(* that produces the value.                                                 *)
Resolve(b, n) ==
  LET node == b.nodes[n]
      producer(r) == CHOOSE m \in DOMAIN b.nodes : b.nodes[m].result = <<"authored", r>>
      sources == {producer(r) : r \in node.reads}
  IN [kind |-> node.kind, name |-> node.name, terminal |-> node.terminal,
      targets |-> node.targets, waitFor |-> node.waitFor, next |-> node.next,
      cleanup |-> node.cause # NoName, cause |-> node.cause, valued |-> node.valued,
      inputs |-> sources,
      source |-> IF sources = {} THEN n ELSE CHOOSE m \in sources : TRUE]

RECURSIVE ResolveFirst(_, _)
ResolveFirst(b, count) ==
  IF count = 0 THEN <<>> ELSE Append(ResolveFirst(b, count - 1), Resolve(b, count))
ResolveAll(b) == ResolveFirst(b, Newest(b))

BuildFlow(tree) ==
  LET root == Compile(NewBuilder(Authored(tree)), tree, 2)
  IN ResolveAll(AddTransition(root.b, 1, "continue", root.entry))

-----------------------------------------------------------------------------
(***************************************************************************)
(* BuildFlowFromPlan: jobs run side by side behind one fork and one join;  *)
(* the first step of a job waits for the exits of the jobs it needs.       *)
(***************************************************************************)
Job(name, needs, steps) == [name |-> name, needs |-> needs, steps |-> steps]

RECURSIVE CompileJobs(_, _, _, _)
CompileJobs(b, jobs, exits, i) ==
  IF i > Len(jobs) THEN b
  ELSE LET exit(j) == exits[CHOOSE k \in DOMAIN jobs : jobs[k].name = j]
           job == CompileSequence(b, jobs[i].steps, exits[i])
           waiting == [job.b EXCEPT !.nodes[job.entry].waitFor = {exit(j) : j \in jobs[i].needs}]
           join == Len(jobs) + 6
       IN CompileJobs(AddWaitFor(AddTarget(waiting, join + 1, job.entry), join, exits[i]),
                      jobs, exits, i + 1)

BuildFlowFromPlan(jobs) ==
  LET exits == [i \in DOMAIN jobs |-> 5 + i]
      join == Len(jobs) + 6
      fork == join + 1
      opened == AddNode(AddNode(AddNodes(NewBuilder({}), BareNode("branchExit"), Len(jobs)),
                                BareNode("join")), BareNode("fork"))
      linked == AddTransition(AddTransition(opened, 1, "continue", fork), join, "continue", 2)
  IN ResolveAll(AddTarget(CompileJobs(linked, jobs, exits, 1), fork, join))

-----------------------------------------------------------------------------
(***************************************************************************)
(* ValidateFlow, the graph part: no join without branches, every node that *)
(* is not a terminal or a cleanup reachable from entry, no cycle, and      *)
(* every value read on a path its producer reaches.                        *)
(***************************************************************************)
Edges(flow, n) ==
  flow[n].targets
    \cup {flow[n].next[l] : l \in DOMAIN flow[n].next}
    \cup {j \in DOMAIN flow : flow[j].kind = "join" /\ n \in flow[j].waitFor}

RECURSIVE Reach(_, _)
Reach(flow, from) ==
  LET wider == from \cup UNION {Edges(flow, n) : n \in from}
  IN IF wider = from THEN from ELSE Reach(flow, wider)

ValidateFlow(flow) ==
  LET reachable == Reach(flow, {1})
  IN /\ \A n \in DOMAIN flow :
          /\ flow[n].kind = "join" => flow[n].waitFor # {}
          /\ flow[n].kind \in {"effect", "match"} =>
               \A i \in DOMAIN Outcomes : Outcomes[i] \in DOMAIN flow[n].next
          /\ flow[n].kind = "predicate" => DOMAIN flow[n].next = {"true", "false"}
          /\ n \in reachable \/ flow[n].kind = "terminal" \/ flow[n].cleanup
          /\ \A p \in flow[n].inputs : n \in Reach(flow, {p})
     /\ \A n \in reachable : n \notin Reach(flow, Edges(flow, n))

-----------------------------------------------------------------------------
(* t and every tree in it that can run outside a cleanup. *)
RECURSIVE Subtrees(_)
Subtrees(t) ==
  {t} \cup
  CASE t.kind = "effect" -> {}
    [] t.kind \in {"sequence", "parallel", "region"} ->
         UNION {Subtrees(t.children[i]) : i \in DOMAIN t.children}
    [] t.kind = "match"   -> UNION {Subtrees(t.arms[i].flow) : i \in DOMAIN t.arms}
    [] t.kind = "finally" -> Subtrees(t.body)
    [] t.kind = "when"    -> Subtrees(t.then) \cup Subtrees(t.else)
    [] t.kind = "forEach" -> UNION {Subtrees(t.items[i]) : i \in DOMAIN t.items}
=============================================================================
