----------------------------- MODULE FlowTrees -----------------------------
(***************************************************************************)
(* The machine of machine.go on every workflow of a finite set: a tree is  *)
(* chosen and lowered once, and then its effects start and end in every    *)
(* order and with every outcome.  Nothing of the executor is here but the  *)
(* order in which it feeds events to Step: an effect starts only while the *)
(* workflow is running, and an effect that runs always ends.               *)
(***************************************************************************)
EXTENDS FlowLowering

-----------------------------------------------------------------------------
(* What an authored workflow means, apart from the graph it is lowered to: *)
(* how a tree may end, and which of its effects may run, given how the     *)
(* effects that ran have ended.  It is the meaning docs/workflows.md gives  *)
(* the forms; where the code departs from it is Departs, below.             *)
(*                                                                         *)
(* An effect is known by its name and by the ending of the body its copy   *)
(* cleans up after (NoName outside a cleanup).  What was observed is       *)
(*   ended     how each effect that ended has ended, a function;           *)
(*   running   the effects that are running;                               *)
(*   facts     what a condition reads of an effect that ended, a function; *)
(*   consumed  the effects whose outcome a match decides on.               *)
EndOf(o, effect) == IF effect \in DOMAIN o.ended THEN {o.ended[effect]} ELSE {}

(* The endings of first and, if it can succeed, those of what follows it. *)
AndThen(first, rest) ==
  (first \ {"succeeded"}) \cup (IF "succeeded" \in first THEN rest ELSE {})

Failures(ends) == UNION ends \ {"succeeded"}

(* All must succeed, and the failure of any is a failure of the whole. *)
Together(ends) ==
  IF Failures(ends) # {} THEN Failures(ends) ELSE IF {} \in ends THEN {} ELSE {"succeeded"}

(* A cleanup that succeeds leaves the body's ending in place.              *)
AfterCleanup(body, cleanup) ==
  CASE cleanup = "succeeded" -> body
    [] body = "succeeded" \/ cleanup = "cancelled" -> cleanup
    [] OTHER -> "failed"

ArmFor(t, outcome) == t.arms[CHOOSE i \in DOMAIN t.arms : t.arms[i].outcome = outcome].flow

(* The trees a tree consists of, and the effects among them. *)
Parts(t) ==
  CASE t.kind = "effect"  -> {}
    [] t.kind \in {"sequence", "region", "parallel"} -> ToSet(t.children)
    [] t.kind = "match"   -> {t.source} \cup {arm.flow : arm \in ToSet(t.arms)}
    [] t.kind = "finally" -> {t.body, t.cleanup}
    [] t.kind = "when"    -> {t.then, t.else}
    [] t.kind = "forEach" -> ToSet(t.items)

RECURSIVE Within(_)
Within(t) == {t} \cup UNION {Within(part) : part \in Parts(t)}

EffectsOf(t) == {part.name : part \in {w \in Within(t) : w.kind = "effect"}}
Running(t, o) == \E effect \in o.running : effect[1] \in EffectsOf(t)

RECURSIVE Ends(_, _, _), EndsInOrder(_, _, _)

EndsInOrder(ts, o, cause) ==
  IF ts = <<>> THEN {"succeeded"}
  ELSE AndThen(Ends(Head(ts), o, cause), EndsInOrder(Tail(ts), o, cause))

EndsOfItems(t, o, cause) ==
  LET item(i) == Ends(t.items[i], o, cause)
      all == {item(i) : i \in DOMAIN t.items}
  IN IF t.policy = "collectAll" THEN (IF {} \in all THEN {} ELSE {"succeeded"})
     ELSE IF t.mode = "sequential" THEN EndsInOrder(t.items, o, cause)
     ELSE Together(all)

(* How t may have ended; empty while it has not. *)
Ends(t, o, cause) ==
  CASE t.kind = "effect" ->
         IF EndOf(o, <<t.name, cause>>) # {} /\ cause = NoName /\ t.name \in o.consumed
         THEN {"succeeded"} ELSE EndOf(o, <<t.name, cause>>)
    [] t.kind \in {"sequence", "region"} -> EndsInOrder(t.children, o, cause)
    [] t.kind = "parallel" ->
         Together({Ends(t.children[i], o, cause) : i \in DOMAIN t.children})
    [] t.kind = "match" ->
         UNION {Ends(ArmFor(t, e), o, cause) : e \in EndOf(o, <<t.source.name, NoName>>)}
    [] t.kind = "finally" ->
         UNION {{AfterCleanup(e, c) : c \in Ends(t.cleanup, o, e)} : e \in Ends(t.body, o, cause)}
    [] t.kind = "when" ->
         CASE o.facts[t.source] = "true"  -> Ends(t.then, o, cause)
           [] o.facts[t.source] = "false" -> Ends(t.else, o, cause)
           [] OTHER -> {"failed"}
    [] t.kind = "forEach" -> EndsOfItems(t, o, cause)

-----------------------------------------------------------------------------
(* The item whose end admits item i: the one before it, or one window back. *)
Admits(t, i) == IF t.mode = "sequential" THEN i - 1 ELSE i - t.concurrency

RECURSIVE MayRun(_, _, _), MayRunInOrder(_, _, _)

MayRunInOrder(ts, o, cause) ==
  IF ts = <<>> THEN {}
  ELSE MayRun(Head(ts), o, cause) \cup
       (IF "succeeded" \in Ends(Head(ts), o, cause) THEN MayRunInOrder(Tail(ts), o, cause) ELSE {})

MayRunOfItems(t, o, cause) ==
  LET ended(i) == Ends(t.items[i], o, cause)
      open(i) == \/ Admits(t, i) < 1
                 \/ "succeeded" \in ended(Admits(t, i))
                 \/ t.policy = "collectAll" /\ ended(Admits(t, i)) # {}
  IN IF t.policy = "failFast" /\ Failures({ended(i) : i \in DOMAIN t.items}) # {} THEN {}
     ELSE UNION {MayRun(t.items[i], o, cause) : i \in {j \in DOMAIN t.items : open(j)}}

(* The effects of t that may be started now.  The failure of a branch blocks *)
(* what its siblings have not started, and a cleanup waits for all of its    *)
(* body that is running.                                                   *)
MayRun(t, o, cause) ==
  CASE t.kind = "effect" -> {<<t.name, cause>>}
    [] t.kind \in {"sequence", "region"} -> MayRunInOrder(t.children, o, cause)
    [] t.kind = "parallel" ->
         IF Failures({Ends(child, o, cause) : child \in ToSet(t.children)}) # {} THEN {}
         ELSE UNION {MayRun(child, o, cause) : child \in ToSet(t.children)}
    [] t.kind = "match" ->
         {<<t.source.name, NoName>>} \cup
         UNION {MayRun(ArmFor(t, e), o, cause) : e \in EndOf(o, <<t.source.name, NoName>>)}
    [] t.kind = "finally" ->
         MayRun(t.body, o, cause) \cup
         (IF Running(t.body, o) THEN {} ELSE UNION {MayRun(t.cleanup, o, e) : e \in Ends(t.body, o, cause)})
    [] t.kind = "when" ->
         CASE o.facts[t.source] = "true"  -> MayRun(t.then, o, cause)
           [] o.facts[t.source] = "false" -> MayRun(t.else, o, cause)
           [] OTHER -> {}
    [] t.kind = "forEach" -> MayRunOfItems(t, o, cause)

-----------------------------------------------------------------------------
(* Where the code departs from what the documents say of these forms:        *)
(* docs/workflows.md says that after a failure pending sibling work is       *)
(* blocked, that running effects report before the wave closes, that the     *)
(* order of completions does not change the meaning (lines 30-34), and that  *)
(* nested Finally is compositional (line 180).                               *)

(* What goes on after a failure within, and what ends with the first one.    *)
Scopes(t) == {w \in Within(t) : w.kind = "finally" \/ (w.kind = "forEach" /\ w.policy = "collectAll")}
Waves(t)  == {w \in Within(t) : w.kind = "parallel" \/ (w.kind = "forEach" /\ w.mode = "parallel" /\ w.policy = "failFast")}
Guarded(scope) == IF scope.kind = "finally" THEN {scope.body} ELSE ToSet(scope.items)

FailuresIn(t, o) ==
  {o.ended[e] : e \in {x \in DOMAIN o.ended : x[1] \in EffectsOf(t) \ o.consumed}} \ {"succeeded"}

(* A branch fails inside a scope: the cleanup, or the next item, starts       *)
(* beside its siblings, which go on.                                         *)
BranchFailsInScope(t, o) ==
  \E scope \in Scopes(t) : \E part \in Guarded(scope) : \E wave \in Waves(part) : FailuresIn(wave, o) # {}

(* The cleanup of an inner scope fails: compileCleanup sends it to the        *)
(* terminal, past the cleanup or the items of the outer one.                  *)
CleanupFailsInScope(t, o) ==
  \E scope \in Scopes(t) : \E part \in Guarded(scope) : \E inner \in Within(part) :
    inner.kind = "finally" /\ FailuresIn(inner.cleanup, o) # {}

Departs(t, o) == BranchFailsInScope(t, o) \/ CleanupFailsInScope(t, o)

(* Two branches fail differently: the one that is applied last decides.       *)
BranchesFailApart(t, o) == \E wave \in Waves(t) : Cardinality(FailuresIn(wave, o)) > 1

(* The effects whose outcome some match of t decides on. *)
Consumed(t) == {m.source.name : m \in {w \in Within(t) : w.kind = "match"}}

(* What a flow with snapshot s shows of the tree t it was lowered from.    *)
Observed(t, flow, s) ==
  LET over == {n \in DOMAIN flow : flow[n].kind = "effect" /\ s.outcome[n] # NoName}
      node(effect) == CHOOSE n \in over : <<flow[n].name, flow[n].cause>> = effect
      plain == {n \in DOMAIN flow : flow[n].kind = "effect" /\ flow[n].cause = NoName}
      named(r) == CHOOSE n \in plain : flow[n].name = r
      busy == {n \in DOMAIN flow : flow[n].kind = "effect" /\ s.node[n] = "running"}
  IN [running |-> {<<flow[n].name, flow[n].cause>> : n \in busy},
      ended |-> [e \in {<<flow[n].name, flow[n].cause>> : n \in over} |-> s.outcome[node(e)]],
      facts |-> [r \in {flow[n].name : n \in plain} |-> s.value[named(r)]],
      consumed |-> Consumed(t)]

StartedEffects(flow, s) ==
  {<<flow[n].name, flow[n].cause>> :
     n \in {m \in DOMAIN flow : flow[m].kind = "effect" /\
                                  (s.node[m] = "running" \/ s.outcome[m] # NoName)}}

-----------------------------------------------------------------------------
(* The machine on the flows. *)

CONSTANTS
  Trees,      \* the authored workflows
  FactsRead   \* the facts a condition may read

VARIABLES
  tree,  \* the authored workflow
  flow,  \* what BuildFlow made of it
  snap   \* the machine's snapshot

vars == <<tree, flow, snap>>

Machine(f) == INSTANCE FlowMachine WITH Flow <- f, StepLimit <- 100, Facts <- FactsRead

(* settleControl, all of it. *)
RECURSIVE SettleControl(_, _, _)
SettleControl(f, s, scan) ==
  IF Machine(f)!Settled(s) THEN s
  ELSE LET n == CHOOSE m \in DOMAIN f : Machine(f)!SettlesNext(s, scan, m)
       IN SettleControl(f, Machine(f)!SettleNode(s, n), n)

Init ==
  /\ tree \in {t \in Trees : ~NestsParallelLoop(t, FALSE)}
  /\ flow = BuildFlow(tree)
  /\ snap = Machine(flow)!NewSnapshot

Begin ==
  /\ snap.status = "pending"
  /\ snap' = SettleControl(flow, Machine(flow)!Start(snap), 0)
  /\ UNCHANGED <<tree, flow>>

StartEffect(n) ==
  /\ snap.status = "running"
  /\ n \in Machine(flow)!ActiveEffects(snap)
  /\ snap' = SettleControl(flow, Machine(flow)!EffectStarted(snap, n), 0)
  /\ UNCHANGED <<tree, flow>>

(* Only a condition looks into a result. *)
Values(n) ==
  IF \E m \in DOMAIN flow : flow[m].kind = "predicate" /\ flow[m].source = n
  THEN FactsRead ELSE {Machine(flow)!Bare}

EndEffect(n, outcome, value) ==
  /\ snap.node[n] = "running"
  /\ snap' = SettleControl(flow, Machine(flow)!EffectFinished(snap, n, outcome, value), 0)
  /\ UNCHANGED <<tree, flow>>

Finished == snap.status # "pending" /\ \A n \in DOMAIN flow :
              snap.node[n] # "running" /\ ~(snap.status = "running" /\ n \in snap.active)

Next ==
  \/ Begin
  \/ \E n \in DOMAIN flow : StartEffect(n)
  \/ \E n \in DOMAIN flow, outcome \in Machine(flow)!TerminalKind : \E value \in Values(n) :
       EndEffect(n, outcome, value)
  \/ Finished /\ UNCHANGED vars

Spec == Init /\ [][Next]_vars

-----------------------------------------------------------------------------
Seen == Observed(tree, flow, snap)

(* The graph starts an effect only where the authored tree allows it, given  *)
(* how the effects before it ended: after its predecessor succeeded, in the   *)
(* arm of the outcome, in the window of its loop, while no sibling has failed,  *)
(* and as a cleanup when nothing of its body runs.                            *)
StartsWhatTheTreeAllows ==
  StartedEffects(flow, snap)' \subseteq StartedEffects(flow, snap) \cup MayRun(tree, Seen, NoName)

(* A workflow that came to its end ends the way the authored tree may end, *)
(* and one whose tree has ended has not been left running.                 *)
EndsAsTheTreeDoes ==
  Finished => snap.status \in Ends(tree, Seen, NoName)

(* Both, while no effect has ended where the code departs from the documents.  *)
TreeIsFollowed ==
  /\ [][~Departs(tree, Seen) => StartsWhatTheTreeAllows]_vars
  /\ [](~Departs(tree, Seen) /\ ~BranchesFailApart(tree, Seen) => EndsAsTheTreeDoes)
=============================================================================
