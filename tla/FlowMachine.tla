---------------------------- MODULE FlowMachine ----------------------------
(***************************************************************************)
(* The pure workflow state machine of internal/workflow/machine.go.        *)
(*                                                                         *)
(* A flow is the graph that flow.go builds: a sequence of node records in  *)
(* the order of Flow.Nodes, whose first five nodes are the ones            *)
(* newFlowBuilder puts there.  A node identity is its position: addNode    *)
(* numbers nodes in creation order and pads the number, so the order of    *)
(* positions is the order sort.Strings gives to effect identities.         *)
(*                                                                         *)
(* Step(flow, snapshot, event) is laid out the way the code is: one        *)
(* operator per event for the switch of Step, and one iteration of the     *)
(* loop of settleControl (SettleNode), which the caller repeats until no   *)
(* node is eligible.  Every operator maps a snapshot to a snapshot.        *)
(***************************************************************************)
EXTENDS Naturals, Sequences, FiniteSets

CONSTANTS
  Flow,        \* the normalized flow: a sequence of FlowNode records
  StepLimit,   \* Snapshot.StepLimit: how many events Step accepts
  Facts        \* the truth a guard can read from a native result

NodeKind == {"entry", "effect", "fork", "join", "branchExit", "match",
             "iterator", "predicate", "terminal"}
TerminalKind == {"succeeded", "failed", "cancelled", "timedOut"}
State == {"pending", "waiting", "running", "blocked"} \cup TerminalKind

(* What Values may hold for an effect: nothing, a native result that lacks *)
(* the fact a guard asks for, or a result with that fact.                  *)
NoValue == "none"
Bare == "bare"
Value == {NoValue, Bare} \cup Facts

Nodes == 1..Len(Flow)
Effects == {n \in Nodes : Flow[n].kind = "effect"}
Entry == 1
CancelledTerminal == 4

(***************************************************************************)
(* The part of ValidateFlow the machine relies on for its own control:     *)
(* references that exist and closed outcomes on effects, matches and       *)
(* predicates.  next maps an event, or the guard of a match or predicate,  *)
(* to the node it selects; a function has no ambiguous row.                *)
(***************************************************************************)
NodeOK(n) ==
  /\ Flow[n].kind \in NodeKind
  /\ Flow[n].waitFor \subseteq Nodes
  /\ Flow[n].targets \subseteq Nodes
  /\ \A label \in DOMAIN Flow[n].next : Flow[n].next[label] \in Nodes
  /\ Flow[n].kind \in {"effect", "match"} => TerminalKind \subseteq DOMAIN Flow[n].next
  /\ Flow[n].kind = "predicate" => {"true", "false"} \subseteq DOMAIN Flow[n].next
  /\ Flow[n].kind = "terminal" => Flow[n].terminal \in TerminalKind
  /\ Flow[n].cleanup \in BOOLEAN /\ Flow[n].valued \in BOOLEAN
  /\ Flow[n].inputs \subseteq Nodes /\ Flow[n].source \in Nodes

ASSUME FlowAssumption ==
  /\ Len(Flow) \in Nat
  /\ CancelledTerminal \in Nodes
  /\ \A n \in Nodes : NodeOK(n)

ASSUME StepLimitAssumption == StepLimit \in Nat \ {0}
ASSUME FactsAssumption == Facts \subseteq {"true", "false"}

Snapshot == [status  : State,
             node    : [Nodes -> State],
             active  : SUBSET Nodes,
             outcome : [Nodes -> TerminalKind \cup {NoValue}],
             value   : [Nodes -> Value],
             cleanupFailures : SUBSET Nodes,
             steps   : 0..StepLimit]

(* Values, Outcomes and the elements of Aggregates are keyed by the value  *)
(* identity of the effect that produced them, here by its node.            *)
NewSnapshot ==
  [status  |-> "pending",
   node    |-> [n \in Nodes |-> "pending"],
   active  |-> {},
   outcome |-> [n \in Nodes |-> NoValue],
   value   |-> [n \in Nodes |-> NoValue],
   cleanupFailures |-> {},
   steps   |-> 0]

-----------------------------------------------------------------------------
(***************************************************************************)
(* A definition whose name ends in a fault is the one after it as a bug    *)
(* would have it; no specification uses it (see the README on mutants).    *)
(***************************************************************************)
DependenciesComplete_Any(s, n) ==
  Flow[n].waitFor = {} \/ \E d \in Flow[n].waitFor : s.node[d] = "succeeded"

(* dependenciesComplete *)
DependenciesComplete(s, n) ==
  \A d \in Flow[n].waitFor : s.node[d] = "succeeded"

Mark(s, S, state) == [s EXCEPT !.node = [n \in Nodes |-> IF n \in S THEN state ELSE @[n]]]

(***************************************************************************)
(* activateNode over a set of targets.  Activation never makes a node      *)
(* succeed, so the order in which a fork visits its targets is immaterial. *)
(***************************************************************************)
Activate(s, targets) ==
  LET fresh == {n \in targets : s.node[n] = "pending"}
      ready == {n \in fresh : DependenciesComplete(s, n)}
  IN [Mark(s, fresh \ ready, "waiting") EXCEPT !.active = @ \cup ready]

NonterminalIn(s, states) == {n \in Nodes : Flow[n].kind # "terminal" /\ s.node[n] \in states}

(* cancelNonterminalNodes, after a terminal node has set the status. *)
CancelNonterminal(s) ==
  CASE s.status = "succeeded" -> s
    [] s.status = "cancelled" ->
         Mark(s, NonterminalIn(s, {"pending", "waiting", "running"}), "cancelled")
    [] OTHER -> Mark(s, NonterminalIn(s, {"pending", "waiting"}), "blocked")

-----------------------------------------------------------------------------
(***************************************************************************)
(* settleControl: the node kinds, one iteration at a time.                 *)
(***************************************************************************)
Eligible_NotWaiting(s, n) ==
  \/ s.node[n] = "waiting"
  \/ s.node[n] = "pending" /\ n \in s.active /\ Flow[n].kind # "effect"

Eligible(s, n) ==
  \/ s.node[n] = "waiting" /\ DependenciesComplete(s, n)
  \/ s.node[n] = "pending" /\ n \in s.active /\ Flow[n].kind # "effect"

Settled(s) == \A n \in Nodes : ~Eligible(s, n)

(* The loop goes through Flow.Nodes in order and starts over after a pass  *)
(* that made progress: with scan the node it settled last, the next one is *)
(* the first eligible node after scan, or else the first of all.           *)
SettlesNext(s, scan, n) ==
  LET turn(m) == IF m > scan THEN m ELSE m + Len(Flow)
  IN Eligible(s, n) /\ \A m \in Nodes : Eligible(s, m) => turn(n) <= turn(m)

(* The row of the transition table a control node selects: the outcome of  *)
(* the matched value, the truth of the predicate, or continue.             *)
Guard(s, n) ==
  CASE Flow[n].kind = "match"     -> s.outcome[Flow[n].source]
    [] Flow[n].kind = "predicate" -> s.value[Flow[n].source]
    [] OTHER                      -> "continue"

(* Step fails, and the whole event is dropped, when the matched value or   *)
(* the predicate's fact is unavailable or the row does not exist.          *)
SettleFails(s, n) ==
  /\ Flow[n].kind \in {"entry", "join", "iterator", "match", "predicate"}
  /\ Guard(s, n) \notin DOMAIN Flow[n].next

Successors(s, n) ==
  IF Flow[n].kind = "fork" THEN Flow[n].targets
  ELSE IF Guard(s, n) \in DOMAIN Flow[n].next THEN {Flow[n].next[Guard(s, n)]}
  ELSE {}

Complete(s, n) == [s EXCEPT !.node[n] = "succeeded", !.active = @ \ {n}]

SettleNode(s, n) ==
  IF Flow[n].kind = "effect"
  THEN [s EXCEPT !.node[n] = "pending", !.active = @ \cup {n}]
  ELSE IF Flow[n].kind = "terminal"
  THEN CancelNonterminal([Complete(s, n) EXCEPT !.active = {},
                                                !.status = Flow[n].terminal])
  ELSE Activate(Complete(s, n), Successors(s, n))

-----------------------------------------------------------------------------
(***************************************************************************)
(* The switch of Step, before settleControl.  Each operator carries the    *)
(* step it counts; CanStep is the limit every event is first tested for.   *)
(***************************************************************************)
CanStep(s) == s.steps < StepLimit

Start(s) ==
  Activate([s EXCEPT !.status = "running", !.steps = @ + 1], {Entry})

EffectStarted_FallsThrough(s, n) ==
  Activate([s EXCEPT !.node[n] = "running", !.steps = @ + 1], {Flow[n].next["succeeded"]})

EffectStarted(s, n) ==
  [s EXCEPT !.node[n] = "running", !.steps = @ + 1]

(* effectSucceeded, effectFailed, timeout and a node's cancelRequested.    *)
EffectFinished(s, n, outcome, value) ==
  Activate([s EXCEPT
              !.node[n]    = outcome,
              !.outcome[n] = outcome,
              !.value[n]   = IF value = NoValue THEN @ ELSE value,
              !.cleanupFailures = IF Flow[n].cleanup /\ outcome # "succeeded"
                                  THEN @ \cup {n} ELSE @,
              !.active = @ \ {n},
              !.steps  = @ + 1],
           {Flow[n].next[outcome]})

(* cancelRequested without a node: the workflow itself is cancelled. *)
CancelRequested(s) ==
  Activate([Mark(s, NonterminalIn(s, {"pending", "waiting", "running"}), "cancelled")
              EXCEPT !.active = {}, !.steps = @ + 1],
           {CancelledTerminal})

(* activeEffectNodes *)
ActiveEffects(s) == {n \in Effects : n \in s.active /\ s.node[n] = "pending"}

-----------------------------------------------------------------------------
(* A node that is active, runs or has run had every dependency succeed,    *)
(* and they still stand: joins wait for all their branches and jobs for    *)
(* the jobs they need, whatever the order of completions.                  *)
DependenciesMet(s) ==
  \A n \in Nodes :
    n \in s.active \/ s.node[n] \in {"running", "succeeded", "failed", "timedOut"}
      => DependenciesComplete(s, n)

(* The effects that have not been started.  Nothing but EffectStarted may  *)
(* take an effect out of this set, and nothing puts one back.              *)
Unstarted(s) == {n \in Effects : s.node[n] \in {"pending", "waiting"}}
=============================================================================
