------------------------ MODULE FlowExecutor_proofs ------------------------
(***************************************************************************)
(* Theorems of FlowExecutor, for every flow, step limit and number of      *)
(* slots, with and without Ctrl+C.                                         *)
(***************************************************************************)
EXTENDS FlowExecutor, FiniteSetTheorems, TLAPS

-----------------------------------------------------------------------------
(***************************************************************************)
(* What the operators of the machine preserve, for every flow: the type of *)
(* a snapshot, the dependencies of every node that is active or has run,   *)
(* and that an effect that was started never becomes unstarted again.      *)
(***************************************************************************)
(***************************************************************************)
(* Types.                                                                  *)
(***************************************************************************)
(* Mark, which cancelNonterminalNodes and activateNode rest on, gives a    *)
(* snapshot.                                                               *)
LEMMA MarkType ==
  ASSUME NEW s \in Snapshot, NEW S \in SUBSET Nodes, NEW state \in State
  PROVE  Mark(s, S, state) \in Snapshot
BY DEF Mark, Snapshot

(* activateNode gives a snapshot. *)
LEMMA ActivateType ==
  ASSUME NEW s \in Snapshot, NEW targets \in SUBSET Nodes
  PROVE  Activate(s, targets) \in Snapshot
<1> DEFINE fresh == {n \in targets : s.node[n] = "pending"}
           ready == {n \in fresh : DependenciesComplete(s, n)}
<1>1. Mark(s, fresh \ ready, "waiting") \in Snapshot
  BY MarkType DEF State
<1>2. ready \in SUBSET Nodes
  OBVIOUS
<1> QED
  BY <1>1, <1>2 DEF Activate, Snapshot

(* cancelNonterminalNodes gives a snapshot. *)
LEMMA CancelNonterminalType ==
  ASSUME NEW s \in Snapshot
  PROVE  CancelNonterminal(s) \in Snapshot
<1>1. \A states : NonterminalIn(s, states) \in SUBSET Nodes
  BY DEF NonterminalIn
<1> QED
  BY <1>1, MarkType DEF CancelNonterminal, State, TerminalKind

(* A control node that settleControl completes leaves a snapshot. *)
LEMMA CompleteType ==
  ASSUME NEW s \in Snapshot, NEW n \in Nodes
  PROVE  Complete(s, n) \in Snapshot
BY DEF Complete, Snapshot, State, TerminalKind

(* The rows a control node selects lead to nodes of the flow. *)
LEMMA SuccessorsType ==
  ASSUME NEW s \in Snapshot, NEW n \in Nodes
  PROVE  Successors(s, n) \in SUBSET Nodes
BY FlowAssumption DEF NodeOK, Successors

(* One iteration of settleControl gives a snapshot. *)
LEMMA SettleNodeType ==
  ASSUME NEW s \in Snapshot, NEW n \in Nodes
  PROVE  SettleNode(s, n) \in Snapshot
<1>1. CASE Flow[n].kind = "effect"
  BY <1>1 DEF SettleNode, Snapshot, State
<1>2. CASE Flow[n].kind = "terminal"
  <2>1. Flow[n].terminal \in State
    BY <1>2, FlowAssumption DEF NodeOK, State
  <2>2. [Complete(s, n) EXCEPT !.active = {}, !.status = Flow[n].terminal] \in Snapshot
    BY <2>1, CompleteType DEF Snapshot
  <2> QED
    BY <1>2, <2>2, CancelNonterminalType DEF SettleNode
<1>3. CASE Flow[n].kind \notin {"effect", "terminal"}
  BY <1>3, CompleteType, SuccessorsType, ActivateType DEF SettleNode
<1> QED
  BY <1>1, <1>2, <1>3

(* NewSnapshot gives a snapshot. *)
LEMMA NewSnapshotType == NewSnapshot \in Snapshot
BY StepLimitAssumption DEF NewSnapshot, Snapshot, State, Value

(* An event Step accepts leaves the step count within its limit. *)
LEMMA StepCounts ==
  ASSUME NEW s \in Snapshot, CanStep(s)
  PROVE  s.steps + 1 \in 0..StepLimit
<1>1. s.steps \in 0..StepLimit /\ s.steps < StepLimit
  BY DEF CanStep, Snapshot
<1> QED
  BY <1>1, StepLimitAssumption

(* The start event gives a snapshot. *)
LEMMA StartType ==
  ASSUME NEW s \in Snapshot, CanStep(s)
  PROVE  Start(s) \in Snapshot
<1>1. Entry \in Nodes
  BY FlowAssumption DEF Entry, CancelledTerminal, Nodes
<1>2. [s EXCEPT !.status = "running", !.steps = @ + 1] \in Snapshot
  BY StepCounts DEF Snapshot, State
<1> QED
  BY <1>1, <1>2, ActivateType DEF Start

(* effectStarted gives a snapshot. *)
LEMMA EffectStartedType ==
  ASSUME NEW s \in Snapshot, CanStep(s), NEW n \in Nodes
  PROVE  EffectStarted(s, n) \in Snapshot
BY StepCounts DEF EffectStarted, Snapshot, State

(* A completed effect, whatever its outcome and value, gives a snapshot. *)
LEMMA EffectFinishedType ==
  ASSUME NEW s \in Snapshot, CanStep(s), NEW n \in Effects,
         NEW outcome \in TerminalKind, NEW value \in Value
  PROVE  EffectFinished(s, n, outcome, value) \in Snapshot
<1> DEFINE t == [s EXCEPT
              !.node[n]    = outcome,
              !.outcome[n] = outcome,
              !.value[n]   = IF value = NoValue THEN @ ELSE value,
              !.cleanupFailures = IF Flow[n].cleanup /\ outcome # "succeeded"
                                  THEN @ \cup {n} ELSE @,
              !.active = @ \ {n},
              !.steps  = @ + 1]
<1>1. t \in Snapshot
  BY StepCounts DEF Snapshot, State, Effects, Value
<1>2. {Flow[n].next[outcome]} \in SUBSET Nodes
  BY FlowAssumption DEF NodeOK, Effects
<1> QED
  BY <1>1, <1>2, ActivateType DEF EffectFinished

(* Cancelling the workflow gives a snapshot. *)
LEMMA CancelRequestedType ==
  ASSUME NEW s \in Snapshot, CanStep(s)
  PROVE  CancelRequested(s) \in Snapshot
<1> DEFINE t == Mark(s, NonterminalIn(s, {"pending", "waiting", "running"}), "cancelled")
<1>1. t \in Snapshot /\ t.steps = s.steps
  BY MarkType DEF NonterminalIn, State, TerminalKind, Mark, Snapshot
<1>2. [t EXCEPT !.active = {}, !.steps = @ + 1] \in Snapshot
  BY <1>1, StepCounts DEF Snapshot
<1> QED
  BY <1>2, FlowAssumption, ActivateType DEF CancelRequested

-----------------------------------------------------------------------------
(***************************************************************************)
(* What Mark and Activate leave alone.                                     *)
(***************************************************************************)
(* Mark changes the states of the nodes it is given and no others. *)
LEMMA MarkFields ==
  ASSUME NEW s \in Snapshot, NEW S \in SUBSET Nodes, NEW state \in State
  PROVE  /\ Mark(s, S, state).active = s.active
         /\ \A m \in Nodes : Mark(s, S, state).node[m] = IF m \in S THEN state ELSE s.node[m]
BY DEF Mark, Snapshot

(* activateNode makes pending nodes wait or become active, the latter      *)
(* only when their dependencies are complete.                              *)
LEMMA ActivateFields ==
  ASSUME NEW s \in Snapshot, NEW targets \in SUBSET Nodes
  PROVE  \A m \in Nodes :
           /\ \/ Activate(s, targets).node[m] = s.node[m]
              \/ s.node[m] = "pending" /\ Activate(s, targets).node[m] = "waiting"
           /\ m \in Activate(s, targets).active =>
                m \in s.active \/ DependenciesComplete(s, m)
<1> DEFINE fresh == {n \in targets : s.node[n] = "pending"}
           ready == {n \in fresh : DependenciesComplete(s, n)}
           late == fresh \ ready
           marked == Mark(s, late, "waiting")
<1>1. late \in SUBSET Nodes /\ "waiting" \in State
  BY DEF State
<1> HIDE DEF late
<1>2. marked \in Snapshot
  BY <1>1, MarkType
<1>3. /\ marked.active = s.active
      /\ \A m \in Nodes : marked.node[m] = IF m \in late THEN "waiting" ELSE s.node[m]
  BY <1>1, MarkFields
<1>4. /\ Activate(s, targets).active = s.active \cup ready
      /\ Activate(s, targets).node = marked.node
  BY <1>2, <1>3 DEF Activate, Snapshot, late
<1> QED
  BY <1>3, <1>4 DEF late

-----------------------------------------------------------------------------
(***************************************************************************)
(* An effect that was started does not become unstarted.                   *)
(***************************************************************************)
(* Activating nodes puts back no effect that was started. *)
LEMMA ActivateUnstarted ==
  ASSUME NEW s \in Snapshot, NEW targets \in SUBSET Nodes
  PROVE  Unstarted(Activate(s, targets)) \subseteq Unstarted(s)
BY ActivateFields DEF Unstarted, Effects

(* Nor does marking nodes with a state they can only leave the set by. *)
LEMMA MarkUnstarted ==
  ASSUME NEW s \in Snapshot, NEW S \in SUBSET Nodes, NEW state \in State \ {"pending", "waiting"}
  PROVE  Unstarted(Mark(s, S, state)) \subseteq Unstarted(s)
BY MarkFields DEF Unstarted, Effects

(* Nor does what a terminal does to the other nodes. *)
LEMMA CancelNonterminalUnstarted ==
  ASSUME NEW s \in Snapshot
  PROVE  Unstarted(CancelNonterminal(s)) \subseteq Unstarted(s)
<1>1. \A states : NonterminalIn(s, states) \in SUBSET Nodes
  BY DEF NonterminalIn
<1> QED
  BY <1>1, MarkUnstarted DEF CancelNonterminal, State, TerminalKind

(* Nor does completing a control node. *)
LEMMA CompleteUnstarted ==
  ASSUME NEW s \in Snapshot, NEW n \in Nodes
  PROVE  Unstarted(Complete(s, n)) \subseteq Unstarted(s)
BY DEF Unstarted, Complete, Snapshot, Effects

(* Nor does any iteration of settleControl. *)
LEMMA SettleNodeUnstarted ==
  ASSUME NEW s \in Snapshot, NEW n \in Nodes, Eligible(s, n)
  PROVE  Unstarted(SettleNode(s, n)) \subseteq Unstarted(s)
<1>1. CASE Flow[n].kind = "effect"
  BY <1>1 DEF Eligible, SettleNode, Unstarted, Snapshot, Effects
<1>2. CASE Flow[n].kind = "terminal"
  <2> DEFINE t == [Complete(s, n) EXCEPT !.active = {}, !.status = Flow[n].terminal]
  <2>1. Flow[n].terminal \in State
    BY <1>2, FlowAssumption DEF NodeOK, State
  <2>2. t \in Snapshot /\ t.node = Complete(s, n).node
    BY <2>1, CompleteType DEF Snapshot
  <2>3. Unstarted(t) \subseteq Unstarted(s)
    BY <2>2, CompleteUnstarted DEF Unstarted
  <2> QED
    BY <1>2, <2>2, <2>3, CancelNonterminalUnstarted DEF SettleNode
<1>3. CASE Flow[n].kind \notin {"effect", "terminal"}
  <2>1. Unstarted(Activate(Complete(s, n), Successors(s, n))) \subseteq Unstarted(Complete(s, n))
    BY CompleteType, SuccessorsType, ActivateUnstarted
  <2> QED
    BY <1>3, <2>1, CompleteUnstarted DEF SettleNode
<1> QED
  BY <1>1, <1>2, <1>3

(* Nor does the start event. *)
LEMMA StartUnstarted ==
  ASSUME NEW s \in Snapshot, CanStep(s)
  PROVE  Unstarted(Start(s)) \subseteq Unstarted(s)
<1> DEFINE t == [s EXCEPT !.status = "running", !.steps = @ + 1]
<1>1. {Entry} \in SUBSET Nodes
  BY FlowAssumption DEF Entry, CancelledTerminal, Nodes
<1>2. t \in Snapshot /\ t.node = s.node
  BY StepCounts DEF Snapshot, State
<1> QED
  BY <1>1, <1>2, ActivateUnstarted DEF Start, Unstarted

(* Starting an effect takes it out of the set. *)
LEMMA EffectStartedUnstarted ==
  ASSUME NEW s \in Snapshot, NEW n \in Nodes
  PROVE  Unstarted(EffectStarted(s, n)) \subseteq Unstarted(s) \ {n}
BY DEF EffectStarted, Unstarted, Snapshot, Effects

(* A completion puts no effect back. *)
LEMMA EffectFinishedUnstarted ==
  ASSUME NEW s \in Snapshot, CanStep(s), NEW n \in Effects,
         NEW outcome \in TerminalKind, NEW value \in Value
  PROVE  Unstarted(EffectFinished(s, n, outcome, value)) \subseteq Unstarted(s)
<1> DEFINE t == [s EXCEPT
              !.node[n]    = outcome,
              !.outcome[n] = outcome,
              !.value[n]   = IF value = NoValue THEN @ ELSE value,
              !.cleanupFailures = IF Flow[n].cleanup /\ outcome # "succeeded"
                                  THEN @ \cup {n} ELSE @,
              !.active = @ \ {n},
              !.steps  = @ + 1]
<1>1. t \in Snapshot
  BY StepCounts DEF Snapshot, State, Effects, Value
<1>2. {Flow[n].next[outcome]} \in SUBSET Nodes
  BY FlowAssumption DEF NodeOK, Effects
<1>3. t.node = [s.node EXCEPT ![n] = outcome]
  BY DEF Snapshot
<1>4. Unstarted(t) \subseteq Unstarted(s)
  BY <1>3 DEF Unstarted, Snapshot, Effects, TerminalKind
<1> QED
  BY <1>1, <1>2, <1>4, ActivateUnstarted DEF EffectFinished

(* Nor does cancelling the workflow. *)
LEMMA CancelRequestedUnstarted ==
  ASSUME NEW s \in Snapshot, CanStep(s)
  PROVE  Unstarted(CancelRequested(s)) \subseteq Unstarted(s)
<1> DEFINE m == Mark(s, NonterminalIn(s, {"pending", "waiting", "running"}), "cancelled")
           t == [m EXCEPT !.active = {}, !.steps = @ + 1]
<1>1. m \in Snapshot /\ m.steps = s.steps
  BY MarkType DEF NonterminalIn, State, TerminalKind, Mark, Snapshot
<1>2. t \in Snapshot /\ t.node = m.node
  BY <1>1, StepCounts DEF Snapshot
<1>3. Unstarted(m) \subseteq Unstarted(s)
  BY MarkUnstarted DEF NonterminalIn, State, TerminalKind
<1>4. Unstarted(t) = Unstarted(m) /\ {CancelledTerminal} \in SUBSET Nodes
  BY <1>2, FlowAssumption DEF Unstarted
<1>5. Unstarted(Activate(t, {CancelledTerminal})) \subseteq Unstarted(t)
  BY <1>2, <1>4, ActivateUnstarted
<1> QED
  BY <1>3, <1>4, <1>5 DEF CancelRequested

-----------------------------------------------------------------------------
(***************************************************************************)
(* Dependencies.  Keeps(s, t) is what a step from s to t owes them: no     *)
(* success is taken back, and a node that t shows active, running or run   *)
(* was already so in s or has its dependencies complete in t.              *)
(***************************************************************************)
Started(s, n) ==
  n \in s.active \/ s.node[n] \in {"running", "succeeded", "failed", "timedOut"}

Keeps(s, t) ==
  \A n \in Nodes :
    /\ s.node[n] = "succeeded" => t.node[n] = "succeeded"
    /\ Started(t, n) => Started(s, n) \/ DependenciesComplete(s, n)

(* A step that keeps dependencies leaves them all met. *)
LEMMA KeepsDependencies ==
  ASSUME NEW s \in Snapshot, NEW t \in Snapshot, Keeps(s, t), DependenciesMet(s)
  PROVE  DependenciesMet(t)
<1> SUFFICES ASSUME NEW n \in Nodes, Started(t, n)
             PROVE  DependenciesComplete(t, n)
  BY DEF DependenciesMet, Started
<1>1. DependenciesComplete(s, n)
  BY DEF Keeps, DependenciesMet, Started
<1> QED
  BY <1>1, FlowAssumption DEF Keeps, DependenciesComplete, NodeOK

(* activateNode keeps dependencies. *)
LEMMA ActivateKeeps ==
  ASSUME NEW s \in Snapshot, NEW targets \in SUBSET Nodes
  PROVE  Keeps(s, Activate(s, targets))
BY ActivateFields DEF Keeps, Started

(* Cancelling or blocking nodes that have not succeeded keeps              *)
(* dependencies.                                                           *)
LEMMA MarkKeeps ==
  ASSUME NEW s \in Snapshot, NEW states \in SUBSET {"pending", "waiting", "running"},
         NEW state \in {"cancelled", "blocked"}
  PROVE  Keeps(s, Mark(s, NonterminalIn(s, states), state))
<1>1. NonterminalIn(s, states) \in SUBSET Nodes /\ state \in State
  BY DEF NonterminalIn, State, TerminalKind
<1>2. \A n \in NonterminalIn(s, states) : s.node[n] # "succeeded"
  BY DEF NonterminalIn
<1> QED
  BY <1>1, <1>2, MarkFields DEF Keeps, Started

(* Two steps that keep dependencies, one after the other, leave them met. *)
LEMMA KeepsComposes ==
  ASSUME NEW s \in Snapshot, NEW t \in Snapshot, NEW u \in Snapshot,
         DependenciesMet(s), Keeps(s, t), Keeps(t, u)
  PROVE  DependenciesMet(u)
BY KeepsDependencies

(* cancelNonterminalNodes keeps dependencies. *)
LEMMA CancelNonterminalKeeps ==
  ASSUME NEW s \in Snapshot
  PROVE  Keeps(s, CancelNonterminal(s))
<1>1. Keeps(s, s)
  BY DEF Keeps
<1> QED
  BY <1>1, MarkKeeps DEF CancelNonterminal

(* Completing an eligible control node keeps dependencies. *)
LEMMA CompleteKeeps ==
  ASSUME NEW s \in Snapshot, NEW n \in Nodes, Eligible(s, n)
  PROVE  Keeps(s, Complete(s, n))
BY DEF Keeps, Started, Complete, Eligible, Snapshot

(* An iteration of settleControl leaves every dependency met. *)
LEMMA SettleNodeDependencies ==
  ASSUME NEW s \in Snapshot, NEW n \in Nodes, Eligible(s, n), DependenciesMet(s)
  PROVE  DependenciesMet(SettleNode(s, n))
<1>1. CASE Flow[n].kind = "effect"
  <2>1. DependenciesComplete(s, n)
    BY <1>1 DEF Eligible
  <2>2. Keeps(s, SettleNode(s, n))
    BY <1>1, <2>1 DEF Keeps, Started, SettleNode, Eligible, Snapshot
  <2> QED
    BY <2>2, SettleNodeType, KeepsDependencies
<1>2. CASE Flow[n].kind = "terminal"
  <2> DEFINE t == [Complete(s, n) EXCEPT !.active = {}, !.status = Flow[n].terminal]
  <2>1. Flow[n].terminal \in State
    BY <1>2, FlowAssumption DEF NodeOK, State
  <2>2. t \in Snapshot /\ t.node = Complete(s, n).node /\ t.active = {}
    BY <2>1, CompleteType DEF Snapshot
  <2>3. Keeps(s, t)
    BY <2>2, CompleteKeeps DEF Keeps, Started
  <2> HIDE DEF t
  <2>4. DependenciesMet(CancelNonterminal(t))
    BY <2>2, <2>3, CancelNonterminalKeeps, CancelNonterminalType, KeepsComposes
  <2> QED
    BY <1>2, <2>4 DEF SettleNode, t
<1>3. CASE Flow[n].kind \notin {"effect", "terminal"}
  <2>1. /\ Complete(s, n) \in Snapshot /\ Keeps(s, Complete(s, n))
        /\ Successors(s, n) \in SUBSET Nodes
    BY CompleteType, CompleteKeeps, SuccessorsType
  <2>2. DependenciesMet(Activate(Complete(s, n), Successors(s, n)))
    BY <2>1, ActivateType, ActivateKeeps, KeepsComposes
  <2> QED
    BY <1>3, <2>2 DEF SettleNode
<1> QED
  BY <1>1, <1>2, <1>3

(* In a new snapshot nothing is active or has run. *)
LEMMA NewSnapshotDependencies == DependenciesMet(NewSnapshot)
BY DEF DependenciesMet, NewSnapshot

(* The start event leaves every dependency met. *)
LEMMA StartDependencies ==
  ASSUME NEW s \in Snapshot, CanStep(s), DependenciesMet(s)
  PROVE  DependenciesMet(Start(s))
<1> DEFINE t == [s EXCEPT !.status = "running", !.steps = @ + 1]
<1>1. {Entry} \in SUBSET Nodes
  BY FlowAssumption DEF Entry, CancelledTerminal, Nodes
<1>2. t \in Snapshot /\ t.node = s.node /\ t.active = s.active
  BY StepCounts DEF Snapshot, State
<1>3. Keeps(s, t)
  BY <1>2 DEF Keeps, Started
<1> HIDE DEF t
<1>4. DependenciesMet(Activate(t, {Entry}))
  BY <1>1, <1>2, <1>3, ActivateType, ActivateKeeps, KeepsComposes
<1> QED
  BY <1>4 DEF Start, t

(* So does starting an active effect. *)
LEMMA EffectStartedDependencies ==
  ASSUME NEW s \in Snapshot, CanStep(s), NEW n \in Nodes, n \in s.active, s.node[n] = "pending",
         DependenciesMet(s)
  PROVE  DependenciesMet(EffectStarted(s, n))
<1>1. Keeps(s, EffectStarted(s, n))
  BY DEF Keeps, Started, EffectStarted, Snapshot
<1> QED
  BY <1>1, EffectStartedType, KeepsDependencies

(* So does the completion of a running effect. *)
LEMMA EffectFinishedDependencies ==
  ASSUME NEW s \in Snapshot, CanStep(s), NEW n \in Effects, s.node[n] = "running",
         NEW outcome \in TerminalKind, NEW value \in Value, DependenciesMet(s)
  PROVE  DependenciesMet(EffectFinished(s, n, outcome, value))
<1> DEFINE t == [s EXCEPT
              !.node[n]    = outcome,
              !.outcome[n] = outcome,
              !.value[n]   = IF value = NoValue THEN @ ELSE value,
              !.cleanupFailures = IF Flow[n].cleanup /\ outcome # "succeeded"
                                  THEN @ \cup {n} ELSE @,
              !.active = @ \ {n},
              !.steps  = @ + 1]
<1>1. t \in Snapshot
  BY StepCounts DEF Snapshot, State, Effects, Value
<1>2. {Flow[n].next[outcome]} \in SUBSET Nodes
  BY FlowAssumption DEF NodeOK, Effects
<1>3. t.node = [s.node EXCEPT ![n] = outcome] /\ t.active = s.active \ {n}
  BY DEF Snapshot
<1>4. Keeps(s, t)
  BY <1>3 DEF Keeps, Started, Snapshot, Effects
<1> HIDE DEF t
<1>5. DependenciesMet(Activate(t, {Flow[n].next[outcome]}))
  BY <1>1, <1>2, <1>4, ActivateType, ActivateKeeps, KeepsComposes
<1> QED
  BY <1>5 DEF EffectFinished, t

(* So does cancelling the workflow. *)
LEMMA CancelRequestedDependencies ==
  ASSUME NEW s \in Snapshot, CanStep(s), DependenciesMet(s)
  PROVE  DependenciesMet(CancelRequested(s))
<1> DEFINE m == Mark(s, NonterminalIn(s, {"pending", "waiting", "running"}), "cancelled")
           t == [m EXCEPT !.active = {}, !.steps = @ + 1]
<1>1. m \in Snapshot /\ m.steps = s.steps
  BY MarkType DEF NonterminalIn, State, TerminalKind, Mark, Snapshot
<1>2. t \in Snapshot /\ t.node = m.node /\ t.active = {}
  BY <1>1, StepCounts DEF Snapshot
<1>3. Keeps(s, m)
  BY MarkKeeps
<1>4. Keeps(s, t)
  BY <1>2, <1>3 DEF Keeps, Started
<1>5. {CancelledTerminal} \in SUBSET Nodes
  BY FlowAssumption
<1> HIDE DEF m, t
<1>6. DependenciesMet(Activate(t, {CancelledTerminal}))
  BY <1>2, <1>4, <1>5, ActivateType, ActivateKeeps, KeepsComposes
<1> QED
  BY <1>6 DEF CancelRequested, m, t

-----------------------------------------------------------------------------
(***************************************************************************)
(* Starting an effect gives settleControl nothing to do, which is why the  *)
(* executor's Launch is one step.                                          *)
(***************************************************************************)
(* After effectStarted no control node is eligible that was not before. *)
LEMMA EffectStartedSettled ==
  ASSUME NEW s \in Snapshot, NEW n \in Effects, s.node[n] = "pending", Settled(s)
  PROVE  Settled(EffectStarted(s, n))
<1> SUFFICES ASSUME NEW m \in Nodes, Eligible(EffectStarted(s, n), m)
             PROVE  FALSE
  BY DEF Settled
<1>1. /\ EffectStarted(s, n).node = [s.node EXCEPT ![n] = "running"]
      /\ EffectStarted(s, n).active = s.active
  BY DEF EffectStarted, Snapshot
<1>2. m # n
  BY <1>1 DEF Eligible, Snapshot, Effects
<1>3. DependenciesComplete(EffectStarted(s, n), m) => DependenciesComplete(s, m)
  BY <1>1, FlowAssumption DEF DependenciesComplete, NodeOK, Snapshot, Effects
<1>4. Eligible(s, m)
  BY <1>1, <1>2, <1>3 DEF Eligible, Snapshot, Effects
<1> QED
  BY <1>4 DEF Settled

(* In a new snapshot no control node is eligible. *)
LEMMA NewSnapshotSettled == Settled(NewSnapshot)
BY DEF Settled, Eligible, NewSnapshot

(* The status of a snapshot, which RunFlow sets by itself on errors, is    *)
(* independent of all of this.                                             *)
LEMMA StatusIsApart ==
  ASSUME NEW s \in Snapshot, NEW status \in State
  PROVE  LET t == [s EXCEPT !.status = status]
         IN /\ t \in Snapshot /\ t.active = s.active /\ t.node = s.node
            /\ Unstarted(t) = Unstarted(s)
            /\ Settled(t) <=> Settled(s)
            /\ DependenciesMet(t) <=> DependenciesMet(s)
<1> DEFINE t == [s EXCEPT !.status = status]
<1>1. t \in Snapshot /\ t.active = s.active /\ t.node = s.node
  BY DEF Snapshot
<1> HIDE DEF t
<1>2. \A n \in Nodes : DependenciesComplete(t, n) <=> DependenciesComplete(s, n)
  BY <1>1 DEF DependenciesComplete
<1>3. Settled(t) <=> Settled(s)
  BY <1>1, <1>2 DEF Settled, Eligible
<1>4. DependenciesMet(t) <=> DependenciesMet(s)
  BY <1>1, <1>2 DEF DependenciesMet
<1>5. Unstarted(t) = Unstarted(s)
  BY <1>1 DEF Unstarted
<1> QED
  BY <1>1, <1>3, <1>4, <1>5 DEF t

-----------------------------------------------------------------------------

(***************************************************************************)
(* The inductive invariant: the properties to prove, and what they rest on *)
(* at the coordinator's other positions.                                   *)
(***************************************************************************)
(* A completion is in the channel or in the batch once its goroutine has   *)
(* sent it.                                                                *)
CompletionsWereSent == \A n \in channel \cup batch : task[n] \in {"sent", "ended"}

(* An effect the machine has not seen started has no goroutine; while an   *)
(* event is being settled this holds of the snapshot to fall back to, too. *)
UnstartedIsIdle ==
  /\ \A n \in Unstarted(snap) : task[n] = "idle"
  /\ pc = "settle" => \A n \in Unstarted(prior) : task[n] = "idle"

(* A batch exists only while it is being applied. *)
BatchIsBeingApplied ==
  batch # {} => \/ pc = "apply"
                \/ pc = "settle" /\ event \in {"finish", "cancelEffect"}

(* Nothing runs where RunFlow can return next.                             *)
NothingRunsAtTheEnds ==
  /\ pc \in {"start", "report", "done"} => running = {}
  /\ pc = "settle" /\ event \in {"start", "cancelFlow"} => running = {}

(* Launching leaves the captured effects active. *)
TodoIsActive == pc = "launch" => todo \subseteq snap.active

(* The snapshot Step falls back to is as good as one between two events.   *)
PriorIsSettled == pc = "settle" => Settled(prior) /\ DependenciesMet(prior)

StartsFresh == pc = "start" => snap = NewSnapshot

IInv ==
  /\ TypeOK
  /\ StartsFresh
  /\ RunningIsAccountedFor
  /\ CompletionsWereSent
  /\ UnstartedIsIdle
  /\ BatchIsBeingApplied
  /\ NothingRunsAtTheEnds
  /\ TodoIsActive
  /\ DependenciesHold
  /\ LaunchIsSettled
  /\ PriorIsSettled

(* The initial state satisfies the inductive invariant. *)
LEMMA InitIInv == Init => IInv
<1> SUFFICES ASSUME Init PROVE IInv
  OBVIOUS
<1>1. snap \in Snapshot /\ prior \in Snapshot
  BY NewSnapshotType DEF Init
<1>2. /\ 0 \in 0..Len(Flow) /\ NoValue \in Value
      /\ report \in [Nodes -> Completion] /\ task \in [Nodes -> TaskState]
  BY FlowAssumption DEF Init, TaskState, Completion, Value
<1>3. TypeOK
  BY <1>1, <1>2 DEF Init, TypeOK, Position, Event, State
<1>4. RunningIsAccountedFor
  BY DEF Init, RunningIsAccountedFor, InFlight
<1>5. DependenciesHold
  BY NewSnapshotDependencies DEF Init, DependenciesHold
<1> QED
  BY <1>3, <1>4, <1>5
  DEF Init, IInv, StartsFresh, CompletionsWereSent, UnstartedIsIdle, BatchIsBeingApplied,
      NothingRunsAtTheEnds, TodoIsActive, LaunchIsSettled, PriorIsSettled, Unstarted, Effects

-----------------------------------------------------------------------------
(***************************************************************************)
(* Steps of the coordinator between two events.                            *)
(***************************************************************************)
(* Leaving the loop, its rounds and its waits preserves the invariant.     *)
LEMMA RoundsIInv ==
  ASSUME IInv,
         LeaveLoop \/ BeginRound \/ EndApply \/ EndStep \/ ReportResult \/ CancelContext
  PROVE  IInv'
<1> USE DEF IInv, TypeOK, StartsFresh, RunningIsAccountedFor, CompletionsWereSent,
            UnstartedIsIdle, BatchIsBeingApplied, NothingRunsAtTheEnds, TodoIsActive,
            DependenciesHold, LaunchIsSettled, PriorIsSettled, InFlight,
            machineVars, loopVars, taskVars, Position
<1>1. CASE LeaveLoop
  BY <1>1 DEF LeaveLoop
<1>2. CASE BeginRound
  BY <1>2 DEF BeginRound, ActiveEffects
<1>3. CASE EndApply
  BY <1>3 DEF EndApply
<1>4. CASE EndStep
  BY <1>4 DEF EndStep, Event
<1>5. CASE ReportResult
  BY <1>5 DEF ReportResult, Snapshot
<1>6. CASE CancelContext
  BY <1>6 DEF CancelContext
<1> QED
  BY <1>1, <1>2, <1>3, <1>4, <1>5, <1>6

(* Receiving moves the completions from the channel to the batch. *)
LEMMA CollectIInv ==
  ASSUME IInv, Collect
  PROVE  IInv'
<1>1. batch = {}
  BY DEF IInv, BatchIsBeingApplied, Collect
<1>2. /\ pc = "collect" /\ pc' = "apply" /\ batch' = channel /\ channel' = {}
      /\ UNCHANGED <<snap, prior, event, scan, todo, running, task, starved, report,
                     cancelled, verdict>>
  BY DEF Collect, machineVars
<1>3. TypeOK'
  BY <1>2 DEF IInv, TypeOK, Position
<1>4. RunningIsAccountedFor'
  <2>1. running = InFlight \cup channel /\ InFlight \cap channel = {} /\ InFlight' = InFlight
    BY <1>1, <1>2 DEF IInv, RunningIsAccountedFor, InFlight
  <2> QED
    BY <2>1, <1>2 DEF RunningIsAccountedFor
<1>5. CompletionsWereSent'
  BY <1>2 DEF IInv, CompletionsWereSent
<1>6. UnstartedIsIdle' /\ DependenciesHold' /\ LaunchIsSettled'
  BY <1>2 DEF IInv, UnstartedIsIdle, DependenciesHold, LaunchIsSettled
<1>7. StartsFresh' /\ TodoIsActive' /\ PriorIsSettled'
  BY <1>2 DEF StartsFresh, TodoIsActive, PriorIsSettled
<1>8. BatchIsBeingApplied' /\ NothingRunsAtTheEnds'
  BY <1>2 DEF BatchIsBeingApplied, NothingRunsAtTheEnds
<1> QED
  BY <1>3, <1>4, <1>5, <1>6, <1>7, <1>8 DEF IInv

(* Ending the launch loop and not launching preserve the invariant: they   *)
(* change no more of the snapshot than its status.                         *)
LEMMA NoLaunchIInv ==
  ASSUME IInv, NEW n \in Nodes, SkipLaunch(n) \/ RefuseLaunch(n) \/ EndRound
  PROVE  IInv'
<1>1. /\ pc = "launch" /\ todo' \subseteq todo
      /\ snap' = snap \/ snap' = [snap EXCEPT !.status = "failed"]
      /\ pc' = "launch" \/ pc' = "collect" \/ (pc' = "report" /\ running = {})
      /\ UNCHANGED <<prior, event, scan, running, batch, task, starved, report, channel,
                     cancelled, verdict>>
  BY DEF SkipLaunch, RefuseLaunch, EndRound, machineVars, loopVars, taskVars
<1>2. snap \in Snapshot /\ "failed" \in State
  BY DEF IInv, TypeOK, State, TerminalKind
<1>3. /\ snap' \in Snapshot /\ snap'.active = snap.active
      /\ Unstarted(snap') = Unstarted(snap)
      /\ Settled(snap') <=> Settled(snap)
      /\ DependenciesMet(snap') <=> DependenciesMet(snap)
  <2>1. CASE snap' = snap
    BY <1>2, <2>1
  <2>2. CASE snap' = [snap EXCEPT !.status = "failed"]
    BY <1>2, <2>2, StatusIsApart
  <2> QED
    BY <1>1, <2>1, <2>2
<1>4. TypeOK'
  BY <1>1, <1>3 DEF IInv, TypeOK, Position
<1>5. RunningIsAccountedFor' /\ CompletionsWereSent'
  BY <1>1 DEF IInv, RunningIsAccountedFor, CompletionsWereSent, InFlight
<1> QED
  BY <1>1, <1>3, <1>4, <1>5
  DEF IInv, StartsFresh, UnstartedIsIdle, BatchIsBeingApplied, NothingRunsAtTheEnds,
      TodoIsActive, DependenciesHold, LaunchIsSettled, PriorIsSettled

(* Launching an effect preserves the invariant. *)
LEMMA LaunchIInv ==
  ASSUME IInv, NEW n \in Nodes, Launch(n)
  PROVE  IInv'
<1>1. /\ pc = "launch" /\ n \in todo /\ snap.node[n] = "pending" /\ CanStep(snap)
      /\ snap' = EffectStarted(snap, n)
      /\ running' = running \cup {n}
      /\ task' = [task EXCEPT ![n] = "queued"]
      /\ starved' \in {starved, starved \cup {n}}
      /\ todo' = todo \ {n}
      /\ UNCHANGED <<pc, prior, event, scan, batch, report, channel, cancelled, verdict>>
  BY DEF Launch, IsFirst
<1>2. snap \in Snapshot /\ n \in Effects /\ n \in snap.active /\ task \in [Nodes -> TaskState]
  BY <1>1 DEF IInv, TypeOK, TodoIsActive
<1>3. task[n] = "idle"
  BY <1>1, <1>2 DEF IInv, UnstartedIsIdle, Unstarted
<1>4. TypeOK'
  <2>1. snap' \in Snapshot
    BY <1>1, <1>2, EffectStartedType
  <2>2. task' \in [Nodes -> TaskState]
    BY <1>1, <1>2 DEF TaskState
  <2> QED
    BY <1>1, <1>2, <2>1, <2>2 DEF IInv, TypeOK
<1>5. n \notin channel \cup batch
  BY <1>3 DEF IInv, CompletionsWereSent
<1>6. RunningIsAccountedFor'
  <2>1. InFlight' = InFlight \cup {n}
    BY <1>1, <1>2 DEF InFlight
  <2> QED
    BY <1>1, <1>5, <2>1 DEF IInv, RunningIsAccountedFor
<1>7. CompletionsWereSent'
  BY <1>1, <1>2, <1>5 DEF IInv, TypeOK, CompletionsWereSent, Effects
<1>8. UnstartedIsIdle'
  <2>1. Unstarted(snap') \subseteq Unstarted(snap) \ {n}
    BY <1>1, <1>2, EffectStartedUnstarted
  <2> QED
    BY <1>1, <1>2, <2>1 DEF IInv, UnstartedIsIdle, Unstarted, Effects
<1>9. snap'.active = snap.active
  BY <1>1, <1>2 DEF EffectStarted, Snapshot
<1>10. DependenciesHold'
  BY <1>1, <1>2, EffectStartedDependencies DEF IInv, DependenciesHold
<1>11. LaunchIsSettled'
  BY <1>1, <1>2, EffectStartedSettled DEF IInv, LaunchIsSettled
<1> QED
  BY <1>1, <1>4, <1>6, <1>7, <1>8, <1>9, <1>10, <1>11
  DEF IInv, StartsFresh, BatchIsBeingApplied, NothingRunsAtTheEnds, TodoIsActive, PriorIsSettled

-----------------------------------------------------------------------------
(***************************************************************************)
(* Steps of the goroutines.                                                *)
(***************************************************************************)
(* A goroutine that sends its completion leaves the effects in flight and  *)
(* enters the channel; one that takes or releases its slot does neither.   *)
LEMMA GoroutineIInv ==
  ASSUME IInv, NEW n \in Nodes, EffectGoroutine(n)
  PROVE  IInv'
<1>1. /\ task[n] # "idle"
      /\ task' \in {[task EXCEPT ![n] = s] : s \in TaskState \ {"idle"}}
      /\ UNCHANGED <<pc, snap, prior, event, scan, todo, running, batch, starved, cancelled,
                     verdict>>
  BY DEF EffectGoroutine, AcquireSlot, GiveUp, RunEffect, ReleaseSlot, TaskState,
         machineVars, loopVars
<1>2. task \in [Nodes -> TaskState]
  BY DEF IInv, TypeOK
<1>3. \/ /\ n \in InFlight /\ InFlight' = InFlight \ {n} /\ channel' = channel \cup {n}
         /\ task'[n] \in {"sent", "ended"}
         /\ \E completion \in Completion : report' = [report EXCEPT ![n] = completion]
      \/ /\ InFlight' = InFlight /\ channel' = channel /\ report' = report
         /\ task[n] \in {"sent", "ended"} => task'[n] \in {"sent", "ended"}
  <2>1. CASE AcquireSlot(n)
    BY <2>1, <1>2 DEF AcquireSlot, InFlight
  <2>2. CASE GiveUp(n)
    BY <2>2, <1>2 DEF GiveUp, Send, InFlight, Completion, Value
  <2>3. CASE RunEffect(n)
    BY <2>3, <1>2 DEF RunEffect, Send, InFlight
  <2>4. CASE ReleaseSlot(n)
    BY <2>4, <1>2 DEF ReleaseSlot, InFlight
  <2> QED
    BY <2>1, <2>2, <2>3, <2>4 DEF EffectGoroutine
<1>4. n \in InFlight => n \in Effects /\ n \notin channel \cup batch
  BY DEF IInv, TypeOK, RunningIsAccountedFor
<1>5. TypeOK'
  <2>1. task' \in [Nodes -> TaskState]
    BY <1>1, <1>2
  <2>2. channel' \subseteq Effects /\ report' \in [Nodes -> Completion]
    BY <1>3, <1>4 DEF IInv, TypeOK
  <2> QED
    BY <1>1, <2>1, <2>2 DEF IInv, TypeOK
<1>6. RunningIsAccountedFor'
  BY <1>1, <1>3, <1>4 DEF IInv, RunningIsAccountedFor
<1>7. CompletionsWereSent'
  <2>1. \A m \in Nodes \ {n} : task'[m] = task[m]
    BY <1>1, <1>2
  <2> QED
    BY <1>1, <1>3, <2>1 DEF IInv, TypeOK, CompletionsWereSent, Effects
<1>8. UnstartedIsIdle'
  <2>1. \A m \in Nodes : task[m] = "idle" => task'[m] = "idle"
    BY <1>1, <1>2
  <2> QED
    BY <1>1, <2>1 DEF IInv, UnstartedIsIdle, Unstarted, Effects
<1> QED
  BY <1>1, <1>5, <1>6, <1>7, <1>8
  DEF IInv, StartsFresh, BatchIsBeingApplied, NothingRunsAtTheEnds, TodoIsActive,
      DependenciesHold, LaunchIsSettled, PriorIsSettled

-----------------------------------------------------------------------------
(***************************************************************************)
(* Steps of the machine.                                                   *)
(***************************************************************************)
(* One iteration of settleControl preserves the invariant, also when it    *)
(* fails and Step gives back the snapshot it was called with.              *)
LEMMA SettleIInv ==
  ASSUME IInv, NEW n \in Nodes, Settle(n)
  PROVE  IInv'
<1>1. /\ pc = "settle" /\ Eligible(snap, n) /\ snap \in Snapshot /\ prior \in Snapshot
      /\ UNCHANGED <<prior, event, todo, running, batch, task, starved, report, channel, cancelled>>
  BY DEF Settle, SettlesNext, IInv, TypeOK, loopVars, taskVars
<1>2. RunningIsAccountedFor' /\ CompletionsWereSent'
  BY <1>1 DEF IInv, RunningIsAccountedFor, CompletionsWereSent, InFlight
<1>3. CASE /\ FailStep(event, prior)
           /\ UNCHANGED scan
  <2>1. /\ snap' = prior \/ snap' = [prior EXCEPT !.status = "failed"]
        /\ \/ pc' = "done" /\ event = "start"
           \/ pc' = "report" /\ event = "cancelFlow"
           \/ pc' = "apply" /\ event \in {"finish", "cancelEffect"}
        /\ verdict' \in {"failed", verdict}
    BY <1>3 DEF FailStep, IInv, TypeOK, Event
  <2>2. /\ snap' \in Snapshot
        /\ Unstarted(snap') = Unstarted(prior)
        /\ Settled(snap') <=> Settled(prior)
        /\ DependenciesMet(snap') <=> DependenciesMet(prior)
    <3>1. CASE snap' = prior
      BY <1>1, <3>1
    <3>2. CASE snap' = [prior EXCEPT !.status = "failed"]
      BY <1>1, <3>2, StatusIsApart DEF State, TerminalKind
    <3> QED
      BY <2>1, <3>1, <3>2
  <2>3. TypeOK'
    BY <1>1, <1>3, <2>1, <2>2 DEF IInv, TypeOK, Position, State, TerminalKind
  <2>4. UnstartedIsIdle' /\ DependenciesHold' /\ LaunchIsSettled'
    BY <1>1, <2>1, <2>2
    DEF IInv, UnstartedIsIdle, DependenciesHold, LaunchIsSettled, PriorIsSettled
  <2>5. BatchIsBeingApplied' /\ NothingRunsAtTheEnds'
    BY <1>1, <2>1 DEF IInv, BatchIsBeingApplied, NothingRunsAtTheEnds
  <2> QED
    BY <1>2, <2>1, <2>3, <2>4, <2>5 DEF IInv, StartsFresh, TodoIsActive, PriorIsSettled
<1>4. CASE /\ snap' = SettleNode(snap, n)
           /\ scan' = n
           /\ UNCHANGED <<pc, verdict>>
  <2>1. TypeOK'
    BY <1>1, <1>4, SettleNodeType, FlowAssumption DEF IInv, TypeOK, Nodes
  <2>2. UnstartedIsIdle'
    BY <1>1, <1>4, SettleNodeUnstarted DEF IInv, UnstartedIsIdle
  <2>3. DependenciesHold'
    BY <1>1, <1>4, SettleNodeDependencies DEF IInv, DependenciesHold
  <2>4. BatchIsBeingApplied' /\ NothingRunsAtTheEnds' /\ PriorIsSettled'
    BY <1>1, <1>4 DEF IInv, BatchIsBeingApplied, NothingRunsAtTheEnds, PriorIsSettled
  <2> QED
    BY <1>1, <1>2, <1>4, <2>1, <2>2, <2>3, <2>4
    DEF IInv, StartsFresh, TodoIsActive, LaunchIsSettled
<1> QED
  BY <1>3, <1>4 DEF Settle

(* What it takes for an event to begin: a snapshot as good as the one it   *)
(* replaces, and no batch or running effect where the event allows none.   *)
LEMMA BeginStepIInv ==
  ASSUME IInv, NEW kind \in Event, NEW next \in Snapshot, BeginStep(kind, next),
         Unstarted(next) \subseteq Unstarted(snap), DependenciesMet(next), Settled(snap),
         UNCHANGED <<todo, task, starved, report, channel, cancelled, verdict>>,
         running' \subseteq running, batch' \subseteq batch, RunningIsAccountedFor',
         kind \in {"start", "cancelFlow"} => running' = {} /\ batch' = {}
  PROVE  IInv'
<1>1. /\ pc' = "settle" /\ event' = kind /\ prior' = snap /\ snap' = next /\ scan' = 0
  BY DEF BeginStep
<1>2. TypeOK'
  BY <1>1, FlowAssumption DEF IInv, TypeOK, Position
<1>3. CompletionsWereSent'
  BY DEF IInv, CompletionsWereSent
<1>4. UnstartedIsIdle'
  BY <1>1 DEF IInv, UnstartedIsIdle
<1>5. BatchIsBeingApplied' /\ NothingRunsAtTheEnds'
  BY <1>1 DEF BatchIsBeingApplied, NothingRunsAtTheEnds, Event
<1>6. DependenciesHold' /\ PriorIsSettled'
  BY <1>1 DEF IInv, DependenciesHold, PriorIsSettled
<1> QED
  BY <1>1, <1>2, <1>3, <1>4, <1>5, <1>6 DEF IInv, StartsFresh, TodoIsActive, LaunchIsSettled

(* Starting the workflow preserves the invariant. *)
LEMMA StartFlowIInv ==
  ASSUME IInv, StartFlow
  PROVE  IInv'
<1>1. /\ pc = "start" /\ snap = NewSnapshot /\ snap \in Snapshot /\ running = {} /\ batch = {}
      /\ BeginStep("start", Start(snap))
      /\ UNCHANGED <<todo, running, batch, task, starved, report, channel, cancelled, verdict>>
  BY DEF StartFlow, IInv, TypeOK, StartsFresh, NothingRunsAtTheEnds, BatchIsBeingApplied,
         loopVars, taskVars
<1>2. CanStep(snap)
  BY <1>1, StepLimitAssumption DEF CanStep, NewSnapshot
<1>3. /\ Start(snap) \in Snapshot
      /\ Unstarted(Start(snap)) \subseteq Unstarted(snap)
      /\ DependenciesMet(Start(snap))
  BY <1>1, <1>2, StartType, StartUnstarted, StartDependencies DEF IInv, DependenciesHold
<1>4. Settled(snap) /\ RunningIsAccountedFor'
  BY <1>1, NewSnapshotSettled DEF IInv, RunningIsAccountedFor, InFlight
<1> QED
  BY <1>1, <1>3, <1>4, BeginStepIInv DEF Event

(* Cancelling the workflow preserves the invariant, and so does having no  *)
(* step left to cancel it with.                                            *)
LEMMA CancelFlowIInv ==
  ASSUME IInv, CancelFlow
  PROVE  IInv'
<1>1. /\ pc = "loop" /\ snap \in Snapshot /\ running = {} /\ batch = {}
      /\ Settled(snap) /\ DependenciesMet(snap)
      /\ UNCHANGED <<todo, running, batch, task, starved, report, channel, cancelled>>
  BY DEF CancelFlow, NothingLeftToCancel, IInv, TypeOK, BatchIsBeingApplied, LaunchIsSettled,
         DependenciesHold, loopVars, taskVars
<1>2. RunningIsAccountedFor'
  BY <1>1 DEF IInv, RunningIsAccountedFor, InFlight
<1>3. CASE CanStep(snap) /\ BeginStep("cancelFlow", CancelRequested(snap)) /\ UNCHANGED verdict
  <2>1. /\ CancelRequested(snap) \in Snapshot
        /\ Unstarted(CancelRequested(snap)) \subseteq Unstarted(snap)
        /\ DependenciesMet(CancelRequested(snap))
    BY <1>1, <1>3, CancelRequestedType, CancelRequestedUnstarted, CancelRequestedDependencies
  <2> QED
    BY <1>1, <1>2, <1>3, <2>1, BeginStepIInv DEF Event
<1>4. CASE FailStep("cancelFlow", snap) /\ UNCHANGED <<prior, event, scan>>
  <2>1. snap' = snap /\ pc' = "report" /\ verdict' = verdict
    BY <1>4 DEF FailStep
  <2>2. TypeOK' /\ CompletionsWereSent'
    BY <1>1, <1>4, <2>1 DEF IInv, TypeOK, CompletionsWereSent, Position
  <2>3. UnstartedIsIdle' /\ DependenciesHold' /\ LaunchIsSettled'
    BY <1>1, <2>1 DEF IInv, UnstartedIsIdle, DependenciesHold, LaunchIsSettled
  <2> QED
    BY <1>1, <1>2, <2>1, <2>2, <2>3
    DEF IInv, StartsFresh, BatchIsBeingApplied, NothingRunsAtTheEnds, TodoIsActive, PriorIsSettled
<1> QED
  BY <1>3, <1>4 DEF CancelFlow

(* Applying a completion preserves the invariant, whether the machine      *)
(* accepts its event, refuses it or is not asked.                          *)
LEMMA ApplyCompletionIInv ==
  ASSUME IInv, NEW n \in Nodes, ApplyCompletion(n)
  PROVE  IInv'
<1> DEFINE outcome == OutcomeOf(n)
           kind == IF outcome = "cancelled" /\ snap.status = "running"
                   THEN "cancelEffect" ELSE "finish"
<1>1. /\ pc = "apply" /\ n \in batch /\ batch' = batch \ {n} /\ running' = running \ {n}
      /\ UNCHANGED <<todo, task, starved, report, channel, cancelled>>
  BY DEF ApplyCompletion, IsFirst, taskVars
<1>2. /\ snap \in Snapshot /\ n \in Effects /\ report[n] \in Completion
      /\ Settled(snap) /\ DependenciesMet(snap)
  BY <1>1 DEF IInv, TypeOK, LaunchIsSettled, DependenciesHold
<1>3. outcome \in TerminalKind /\ report[n].value \in Value
  BY <1>2 DEF OutcomeOf, Completion, TerminalKind
<1>4. RunningIsAccountedFor'
  <2>1. InFlight' = InFlight
    BY <1>1 DEF InFlight
  <2> QED
    BY <1>1, <2>1 DEF IInv, RunningIsAccountedFor
<1>5. kind \in {"finish", "cancelEffect"}
  OBVIOUS
<1> HIDE DEF outcome, kind
<1>6. CASE /\ snap.node[n] = "running" /\ CanStep(snap)
           /\ BeginStep(kind, EffectFinished(snap, n, outcome, report[n].value))
           /\ UNCHANGED verdict
  <2> DEFINE next == EffectFinished(snap, n, outcome, report[n].value)
  <2>1. /\ next \in Snapshot
        /\ Unstarted(next) \subseteq Unstarted(snap)
        /\ DependenciesMet(next)
    BY <1>2, <1>3, <1>6, EffectFinishedType, EffectFinishedUnstarted, EffectFinishedDependencies
  <2> HIDE DEF next
  <2>2. BeginStep(kind, next) /\ kind \in Event
    BY <1>5, <1>6 DEF Event, next
  <2> QED
    BY <1>1, <1>2, <1>4, <1>5, <1>6, <2>1, <2>2, BeginStepIInv
<1>7. CASE /\ FailStep(kind, snap) \/ UNCHANGED <<pc, snap, verdict>>
           /\ UNCHANGED <<prior, event, scan>>
  <2>1. /\ snap' = snap \/ snap' = [snap EXCEPT !.status = "failed"]
        /\ pc' = "apply" /\ verdict' = verdict
    BY <1>1, <1>5, <1>7 DEF FailStep
  <2>2. /\ snap' \in Snapshot
        /\ Unstarted(snap') = Unstarted(snap)
        /\ Settled(snap') <=> Settled(snap)
        /\ DependenciesMet(snap') <=> DependenciesMet(snap)
    <3>1. CASE snap' = snap
      BY <1>2, <3>1
    <3>2. CASE snap' = [snap EXCEPT !.status = "failed"]
      BY <1>2, <3>2, StatusIsApart DEF State, TerminalKind
    <3> QED
      BY <2>1, <3>1, <3>2
  <2>3. TypeOK' /\ CompletionsWereSent'
    BY <1>1, <1>7, <2>1, <2>2 DEF IInv, TypeOK, CompletionsWereSent, Position
  <2>4. UnstartedIsIdle' /\ DependenciesHold' /\ LaunchIsSettled'
    BY <1>1, <2>1, <2>2 DEF IInv, UnstartedIsIdle, DependenciesHold, LaunchIsSettled
  <2> QED
    BY <1>1, <1>4, <2>1, <2>3, <2>4
    DEF IInv, StartsFresh, BatchIsBeingApplied, NothingRunsAtTheEnds, TodoIsActive, PriorIsSettled
<1> QED
  BY <1>6, <1>7 DEF ApplyCompletion, outcome, kind, machineVars

-----------------------------------------------------------------------------
(* Every step preserves the inductive invariant. *)
LEMMA NextIInv == IInv /\ [Next]_vars => IInv'
<1> SUFFICES ASSUME IInv, [Next]_vars PROVE IInv'
  OBVIOUS
<1>1. CASE Coordinator
  <2>1. CASE StartFlow
    BY <2>1, StartFlowIInv
  <2>2. CASE CancelFlow
    BY <2>2, CancelFlowIInv
  <2>3. CASE LeaveLoop \/ BeginRound \/ EndApply \/ EndStep \/ ReportResult
    BY <2>3, RoundsIInv
  <2>4. CASE EndRound
    BY <2>4, NoLaunchIInv, FlowAssumption
  <2>5. CASE Collect
    BY <2>5, CollectIInv
  <2>6. CASE \E n \in Nodes : \/ Settle(n) \/ Launch(n) \/ SkipLaunch(n)
                              \/ RefuseLaunch(n) \/ ApplyCompletion(n)
    BY <2>6, SettleIInv, LaunchIInv, NoLaunchIInv, ApplyCompletionIInv
  <2> QED
    BY <1>1, <2>1, <2>2, <2>3, <2>4, <2>5, <2>6 DEF Coordinator
<1>2. CASE \E n \in Nodes : EffectGoroutine(n)
  BY <1>2, GoroutineIInv
<1>3. CASE CancelContext
  BY <1>3, RoundsIInv
<1>4. CASE UNCHANGED vars
  <2>1. UNCHANGED <<pc, snap, prior, event, scan, todo, running, batch, task, starved, report,
                    channel, cancelled, verdict>>
    BY <1>4 DEF vars, machineVars, loopVars, taskVars
  <2>2. TypeOK' /\ StartsFresh' /\ RunningIsAccountedFor' /\ CompletionsWereSent' /\ UnstartedIsIdle'
    BY <2>1 DEF IInv, TypeOK, StartsFresh, RunningIsAccountedFor, InFlight, CompletionsWereSent,
                UnstartedIsIdle
  <2> QED
    BY <2>1, <2>2
    DEF IInv, BatchIsBeingApplied, NothingRunsAtTheEnds, TodoIsActive, DependenciesHold,
        LaunchIsSettled, PriorIsSettled
<1> QED
  BY <1>1, <1>2, <1>3, <1>4 DEF Next, Returned

(* The inductive invariant holds in every reachable state. *)
THEOREM Invariance == Spec => []IInv
BY InitIInv, NextIInv, PTL DEF Spec

(* Every variable keeps its type, and the snapshot's step count its limit. *)
THEOREM TypeCorrectness == Spec => []TypeOK
<1>1. IInv => TypeOK
  BY DEF IInv
<1> QED
  BY <1>1, Invariance, PTL

(* RunFlow's running map is exact: the goroutines in flight, the reports   *)
(* in the channel and the batch being applied, apart from each other.      *)
THEOREM RunningMapIsExact == Spec => []RunningIsAccountedFor
<1>1. IInv => RunningIsAccountedFor
  BY DEF IInv
<1> QED
  BY <1>1, Invariance, PTL

(* RunFlow returns with no effect in flight and no completion unread, by   *)
(* whichever exit.                                                         *)
THEOREM NothingIsOrphaned == Spec => []NoOrphanedEffect
<1>1. IInv => NoOrphanedEffect
  BY DEF IInv, NoOrphanedEffect, NothingRunsAtTheEnds, RunningIsAccountedFor
<1> QED
  BY <1>1, Invariance, PTL

(* While an effect is in flight there is room for its completion in the    *)
(* channel, so that no send blocks: the channel and the effect in flight   *)
(* are different nodes, and the channel holds as many as there are nodes.  *)
THEOREM SendsNeverBlock == Spec => []ChannelHasRoom
<1>1. ASSUME IInv, NEW n \in InFlight PROVE Cardinality(channel) < ChannelCapacity
  <2>1. IsFiniteSet(Nodes) /\ Cardinality(Nodes) = Len(Flow)
    <3>1. 1 \in Int /\ Len(Flow) \in Int /\ 1 <= Len(Flow)
      BY FlowAssumption DEF Nodes, CancelledTerminal
    <3> QED
      BY <3>1, FS_Interval DEF Nodes
  <2>2. n \in Nodes /\ channel \subseteq Nodes \ {n}
    BY <1>1 DEF IInv, TypeOK, RunningIsAccountedFor, InFlight, Effects
  <2>3. IsFiniteSet(Nodes \ {n}) /\ Cardinality(Nodes \ {n}) = Len(Flow) - 1
    BY <2>1, <2>2, FS_RemoveElement
  <2>4. Cardinality(channel) <= Len(Flow) - 1 /\ Cardinality(channel) \in Nat
    BY <2>2, <2>3, FS_Subset, FS_CardinalityType
  <2> QED
    BY <2>4, FlowAssumption DEF ChannelCapacity
<1>2. IInv => ChannelHasRoom
  BY <1>1 DEF ChannelHasRoom
<1> QED
  BY <1>2, Invariance, PTL

(* No node is active, runs or has run before its dependencies succeeded:   *)
(* joins wait for every branch, jobs for every job they need.              *)
THEOREM DependenciesAreKept == Spec => []DependenciesHold
<1>1. IInv => DependenciesHold
  BY DEF IInv
<1> QED
  BY <1>1, Invariance, PTL

(* The launch loop and the applying of completions only ever see settled   *)
(* snapshots.                                                              *)
THEOREM LaunchesAreSettled == Spec => []LaunchIsSettled
<1>1. IInv => LaunchIsSettled
  BY DEF IInv
<1> QED
  BY <1>1, Invariance, PTL

-----------------------------------------------------------------------------
(***************************************************************************)
(* RunFlow implements its contract.                                        *)
(***************************************************************************)
(* The initial state is one of the contract's. *)
LEMMA ContractInit == Init => Contract!Init
BY DEF Init, Contract!Init, WorkOf

(* Every step launches an effect, ends one, notes Ctrl+C, returns or       *)
(* changes nothing the contract speaks of.                                 *)
LEMMA ContractStep == IInv /\ IInv' /\ [Next]_vars => [Contract!Next]_Contract!vars
<1> SUFFICES ASSUME IInv, IInv', [Next]_vars
             PROVE  Contract!Next \/ UNCHANGED Contract!vars
  BY DEF Contract!vars
<1>0. task \in [Nodes -> TaskState]
  BY DEF IInv, TypeOK
<1>1. ASSUME NEW n \in Nodes, Launch(n) PROVE Contract!Launch(n)
  <2>1. task[n] = "idle"
    BY <1>1 DEF Launch, IsFirst, IInv, TypeOK, UnstartedIsIdle, Unstarted
  <2>2. task' = [task EXCEPT ![n] = "queued"]
    BY <1>1 DEF Launch
  <2>3. \A m \in Nodes : WorkOf(m)' = IF m = n THEN "working" ELSE WorkOf(m)
    BY <1>0, <2>1, <2>2 DEF WorkOf
  <2>4. [m \in Nodes |-> WorkOf(m)]' = [[m \in Nodes |-> WorkOf(m)] EXCEPT ![n] = "working"]
    BY <2>3
  <2>5. /\ pc # "done" /\ pc' # "done" /\ UNCHANGED cancelled /\ WorkOf(n) = "idle"
        /\ cancelled => Flow[n].cleanup
    BY <1>1, <2>1 DEF Launch, WorkOf
  <2> QED
    BY <2>4, <2>5 DEF Contract!Launch
<1>2. ASSUME NEW n \in Nodes, GiveUp(n) \/ RunEffect(n) PROVE Contract!End(n)
  <2>1. task[n] \in {"queued", "holding"} /\ UNCHANGED <<pc, cancelled>>
        /\ \E s \in {"sent", "ended"} : task' = [task EXCEPT ![n] = s]
    BY <1>2 DEF GiveUp, RunEffect
  <2>2. \A m \in Nodes : WorkOf(m)' = IF m = n THEN "ended" ELSE WorkOf(m)
    <3>1. \A m \in Nodes \ {n} : task'[m] = task[m]
      BY <1>0, <2>1
    <3>2. task'[n] \in {"sent", "ended"}
      BY <1>0, <2>1
    <3> QED
      BY <3>1, <3>2 DEF WorkOf
  <2>3. [m \in Nodes |-> WorkOf(m)]' = [[m \in Nodes |-> WorkOf(m)] EXCEPT ![n] = "ended"]
    BY <2>2
  <2> QED
    BY <2>1, <2>3 DEF Contract!End, WorkOf
<1>3. ASSUME NEW n \in Nodes, AcquireSlot(n) \/ ReleaseSlot(n) PROVE UNCHANGED Contract!vars
  <2>1. UNCHANGED <<pc, cancelled>> /\ \A m \in Nodes : WorkOf(m)' = WorkOf(m)
    BY <1>0, <1>3 DEF AcquireSlot, ReleaseSlot, WorkOf
  <2> QED
    BY <2>1 DEF Contract!vars
<1>4. CASE CancelContext
  BY <1>4 DEF CancelContext, taskVars, Contract!Next, Contract!Stop, WorkOf
<1>5. ASSUME UNCHANGED <<task, cancelled>>, pc # "done" \/ UNCHANGED pc
      PROVE  Contract!Next \/ UNCHANGED Contract!vars
  <2>1. \A m \in Nodes : WorkOf(m)' = WorkOf(m)
    BY <1>5 DEF WorkOf
  <2>2. CASE pc # "done" /\ pc' = "done"
    <3>1. InFlight' = {}
      BY <2>2 DEF IInv, NothingRunsAtTheEnds, RunningIsAccountedFor
    <3>2. \A m \in Nodes : WorkOf(m) # "working"
      BY <1>0, <1>5, <3>1 DEF InFlight, WorkOf, TaskState
    <3> QED
      BY <1>5, <2>1, <2>2, <3>2 DEF Contract!Next, Contract!Return
  <2>3. CASE (pc = "done") = (pc' = "done")
    BY <1>5, <2>1, <2>3 DEF Contract!vars
  <2> QED
    BY <1>5, <2>2, <2>3
<1>6. ASSUME NEW n \in Nodes, Settle(n) \/ SkipLaunch(n) \/ RefuseLaunch(n) \/ ApplyCompletion(n)
      PROVE  UNCHANGED <<task, cancelled>> /\ pc # "done"
  BY <1>6 DEF Settle, SkipLaunch, RefuseLaunch, ApplyCompletion, taskVars
<1>7. ASSUME \/ StartFlow \/ LeaveLoop \/ CancelFlow \/ BeginRound \/ EndRound
             \/ Collect \/ EndApply \/ EndStep \/ ReportResult
      PROVE  UNCHANGED <<task, cancelled>> /\ pc # "done"
  BY <1>7 DEF StartFlow, LeaveLoop, CancelFlow, BeginRound, EndRound, Collect, EndApply,
              EndStep, ReportResult, taskVars
<1>8. CASE UNCHANGED vars
  BY <1>5, <1>8 DEF vars, taskVars
<1> QED
  BY <1>1, <1>2, <1>3, <1>4, <1>5, <1>6, <1>7, <1>8
  DEF Next, Coordinator, EffectGoroutine, Returned, Contract!Next

(* Whatever the flow, RunFlow starts an effect at most once, none but      *)
(* cleanup after Ctrl+C, and returns only when none is at work.            *)
THEOREM ExecutorKeepsContract == Spec => ContractHolds
BY ContractInit, ContractStep, Invariance, PTL DEF Spec, ContractHolds, Contract!Spec

-----------------------------------------------------------------------------
(***************************************************************************)
(* The scope a flow begins with (BeginsWithScope).  A single effect is     *)
(* under way in it: the flow is at one node of the scope, with everything  *)
(* deeper untouched and enough of the step limit left to reach the end.    *)
(***************************************************************************)
(* The flow is in its scope, at n, and nowhere else.                         *)
InScope(depth, n) ==
  /\ pc \in {"settle", "loop", "launch", "collect", "apply"}
  /\ pc = "settle" => event # "cancelFlow"
  /\ n \in DOMAIN depth
  /\ snap.status = "running" /\ snap.active = {n}
  /\ snap.node[n] = IF n \in running THEN "running" ELSE "pending"
  /\ snap.steps <= 2 * depth[n] + 2 /\ (n \notin running => snap.steps <= 2 * depth[n] + 1)
  /\ \A m \in Nodes : snap.node[m] # "waiting"
  /\ \A m \in DOMAIN depth : depth[n] < depth[m] => snap.node[m] = "pending" /\ task[m] = "idle"
  /\ running \subseteq {n}
  /\ task[n] = "idle" <=> n \notin running
  /\ \A m \in Nodes : Flow[m].cleanup /\ m # n => task[m] = "idle"
  /\ todo \subseteq {n} /\ (n \in todo => n \notin running)
  /\ pc # "launch" => todo = {}
  /\ pc = "launch" /\ n \notin running \cup todo => cancelled /\ ~Flow[n].cleanup

(* No node of the scope has anything left to do.                             *)
Spent(depth, s) ==
  \A m \in DOMAIN depth : s.node[m] # "waiting" /\ (m \in s.active => s.node[m] # "pending")

(* One copy of the cleanup was launched, or Ctrl+C came before any was.        *)
Settlement ==
  \/ \E c \in Nodes : LaunchedCleanups = {c}
  \/ cancelled /\ LaunchedCleanups = {}

(* What comes after the scope, in the snapshot Step falls back to as well.     *)
PastScope(depth) ==
  /\ Settlement
  /\ pc # "start"
  /\ running \cap DOMAIN depth = {} /\ todo \cap DOMAIN depth = {}
  /\ pc \notin {"report", "done"} => Spent(depth, snap)
  /\ pc = "settle" /\ event # "cancelFlow" => Spent(depth, prior)

BeforeScope == pc = "start" /\ todo = {} /\ \A n \in Nodes : task[n] = "idle"

(* The flow goes through its scope once.                                      *)
ScopeInv(depth) ==
  BeforeScope \/ (\E n \in DOMAIN depth : InScope(depth, n)) \/ PastScope(depth)

-----------------------------------------------------------------------------
(* Activating one pending node that waits for nothing makes it active.       *)
LEMMA ActivateOne ==
  ASSUME NEW s \in Snapshot, NEW m \in Nodes, s.node[m] = "pending", Flow[m].waitFor = {}
  PROVE  LET t == Activate(s, {m})
         IN /\ t.active = s.active \cup {m} /\ t.node = s.node
            /\ t.status = s.status /\ t.steps = s.steps
<1> DEFINE fresh == {n \in {m} : s.node[n] = "pending"}
           ready == {n \in fresh : DependenciesComplete(s, n)}
<1>1. fresh = {m} /\ ready = {m} /\ fresh \ ready = {}
  BY DEF DependenciesComplete
<1>2. Mark(s, {}, "waiting") = s
  BY DEF Mark, Snapshot
<1>3. Activate(s, {m}) = [s EXCEPT !.active = @ \cup {m}]
  BY <1>1, <1>2 DEF Activate
<1> QED
  BY <1>3 DEF Snapshot

(* Activating nodes leaves the others as they are.                            *)
LEMMA ActivateOthers ==
  ASSUME NEW s \in Snapshot, NEW targets \in SUBSET Nodes, NEW m \in Nodes \ targets
  PROVE  LET t == Activate(s, targets)
         IN t.node[m] = s.node[m] /\ (m \in t.active <=> m \in s.active)
<1> DEFINE fresh == {n \in targets : s.node[n] = "pending"}
           ready == {n \in fresh : DependenciesComplete(s, n)}
           late == fresh \ ready
           marked == Mark(s, late, "waiting")
<1>1. late \in SUBSET Nodes /\ "waiting" \in State /\ m \notin late /\ m \notin ready
  BY DEF State
<1> HIDE DEF late
<1>2. marked \in Snapshot
  BY <1>1, MarkType
<1>3. marked.active = s.active /\ marked.node[m] = s.node[m]
  BY <1>1, MarkFields
<1>4. /\ Activate(s, targets).active = s.active \cup ready
      /\ Activate(s, targets).node = marked.node
  BY <1>2, <1>3 DEF Activate, Snapshot, late
<1> QED
  BY <1>1, <1>3, <1>4

(* A scope that is spent stays so while other nodes are activated.            *)
LEMMA ActivateSpent ==
  ASSUME NEW depth, DOMAIN depth \subseteq Nodes,
         NEW s \in Snapshot, Spent(depth, s),
         NEW targets \in SUBSET Nodes, targets \cap DOMAIN depth = {}
  PROVE  Spent(depth, Activate(s, targets))
BY ActivateOthers DEF Spent

(* ... and while another node is settled.                                    *)
LEMMA SettleSpent ==
  ASSUME NEW depth, BeginsWithScope(depth), NEW s \in Snapshot, Spent(depth, s),
         NEW n \in Nodes, Eligible(s, n)
  PROVE  Spent(depth, SettleNode(s, n))
<1>1. n \notin DOMAIN depth /\ DOMAIN depth \subseteq Nodes
  BY DEF Spent, Eligible, BeginsWithScope
<1>2. CASE Flow[n].kind = "effect"
  BY <1>1, <1>2 DEF SettleNode, Spent, Snapshot
<1>3. Complete(s, n) \in Snapshot /\ Spent(depth, Complete(s, n))
  BY <1>1, CompleteType DEF Complete, Spent, Snapshot
<1>4. CASE Flow[n].kind = "terminal"
  <2> DEFINE ended == [Complete(s, n) EXCEPT !.active = {}, !.status = Flow[n].terminal]
  <2>1. Flow[n].terminal \in State
    BY <1>4, FlowAssumption DEF NodeOK, State
  <2>2. ended \in Snapshot /\ ended.active = {} /\ \A m \in DOMAIN depth : ended.node[m] # "waiting"
    BY <2>1, <1>3, <1>1 DEF Snapshot, Spent
  <2> HIDE DEF ended
  <2>3. \A m \in DOMAIN depth : CancelNonterminal(ended).node[m] # "waiting"
    BY <2>2, <1>1 DEF CancelNonterminal, Mark, Snapshot
  <2>4. CancelNonterminal(ended).active = {}
    BY <2>2 DEF CancelNonterminal, Mark, Snapshot
  <2>5. SettleNode(s, n) = CancelNonterminal(ended)
    BY <1>4 DEF SettleNode, ended
  <2> QED
    BY <2>3, <2>4, <2>5 DEF Spent
<1>5. CASE Flow[n].kind \notin {"effect", "terminal"}
  <2>1. Successors(s, n) \in SUBSET Nodes
    BY SuccessorsType
  <2>2. Successors(s, n) \cap DOMAIN depth = {}
    BY <1>1 DEF Successors, BeginsWithScope
  <2>3. Spent(depth, Activate(Complete(s, n), Successors(s, n)))
    BY <1>1, <1>3, <2>1, <2>2, ActivateSpent
  <2> QED
    BY <1>5, <2>3 DEF SettleNode
<1> QED
  BY <1>2, <1>4, <1>5

-----------------------------------------------------------------------------
(* The tasks of effects go on without changing what was launched.             *)
LEMMA GoroutineScope ==
  ASSUME NEW depth, BeginsWithScope(depth), IInv, ScopeInv(depth),
         \/ \E n \in Nodes : EffectGoroutine(n)
         \/ CancelContext
         \/ UNCHANGED vars
  PROVE  ScopeInv(depth)'
<1>1. /\ UNCHANGED <<pc, snap, prior, event, todo, running>>
      /\ \A n \in Nodes : (task[n] = "idle") <=> (task[n] = "idle")'
      /\ cancelled => cancelled'
  <2>1. CASE CancelContext \/ UNCHANGED vars
    BY <2>1 DEF CancelContext, vars, machineVars, loopVars, taskVars
  <2>2. CASE \E n \in Nodes : EffectGoroutine(n)
    BY <2>2 DEF EffectGoroutine, AcquireSlot, GiveUp, RunEffect, ReleaseSlot, Send,
                machineVars, loopVars, IInv, TypeOK
  <2> QED BY <2>1, <2>2
<1>2. LaunchedCleanups' = LaunchedCleanups
  BY <1>1 DEF LaunchedCleanups, Launched, Effects
<1>3. DOMAIN depth \subseteq Nodes
  BY DEF BeginsWithScope
<1>4. CASE BeforeScope
  BY <1>1, <1>4 DEF BeforeScope, ScopeInv
<1>5. ASSUME NEW n \in DOMAIN depth, InScope(depth, n) PROVE InScope(depth, n)'
  BY <1>1, <1>3, <1>5 DEF InScope
<1>6. CASE PastScope(depth)
  BY <1>1, <1>2, <1>6 DEF PastScope, Settlement, ScopeInv, Spent
<1> QED
  BY <1>4, <1>5, <1>6 DEF ScopeInv

(* Start enters the scope at the entry.                                       *)
LEMMA StartScope ==
  ASSUME NEW depth, BeginsWithScope(depth), IInv, ScopeInv(depth), StartFlow
  PROVE  ScopeInv(depth)'
<1>1. BeforeScope /\ running = {}
  BY DEF ScopeInv, InScope, PastScope, StartFlow, IInv, NothingRunsAtTheEnds
<1> DEFINE begun == [NewSnapshot EXCEPT !.status = "running", !.steps = @ + 1]
<1>2. Entry \in Nodes
  BY DEF BeginsWithScope
<1>3. /\ begun.steps = 1 /\ begun.active = {} /\ begun.status = "running"
      /\ begun.node = [m \in Nodes |-> "pending"]
  BY DEF NewSnapshot
<1>4. begun \in Snapshot
  <2>1. "running" \in State /\ NewSnapshot.steps + 1 \in 0 .. StepLimit
    BY StepLimitAssumption DEF State, NewSnapshot
  <2> QED
    BY <2>1, NewSnapshotType DEF Snapshot
<1>5. Start(snap) = Activate(begun, {Entry})
  BY DEF StartFlow, IInv, StartsFresh, Start
<1> HIDE DEF begun
<1>6. /\ snap'.active = {Entry} /\ snap'.status = "running" /\ snap'.steps = 1
      /\ snap'.node = [m \in Nodes |-> "pending"]
  BY <1>2, <1>3, <1>4, <1>5, ActivateOne DEF StartFlow, BeginStep, BeginsWithScope
<1>7. /\ pc' = "settle" /\ event' = "start"
      /\ UNCHANGED <<todo, running, task>>
  BY DEF StartFlow, BeginStep, loopVars, taskVars
<1>8. Entry \in DOMAIN depth /\ DOMAIN depth \subseteq Nodes /\ depth[Entry] \in Nat
  BY DEF BeginsWithScope
<1>9. InScope(depth, Entry)'
  BY <1>1, <1>6, <1>7, <1>8 DEF InScope, BeforeScope
<1> QED
  BY <1>8, <1>9 DEF ScopeInv

(* Inside the scope, only its node is eligible, and it is one of control      *)
(* that leads on.                                                            *)
LEMMA SettleScope ==
  ASSUME NEW depth, BeginsWithScope(depth), IInv, ScopeInv(depth), NEW n \in Nodes, Settle(n)
  PROVE  ScopeInv(depth)'
<1>1. /\ pc = "settle" /\ Eligible(snap, n) /\ snap \in Snapshot
      /\ UNCHANGED <<prior, event, todo, running, task, cancelled>>
  BY DEF Settle, SettlesNext, IInv, TypeOK, loopVars, taskVars
<1>2. DOMAIN depth \subseteq Nodes
  BY DEF BeginsWithScope
<1>3. ASSUME NEW m \in DOMAIN depth, InScope(depth, m) PROVE \E k \in DOMAIN depth : InScope(depth, k)'
  <2>1. n = m /\ snap.node[n] = "pending" /\ n \notin running /\ Flow[n].kind # "effect"
    BY <1>1, <1>3 DEF Eligible, InScope
  <2>2. /\ Flow[n].kind \in {"entry", "iterator"} /\ "continue" \in DOMAIN Flow[n].next
        /\ ~Flow[n].cleanup /\ depth[n] \in Nat
    BY <2>1 DEF BeginsWithScope
  <2>3. PICK k \in DOMAIN depth :
          /\ k = Flow[n].next["continue"]
          /\ depth[n] < depth[k] /\ depth[k] \in Nat /\ Flow[k].waitFor = {}
    BY <2>1, <2>2 DEF BeginsWithScope
  <2>4. ~SettleFails(snap, n) /\ Successors(snap, n) = {k}
    BY <2>2, <2>3 DEF SettleFails, Successors, Guard
  <2>5. snap' = Activate(Complete(snap, n), {k}) /\ pc' = pc
    BY <2>2, <2>4 DEF Settle, SettleNode
  <2>6. k # n /\ snap.node[k] = "pending" /\ task[k] = "idle"
    BY <1>3, <2>1, <2>2, <2>3 DEF InScope
  <2>7. /\ Complete(snap, n) \in Snapshot
        /\ Complete(snap, n).active = {} /\ Complete(snap, n).status = "running"
        /\ Complete(snap, n).steps = snap.steps
        /\ Complete(snap, n).node = [snap.node EXCEPT ![n] = "succeeded"]
        /\ Complete(snap, n).node[k] = "pending"
    BY <1>1, <1>2, <1>3, <2>1, <2>3, <2>6, CompleteType DEF Complete, Snapshot, InScope
  <2>8. /\ snap'.active = {k} /\ snap'.status = "running" /\ snap'.steps = snap.steps
        /\ snap'.node = [snap.node EXCEPT ![n] = "succeeded"]
    <3> DEFINE s == Complete(snap, n)
    <3>1. s \in Snapshot /\ k \in Nodes /\ s.node[k] = "pending" /\ Flow[k].waitFor = {}
      BY <1>2, <2>3, <2>7
    <3>2. snap' = Activate(s, {k})
      BY <2>5
    <3> HIDE DEF s
    <3>3. /\ snap'.active = s.active \cup {k} /\ snap'.node = s.node
          /\ snap'.status = s.status /\ snap'.steps = s.steps
      BY <3>1, <3>2, ActivateOne
    <3> QED
      BY <2>7, <3>3 DEF s
  <2>9. \A j \in Nodes : snap'.node[j] = IF j = n THEN "succeeded" ELSE snap.node[j]
    BY <1>1, <2>8 DEF Snapshot
  <2>10. snap.steps \in Nat /\ running = {} /\ todo = {}
    BY <1>1, <1>3, <2>1 DEF Snapshot, InScope
  <2>11. \A j \in DOMAIN depth : depth[j] \in Nat
    BY DEF BeginsWithScope
  <2>12. snap.steps <= 2 * depth[k] + 1 /\ snap.steps <= 2 * depth[k] + 2
    BY <1>3, <2>1, <2>2, <2>3, <2>10 DEF InScope
  <2>13. \A j \in DOMAIN depth : depth[k] < depth[j] => snap'.node[j] = "pending" /\ task[j] = "idle"
    <3> SUFFICES ASSUME NEW j \in DOMAIN depth, depth[k] < depth[j]
                 PROVE  snap'.node[j] = "pending" /\ task[j] = "idle"
      OBVIOUS
    <3>1. depth[n] < depth[j] /\ j # n
      BY <2>2, <2>3, <2>11
    <3> QED
      BY <1>2, <1>3, <2>1, <2>9, <3>1 DEF InScope
  <2>14. /\ \A j \in Nodes : snap'.node[j] # "waiting"
         /\ \A j \in Nodes : Flow[j].cleanup /\ j # k => task[j] = "idle"
    BY <1>3, <2>1, <2>2, <2>9 DEF InScope
  <2>15. snap'.node[k] = "pending" /\ pc' = "settle" /\ event # "cancelFlow"
    BY <1>1, <1>2, <1>3, <2>5, <2>6, <2>9 DEF InScope
  <2>16. InScope(depth, k)'
    BY <1>1, <2>3, <2>6, <2>8, <2>10, <2>12, <2>13, <2>14, <2>15 DEF InScope
  <2> QED BY <2>3, <2>16
<1>4. CASE PastScope(depth)
  <2>1. Spent(depth, snap) /\ LaunchedCleanups' = LaunchedCleanups
    BY <1>1, <1>4 DEF PastScope, LaunchedCleanups, Launched
  <2>2. CASE ~SettleFails(snap, n)
    <3>1. pc' = pc /\ snap' = SettleNode(snap, n)
      BY <2>2 DEF Settle
    <3>2. Spent(depth, snap')
      BY <1>1, <2>1, <3>1, SettleSpent
    <3> QED
      BY <1>1, <1>4, <2>1, <3>1, <3>2 DEF PastScope, Settlement, ScopeInv, Spent
  <2>3. CASE SettleFails(snap, n)
    <3>1. FailStep(event, prior) /\ prior \in Snapshot
      BY <2>3 DEF Settle, IInv, TypeOK
    <3>2. CASE event = "cancelFlow"
      BY <1>1, <1>4, <2>1, <3>1, <3>2 DEF FailStep, PastScope, Settlement, ScopeInv
    <3>3. CASE event # "cancelFlow"
      <4>1. Spent(depth, snap') /\ pc' \in {"done", "apply"}
        BY <1>1, <1>4, <3>1, <3>3 DEF FailStep, PastScope, Spent, Snapshot
      <4> QED
        BY <1>1, <1>4, <2>1, <4>1 DEF PastScope, Settlement, ScopeInv, Spent
    <3> QED BY <3>2, <3>3
  <2> QED BY <2>2, <2>3
<1> QED
  BY <1>1, <1>3, <1>4 DEF ScopeInv, BeforeScope

-----------------------------------------------------------------------------
(* The coordinator between two events.                                       *)
LEMMA RoundsScope ==
  ASSUME NEW depth, BeginsWithScope(depth), IInv, ScopeInv(depth),
         LeaveLoop \/ BeginRound \/ EndApply \/ EndStep \/ ReportResult \/ Collect
  PROVE  ScopeInv(depth)'
<1>1. /\ UNCHANGED <<snap, prior, event, running, task, cancelled>>
      /\ pc # "start" /\ pc' # "start" /\ pc' # "settle"
  BY DEF LeaveLoop, BeginRound, EndApply, EndStep, ReportResult, Collect, machineVars, loopVars, taskVars
<1>2. LaunchedCleanups' = LaunchedCleanups /\ DOMAIN depth \subseteq Nodes
  BY <1>1 DEF LaunchedCleanups, Launched, BeginsWithScope
<1>3. pc # "settle" => Settled(snap) \/ pc \in {"start", "done"}
  BY DEF IInv, TypeOK, Position, LaunchIsSettled
<1>4. ASSUME NEW n \in DOMAIN depth, InScope(depth, n) PROVE InScope(depth, n)'
  <2>1. CASE BeginRound
    <3>1. pc = "loop" /\ pc' = "launch" /\ todo' = ActiveEffects(snap)
      BY <1>4, <2>1 DEF BeginRound, InScope
    <3>2. n \notin running => n \in ActiveEffects(snap)
      <4>1. ~Eligible(snap, n)
        BY <1>2, <1>3, <3>1 DEF Settled
      <4> QED
        BY <1>2, <1>4, <4>1 DEF Eligible, InScope, ActiveEffects, Effects
    <3>3. ActiveEffects(snap) \subseteq {n} /\ (n \in ActiveEffects(snap) => n \notin running)
      BY <1>4 DEF ActiveEffects, InScope
    <3> QED
      BY <1>1, <1>2, <1>4, <3>1, <3>2, <3>3 DEF InScope
  <2>2. CASE LeaveLoop \/ ReportResult
    BY <1>4, <2>2 DEF InScope, LeaveLoop, ReportResult
  <2>3. CASE EndApply \/ EndStep \/ Collect
    <3>1. pc' \in {"loop", "apply"} /\ todo' = todo /\ pc \in {"apply", "settle", "collect"}
      BY <1>4, <2>3 DEF EndApply, EndStep, Collect, loopVars, InScope
    <3> QED
      BY <1>1, <1>2, <1>4, <3>1 DEF InScope
  <2> QED BY <2>1, <2>2, <2>3
<1>5. CASE PastScope(depth)
  <2>1. todo' \cap DOMAIN depth = {}
    <3>1. CASE BeginRound
      BY <1>5, <3>1 DEF BeginRound, PastScope, Spent, ActiveEffects
    <3>2. CASE ~BeginRound
      BY <1>5, <3>2 DEF LeaveLoop, EndApply, EndStep, ReportResult, Collect, loopVars, PastScope
    <3> QED BY <3>1, <3>2
  <2>2. pc' \notin {"report", "done"} => pc \notin {"report", "done"}
    BY DEF LeaveLoop, BeginRound, EndApply, EndStep, ReportResult, Collect
  <2> QED
    BY <1>1, <1>2, <1>5, <2>1, <2>2 DEF PastScope, Settlement, ScopeInv, Spent
<1> QED
  BY <1>1, <1>4, <1>5 DEF ScopeInv, BeforeScope

(* Launching starts the node of the scope; a node that is not launched after   *)
(* Ctrl+C ends the workflow before any cleanup.                               *)
LEMMA LaunchScope ==
  ASSUME NEW depth, BeginsWithScope(depth), IInv, ScopeInv(depth), NEW n \in Nodes,
         Launch(n) \/ SkipLaunch(n) \/ RefuseLaunch(n)
  PROVE  ScopeInv(depth)'
<1>1. /\ pc = "launch" /\ n \in todo /\ snap \in Snapshot
      /\ UNCHANGED <<pc, prior, event, cancelled>>
      /\ task \in [Nodes -> TaskState]
  BY DEF Launch, SkipLaunch, RefuseLaunch, IsFirst, machineVars, IInv, TypeOK
<1>2. DOMAIN depth \subseteq Nodes
  BY DEF BeginsWithScope
<1>3. ASSUME NEW m \in DOMAIN depth, InScope(depth, m) PROVE InScope(depth, m)'
  <2>1. /\ n = m /\ todo = {n} /\ running = {} /\ snap.node[n] = "pending" /\ snap.status = "running"
        /\ snap.steps \in Nat /\ snap.steps <= 2 * depth[n] + 1 /\ depth[n] \in Nat
    BY <1>1, <1>3 DEF InScope, Snapshot, BeginsWithScope
  <2>2. CanStep(snap)
    BY <1>3, <2>1, StepLimitAssumption DEF CanStep, BeginsWithScope
  <2>3. ~RefuseLaunch(n) \/ (cancelled /\ ~Flow[n].cleanup)
    BY <2>1, <2>2 DEF RefuseLaunch
  <2>4. CASE Launch(n)
    <3>1. /\ snap' = EffectStarted(snap, n) /\ running' = {n} /\ todo' = {}
          /\ task' = [task EXCEPT ![n] = "queued"]
      BY <2>1, <2>4 DEF Launch
    <3>2. /\ snap'.status = "running" /\ snap'.active = snap.active /\ snap'.steps = snap.steps + 1
          /\ snap'.node = [snap.node EXCEPT ![n] = "running"]
      BY <1>1, <2>1, <3>1 DEF EffectStarted, Snapshot
    <3>3. \A j \in Nodes : /\ snap'.node[j] = IF j = n THEN "running" ELSE snap.node[j]
                           /\ task'[j] = IF j = n THEN "queued" ELSE task[j]
      BY <1>1, <3>1, <3>2 DEF Snapshot
    <3> QED
      BY <1>1, <1>2, <1>3, <2>1, <3>1, <3>2, <3>3 DEF InScope, BeginsWithScope
  <2>5. CASE SkipLaunch(n)
    <3>1. /\ cancelled /\ ~Flow[n].cleanup /\ todo' = {}
          /\ UNCHANGED <<snap, running, task>>
      BY <2>1, <2>5 DEF SkipLaunch, machineVars, taskVars
    <3> QED
      BY <1>1, <1>2, <1>3, <2>1, <3>1 DEF InScope
  <2> QED BY <2>1, <2>2, <2>4, <2>5 DEF RefuseLaunch
<1>4. CASE PastScope(depth)
  <2>1. n \notin DOMAIN depth /\ ~Flow[n].cleanup /\ Spent(depth, snap)
    BY <1>1, <1>4 DEF PastScope, BeginsWithScope
  <2>2. LaunchedCleanups' = LaunchedCleanups
    BY <1>1, <2>1 DEF LaunchedCleanups, Launched, Launch, SkipLaunch, RefuseLaunch, taskVars, Effects
  <2>3. Spent(depth, snap')
    <3>1. CASE Launch(n)
      <4>1. /\ snap'.active = snap.active
            /\ \A m \in Nodes : snap'.node[m] = IF m = n THEN "running" ELSE snap.node[m]
        BY <1>1, <3>1 DEF Launch, EffectStarted, Snapshot
      <4> QED
        BY <1>2, <2>1, <4>1 DEF Spent
    <3>2. CASE SkipLaunch(n)
      BY <2>1, <3>2 DEF SkipLaunch, machineVars, Spent
    <3>3. CASE RefuseLaunch(n)
      <4>1. snap'.active = snap.active /\ snap'.node = snap.node
        BY <1>1, <3>3 DEF RefuseLaunch, Snapshot
      <4> QED
        BY <2>1, <4>1 DEF Spent
    <3> QED BY <3>1, <3>2, <3>3
  <2>4. running' \cap DOMAIN depth = {} /\ todo' \cap DOMAIN depth = {}
    BY <1>4, <2>1 DEF PastScope, Launch, SkipLaunch, RefuseLaunch, loopVars
  <2> QED
    BY <1>1, <1>4, <2>2, <2>3, <2>4 DEF PastScope, Settlement, ScopeInv
<1> QED
  BY <1>1, <1>3, <1>4 DEF ScopeInv, BeforeScope

(* A round that launched nothing ends the workflow: in the scope only Ctrl+C   *)
(* keeps its effect from being launched, and not when it is a cleanup.         *)
LEMMA EndRoundScope ==
  ASSUME NEW depth, BeginsWithScope(depth), IInv, ScopeInv(depth), EndRound
  PROVE  ScopeInv(depth)'
<1>1. /\ pc = "launch" /\ todo = {} /\ snap \in Snapshot
      /\ UNCHANGED <<prior, event, todo, running, task, cancelled>>
      /\ \/ running # {} /\ pc' = "collect" /\ snap' = snap
         \/ running = {} /\ pc' = "report"
  BY DEF EndRound, machineVars, loopVars, taskVars, IInv, TypeOK
<1>2. DOMAIN depth \subseteq Nodes /\ LaunchedCleanups' = LaunchedCleanups
  BY <1>1 DEF BeginsWithScope, LaunchedCleanups, Launched
<1>3. ASSUME NEW n \in DOMAIN depth, InScope(depth, n) PROVE InScope(depth, n)' \/ PastScope(depth)'
  <2>1. CASE running # {}
    BY <1>1, <1>2, <1>3, <2>1 DEF InScope
  <2>2. CASE running = {}
    <3>1. cancelled /\ LaunchedCleanups = {}
      BY <1>1, <1>2, <1>3, <2>2 DEF InScope, LaunchedCleanups, Launched, Effects
    <3> QED
      BY <1>1, <1>2, <2>2, <3>1 DEF PastScope, Settlement
  <2> QED BY <2>1, <2>2
<1>4. CASE PastScope(depth)
  BY <1>1, <1>2, <1>4 DEF PastScope, Settlement, ScopeInv, Spent
<1> QED
  BY <1>1, <1>3, <1>4 DEF ScopeInv, BeforeScope

(* Ctrl+C ends the workflow while nothing runs and no cleanup is due.          *)
LEMMA CancelFlowScope ==
  ASSUME NEW depth, BeginsWithScope(depth), IInv, ScopeInv(depth), CancelFlow
  PROVE  ScopeInv(depth)'
<1>1. /\ pc = "loop" /\ snap \in Snapshot /\ cancelled /\ running = {} /\ Settled(snap)
      /\ \A n \in ActiveEffects(snap) : ~Flow[n].cleanup
      /\ UNCHANGED <<todo, running, task, cancelled>>
  BY DEF CancelFlow, NothingLeftToCancel, loopVars, taskVars, IInv, TypeOK, LaunchIsSettled
<1>2. DOMAIN depth \subseteq Nodes /\ LaunchedCleanups' = LaunchedCleanups
  BY <1>1 DEF BeginsWithScope, LaunchedCleanups, Launched
<1>3. ASSUME NEW n \in DOMAIN depth, InScope(depth, n)
      PROVE  /\ Settlement /\ todo = {}
             /\ \A m \in DOMAIN depth : snap.node[m] # "waiting"
  <2>1. n \in ActiveEffects(snap)
    BY <1>1, <1>2, <1>3 DEF Settled, Eligible, InScope, ActiveEffects, Effects
  <2> QED
    BY <1>1, <1>2, <1>3, <2>1 DEF InScope, LaunchedCleanups, Launched, Effects, Settlement
<1>4. /\ Settlement /\ todo \cap DOMAIN depth = {}
      /\ \A m \in DOMAIN depth : snap.node[m] # "waiting"
  BY <1>1, <1>3 DEF ScopeInv, PastScope, BeforeScope, Spent
<1>5. CASE ~CanStep(snap)
  <2>1. pc' = "report"
    BY <1>5 DEF CancelFlow, FailStep
  <2> QED
    BY <1>1, <1>2, <1>4, <2>1 DEF PastScope, Settlement, ScopeInv
<1>6. CASE CanStep(snap)
  <2> DEFINE hit == NonterminalIn(snap, {"pending", "waiting", "running"})
             marked == [Mark(snap, hit, "cancelled") EXCEPT !.active = {}, !.steps = @ + 1]
  <2>1. hit \in SUBSET Nodes /\ "cancelled" \in State
    BY DEF NonterminalIn, State, TerminalKind
  <2> HIDE DEF hit
  <2>2. Mark(snap, hit, "cancelled") \in Snapshot
    BY <1>1, <2>1, MarkType
  <2>3. \A m \in Nodes : Mark(snap, hit, "cancelled").node[m] = IF m \in hit THEN "cancelled" ELSE snap.node[m]
    BY <1>1, <2>1, MarkFields
  <2>4. Mark(snap, hit, "cancelled").steps = snap.steps
    BY <1>1 DEF Mark, Snapshot
  <2>5. marked \in Snapshot
    BY <1>1, <1>6, <2>2, <2>4, StepCounts DEF Snapshot
  <2>6. Spent(depth, marked)
    BY <1>2, <1>4, <2>2, <2>3 DEF Spent, Snapshot
  <2> HIDE DEF marked
  <2>7. CancelledTerminal \in Nodes /\ CancelledTerminal \notin DOMAIN depth
    BY FlowAssumption DEF BeginsWithScope
  <2>8. Spent(depth, Activate(marked, {CancelledTerminal}))
    BY <1>2, <2>5, <2>6, <2>7, ActivateSpent
  <2>9. CancelRequested(snap) = Activate(marked, {CancelledTerminal})
    BY DEF CancelRequested, marked, hit
  <2>10. pc' = "settle" /\ event' = "cancelFlow" /\ Spent(depth, snap')
    BY <1>6, <2>8, <2>9 DEF CancelFlow, BeginStep
  <2> QED
    BY <1>1, <1>2, <1>4, <2>10 DEF PastScope, Settlement, ScopeInv, Spent
<1> QED
  BY <1>5, <1>6

-----------------------------------------------------------------------------
(* The node of the scope ends: a cleanup leaves it, what else leads on.        *)
LEMMA EndsInScope ==
  ASSUME NEW depth, BeginsWithScope(depth), IInv, NEW m \in DOMAIN depth, InScope(depth, m),
         NEW n \in Nodes, ApplyCompletion(n)
  PROVE  ScopeInv(depth)'
<1> DEFINE outcome == OutcomeOf(n)
           kind == IF outcome = "cancelled" /\ snap.status = "running"
                   THEN "cancelEffect" ELSE "finish"
           ended == [snap EXCEPT
                       !.node[n]    = outcome,
                       !.outcome[n] = outcome,
                       !.value[n]   = IF report[n].value = NoValue THEN @ ELSE report[n].value,
                       !.cleanupFailures = IF Flow[n].cleanup /\ outcome # "succeeded"
                                           THEN @ \cup {n} ELSE @,
                       !.active = @ \ {n},
                       !.steps  = @ + 1]
           next == EffectFinished(snap, n, outcome, report[n].value)
<1>1. /\ pc = "apply" /\ n \in batch /\ running' = running \ {n}
      /\ UNCHANGED <<todo, task, cancelled>>
  BY DEF ApplyCompletion, IsFirst, taskVars
<1>2. /\ snap \in Snapshot /\ n \in Effects /\ report[n] \in Completion
      /\ n \in running /\ DOMAIN depth \subseteq Nodes
  BY <1>1 DEF IInv, TypeOK, RunningIsAccountedFor, BeginsWithScope
<1>3. /\ n = m /\ running = {n} /\ snap.node[n] = "running" /\ snap.active = {n} /\ todo = {}
      /\ snap.steps \in Nat /\ snap.steps <= 2 * depth[n] + 2 /\ snap.status = "running"
      /\ depth[n] \in Nat /\ 2 * depth[n] + 2 < StepLimit
  BY <1>1, <1>2 DEF InScope, Snapshot, BeginsWithScope
<1>4. CanStep(snap)
  BY <1>3, StepLimitAssumption DEF CanStep
<1>5. outcome \in TerminalKind /\ report[n].value \in Value
  BY <1>2 DEF OutcomeOf, Completion, TerminalKind
<1>6. kind \in {"finish", "cancelEffect"}
  OBVIOUS
<1>7. BeginStep(kind, next)
  BY <1>3, <1>4, <1>6 DEF ApplyCompletion
<1>8. PICK k \in Nodes : k = Flow[n].next[outcome] /\ outcome \in DOMAIN Flow[n].next
  BY <1>2, <1>5, FlowAssumption DEF NodeOK, Effects
<1> HIDE DEF outcome, kind
<1>9. ended \in Snapshot
  BY <1>2, <1>4, <1>5, StepCounts DEF Snapshot, State
<1>10. /\ ended.active = {} /\ ended.status = "running" /\ ended.steps = snap.steps + 1
       /\ ended.node = [snap.node EXCEPT ![n] = outcome]
  BY <1>2, <1>3 DEF Snapshot
<1>11. \A j \in Nodes : ended.node[j] = IF j = n THEN outcome ELSE snap.node[j]
  BY <1>2, <1>10 DEF Snapshot
<1>12. next = Activate(ended, {k})
  BY <1>8 DEF EffectFinished
<1>13. /\ pc' = "settle" /\ event' = kind /\ prior' = snap /\ snap' = next
  BY <1>7 DEF BeginStep
<1> HIDE DEF ended, next
<1>14. CASE Flow[n].cleanup
  <2>1. LaunchedCleanups' = {n}
    BY <1>1, <1>2, <1>3, <1>14 DEF LaunchedCleanups, Launched, InScope, Effects
  <2>2. k \notin DOMAIN depth
    BY <1>8, <1>14 DEF BeginsWithScope
  <2>3. Spent(depth, ended) /\ Spent(depth, snap)
    BY <1>2, <1>3, <1>5, <1>10, <1>11 DEF Spent, InScope, TerminalKind
  <2>4. Spent(depth, snap')
    BY <1>2, <1>8, <1>9, <1>12, <1>13, <2>2, <2>3, ActivateSpent
  <2> QED
    BY <1>1, <1>3, <1>13, <2>1, <2>3, <2>4 DEF PastScope, Settlement, ScopeInv, Spent
<1>15. CASE ~Flow[n].cleanup
  <2>1. k \in DOMAIN depth /\ depth[n] < depth[k] /\ depth[k] \in Nat /\ Flow[k].waitFor = {}
    BY <1>3, <1>8, <1>15 DEF BeginsWithScope
  <2>2. k # n /\ snap.node[k] = "pending" /\ task[k] = "idle"
    BY <1>3, <2>1 DEF InScope
  <2>3. ended.node[k] = "pending"
    BY <1>8, <1>11, <2>2
  <2>4. /\ snap'.active = {k} /\ snap'.status = "running" /\ snap'.steps = snap.steps + 1
        /\ snap'.node = ended.node
    <3>1. snap' = Activate(ended, {k})
      BY <1>12, <1>13
    <3>2. /\ snap'.active = ended.active \cup {k} /\ snap'.node = ended.node
          /\ snap'.status = ended.status /\ snap'.steps = ended.steps
      BY <1>9, <2>1, <2>3, <3>1, ActivateOne
    <3> QED
      BY <1>10, <3>2
  <2>5. \A j \in DOMAIN depth : depth[j] \in Nat
    BY DEF BeginsWithScope
  <2>6. /\ snap'.steps <= 2 * depth[k] + 1 /\ snap'.steps <= 2 * depth[k] + 2
    BY <1>3, <2>1, <2>4
  <2>7. \A j \in Nodes : snap'.node[j] # "waiting"
    BY <1>5, <1>11, <2>4 DEF InScope, TerminalKind
  <2>8. \A j \in DOMAIN depth : depth[k] < depth[j] => snap'.node[j] = "pending" /\ task'[j] = "idle"
    <3> SUFFICES ASSUME NEW j \in DOMAIN depth, depth[k] < depth[j]
                 PROVE  snap'.node[j] = "pending" /\ task'[j] = "idle"
      OBVIOUS
    <3>1. depth[n] < depth[j] /\ j # n
      BY <1>3, <2>1, <2>5
    <3> QED
      BY <1>1, <1>2, <1>3, <1>11, <2>4, <3>1 DEF InScope
  <2>9. \A j \in Nodes : Flow[j].cleanup /\ j # k => task'[j] = "idle"
    BY <1>1, <1>3, <1>15 DEF InScope
  <2>10. InScope(depth, k)'
    BY <1>1, <1>3, <1>6, <1>13, <2>1, <2>2, <2>3, <2>4, <2>6, <2>7, <2>8, <2>9 DEF InScope
  <2> QED BY <2>1, <2>10 DEF ScopeInv
<1> QED
  BY <1>14, <1>15

(* Past the scope no completion concerns it.                                  *)
LEMMA EndsPastScope ==
  ASSUME NEW depth, BeginsWithScope(depth), IInv, PastScope(depth),
         NEW n \in Nodes, ApplyCompletion(n)
  PROVE  PastScope(depth)'
<1> DEFINE outcome == OutcomeOf(n)
           kind == IF outcome = "cancelled" /\ snap.status = "running"
                   THEN "cancelEffect" ELSE "finish"
           ended == [snap EXCEPT
                       !.node[n]    = outcome,
                       !.outcome[n] = outcome,
                       !.value[n]   = IF report[n].value = NoValue THEN @ ELSE report[n].value,
                       !.cleanupFailures = IF Flow[n].cleanup /\ outcome # "succeeded"
                                           THEN @ \cup {n} ELSE @,
                       !.active = @ \ {n},
                       !.steps  = @ + 1]
           k == Flow[n].next[outcome]
<1>1. /\ pc = "apply" /\ n \in batch /\ running' = running \ {n}
      /\ UNCHANGED <<todo, task, cancelled>>
  BY DEF ApplyCompletion, IsFirst, taskVars
<1>2. /\ snap \in Snapshot /\ n \in Effects /\ report[n] \in Completion
      /\ n \in running /\ DOMAIN depth \subseteq Nodes
  BY <1>1 DEF IInv, TypeOK, RunningIsAccountedFor, BeginsWithScope
<1>3. n \notin DOMAIN depth /\ Spent(depth, snap)
  BY <1>1, <1>2 DEF PastScope
<1>4. LaunchedCleanups' = LaunchedCleanups
  BY <1>1 DEF LaunchedCleanups, Launched
<1>5. outcome \in TerminalKind /\ report[n].value \in Value
  BY <1>2 DEF OutcomeOf, Completion, TerminalKind
<1>6. kind \in {"finish", "cancelEffect"}
  OBVIOUS
<1>7. k \in Nodes /\ outcome \in DOMAIN Flow[n].next
  BY <1>2, <1>5, FlowAssumption DEF NodeOK, Effects
<1>8. k \notin DOMAIN depth
  BY <1>3, <1>7 DEF BeginsWithScope
<1> HIDE DEF outcome, kind
<1>9. CASE CanStep(snap) /\ BeginStep(kind, EffectFinished(snap, n, outcome, report[n].value))
  <2>1. ended \in Snapshot
    BY <1>2, <1>5, <1>9, StepCounts DEF Snapshot, State
  <2>2. ended.node = [snap.node EXCEPT ![n] = outcome] /\ ended.active = snap.active \ {n}
    BY <1>2 DEF Snapshot
  <2>3. Spent(depth, ended)
    BY <1>2, <1>3, <2>2 DEF Spent, Snapshot
  <2>4. EffectFinished(snap, n, outcome, report[n].value) = Activate(ended, {k})
    BY DEF EffectFinished
  <2> HIDE DEF ended, k
  <2>5. Spent(depth, Activate(ended, {k}))
    BY <1>2, <1>7, <1>8, <2>1, <2>3, ActivateSpent
  <2>6. Spent(depth, snap') /\ Spent(depth, prior') /\ pc' = "settle"
    BY <1>3, <1>9, <2>4, <2>5 DEF BeginStep
  <2> QED
    BY <1>1, <1>4, <2>6 DEF PastScope, Settlement, Spent
<1>10. CASE FailStep(kind, snap) \/ UNCHANGED <<pc, snap>>
  <2>1. Spent(depth, snap') /\ pc' = "apply"
    BY <1>1, <1>2, <1>3, <1>6, <1>10 DEF FailStep, Spent, Snapshot
  <2> QED
    BY <1>1, <1>4, <2>1 DEF PastScope, Settlement, Spent
<1> QED
  BY <1>9, <1>10 DEF ApplyCompletion, outcome, kind, machineVars

-----------------------------------------------------------------------------
(* The initial state is before the scope.                                     *)
LEMMA InitScope ==
  ASSUME NEW depth, BeginsWithScope(depth), Init
  PROVE  ScopeInv(depth)
BY DEF Init, ScopeInv, BeforeScope

(* Every step keeps to the scope, or leaves it for good.                       *)
LEMMA NextScope ==
  ASSUME NEW depth, BeginsWithScope(depth), IInv, ScopeInv(depth), [Next]_vars
  PROVE  ScopeInv(depth)'
<1>1. CASE Coordinator
  <2>1. CASE StartFlow
    BY <2>1, StartScope
  <2>2. CASE CancelFlow
    BY <2>2, CancelFlowScope
  <2>3. CASE LeaveLoop \/ BeginRound \/ EndApply \/ EndStep \/ ReportResult \/ Collect
    BY <2>3, RoundsScope
  <2>4. CASE EndRound
    BY <2>4, EndRoundScope
  <2>5. ASSUME NEW n \in Nodes, Settle(n) PROVE ScopeInv(depth)'
    BY <2>5, SettleScope
  <2>6. ASSUME NEW n \in Nodes, Launch(n) \/ SkipLaunch(n) \/ RefuseLaunch(n) PROVE ScopeInv(depth)'
    BY <2>6, LaunchScope
  <2>7. ASSUME NEW n \in Nodes, ApplyCompletion(n) PROVE ScopeInv(depth)'
    <3>1. CASE BeforeScope
      BY <2>7, <3>1 DEF BeforeScope, ApplyCompletion
    <3>2. CASE \E m \in DOMAIN depth : InScope(depth, m)
      BY <2>7, <3>2, EndsInScope
    <3>3. CASE PastScope(depth)
      BY <2>7, <3>3, EndsPastScope DEF ScopeInv
    <3> QED BY <3>1, <3>2, <3>3 DEF ScopeInv
  <2> QED
    BY <1>1, <2>1, <2>2, <2>3, <2>4, <2>5, <2>6, <2>7 DEF Coordinator
<1>2. CASE (\E n \in Nodes : EffectGoroutine(n)) \/ CancelContext \/ UNCHANGED vars
  BY <1>2, GoroutineScope
<1> QED
  BY <1>1, <1>2 DEF Next, Returned

(* Where the flow is decides what may be in flight.                            *)
LEMMA ScopeSuffices ==
  ASSUME NEW depth, BeginsWithScope(depth), IInv, ScopeInv(depth)
  PROVE  CleanupIsExclusive
<1>1. DOMAIN depth \subseteq Nodes /\ \A n \in Nodes : Flow[n].cleanup => n \in DOMAIN depth
  BY DEF BeginsWithScope
<1>2. InFlight \subseteq running /\ InFlight \subseteq Nodes
  BY DEF IInv, RunningIsAccountedFor, InFlight
<1>3. CleanupRunsOnce
  <2> SUFFICES ASSUME pc = "done"
               PROVE  Cardinality(LaunchedCleanups) = 1 \/ (cancelled /\ LaunchedCleanups = {})
    BY DEF CleanupRunsOnce
  <2>1. Settlement
    BY DEF ScopeInv, BeforeScope, InScope, PastScope
  <2> QED
    BY <2>1, FS_Singleton DEF Settlement
<1>4. CleanupRunsAlone
  <2>1. CASE BeforeScope
    BY <2>1 DEF BeforeScope, CleanupRunsAlone, InFlight
  <2>2. CASE \E n \in DOMAIN depth : InScope(depth, n)
    BY <1>2, <2>2 DEF InScope, CleanupRunsAlone
  <2>3. CASE PastScope(depth)
    BY <1>1, <1>2, <2>3 DEF PastScope, CleanupRunsAlone
  <2> QED BY <2>1, <2>2, <2>3 DEF ScopeInv
<1> QED
  BY <1>3, <1>4 DEF CleanupIsExclusive

(* In every workflow that begins with a Finally around effects in sequence,   *)
(* whatever its effects return, whenever they end and whenever Ctrl+C comes,  *)
(* exactly one copy of the cleanup is launched, or Ctrl+C kept all from it,    *)
(* and it runs with nothing beside it (compileFinally, RunFlow).              *)
THEOREM ScopesAreExclusive ==
  ASSUME NEW CONSTANT depth, BeginsWithScope(depth)
  PROVE  Spec => []CleanupIsExclusive
<1>1. Init => ScopeInv(depth)
  BY InitScope
<1>2. IInv /\ ScopeInv(depth) /\ [Next]_vars => ScopeInv(depth)'
  BY NextScope
<1>3. IInv /\ ScopeInv(depth) => CleanupIsExclusive
  BY ScopeSuffices
<1> QED
  BY <1>1, <1>2, <1>3, Invariance, PTL DEF Spec
=============================================================================
