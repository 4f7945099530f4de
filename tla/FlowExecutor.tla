---------------------------- MODULE FlowExecutor ----------------------------
(***************************************************************************)
(* Executor.RunFlow of internal/workflow/flow_executor.go: one coordinator *)
(* goroutine that owns the snapshot, one goroutine per launched effect, a  *)
(* semaphore of Concurrency slots, a buffered completion channel and a     *)
(* context that Ctrl+C may cancel at any moment.                           *)
(*                                                                         *)
(* The coordinator's position in RunFlow is pc.  While pc = "settle" it is *)
(* inside the loop of settleControl for the event named by event; prior is *)
(* the snapshot Step received, which Step gives back when it fails, and    *)
(* scan is the node the loop visited last.                                 *)
(***************************************************************************)
EXTENDS FlowMachine

CONSTANTS
  Concurrency,  \* slots of the semaphore
  MayCancel,    \* whether the environment cancels the context
  MayTimeOut    \* the non-cleanup effects with an authored timeout

ASSUME ConcurrencyAssumption == Concurrency \in Nat \ {0}
ASSUME EnvironmentAssumption == MayCancel \in BOOLEAN /\ MayTimeOut \subseteq Effects

VARIABLES
  pc,         \* where the coordinator is in RunFlow
  snap,       \* the machine snapshot
  prior,      \* the snapshot Step was called with
  event,      \* the event being settled
  scan,       \* the node settleControl visited last
  todo,       \* active effects captured by this round, not yet looked at
  running,    \* the running map
  batch,      \* completions drained from the channel, not yet applied
  task,       \* the goroutine of each effect
  starved,    \* effects launched without one of their inputs in the snapshot
  report,     \* what the goroutine of an effect sent
  channel,    \* effects whose completion is in the channel
  cancelled,  \* ctx.Err() # nil
  verdict     \* Result.State

machineVars == <<snap, prior, event, scan>>
loopVars == <<todo, running, batch>>
taskVars == <<task, starved, report, channel>>
vars == <<pc, machineVars, loopVars, taskVars, cancelled, verdict>>

Position == {"start", "loop", "launch", "collect", "apply", "settle", "report", "done"}
Event == {"start", "finish", "cancelEffect", "cancelFlow"}
TaskState == {"idle", "queued", "holding", "sent", "ended"}
Completion == [error : {"none", "failed", "deadline", "canceled"},
               value : Value]

Init ==
  /\ pc = "start"
  /\ snap = NewSnapshot
  /\ prior = NewSnapshot
  /\ event = "start"
  /\ scan = 0
  /\ todo = {}
  /\ running = {}
  /\ batch = {}
  /\ task = [n \in Nodes |-> "idle"]
  /\ starved = {}
  /\ report = [n \in Nodes |-> [error |-> "none", value |-> NoValue]]
  /\ channel = {}
  /\ cancelled = FALSE
  /\ verdict = "pending"

IsFirst(n, S) == n \in S /\ \A m \in S : n <= m

-----------------------------------------------------------------------------
(***************************************************************************)
(* Step.  BeginStep applies the event; Settle visits the next eligible     *)
(* node in the order of Flow.Nodes, starting over at the end of a pass     *)
(* that made progress; EndStep leaves the loop after a pass without any.   *)
(***************************************************************************)
BeginStep(kind, next) ==
  /\ pc' = "settle"
  /\ event' = kind
  /\ prior' = snap
  /\ snap' = next
  /\ scan' = 0

(* Step gives back the clone it has been changing. *)
FailStep_InPlace(kind, before) ==
  /\ snap' = IF kind = "finish" THEN [snap EXCEPT !.status = "failed"] ELSE snap
  /\ pc' = CASE kind = "start"      -> "done"
             [] kind = "cancelFlow" -> "report"
             [] OTHER               -> "apply"
  /\ verdict' = IF kind = "start" THEN "failed" ELSE verdict

(* The loop goes on after a cancel event it could not apply. *)
FailStep_NoBreak(kind, before) ==
  /\ snap' = IF kind = "finish" THEN [before EXCEPT !.status = "failed"] ELSE before
  /\ pc' = CASE kind = "start"      -> "done"
             [] kind = "cancelFlow" -> "loop"
             [] OTHER               -> "apply"
  /\ verdict' = IF kind = "start" THEN "failed" ELSE verdict

(* What RunFlow does when Step fails: the first event ends the run, a      *)
(* completion makes the workflow fail, and the errors of both cancel       *)
(* events are dropped.                                                     *)
FailStep(kind, before) ==
  /\ snap' = IF kind = "finish" THEN [before EXCEPT !.status = "failed"] ELSE before
  /\ pc' = CASE kind = "start"      -> "done"
             [] kind = "cancelFlow" -> "report"
             [] OTHER               -> "apply"
  /\ verdict' = IF kind = "start" THEN "failed" ELSE verdict

Settle(n) ==
  /\ pc = "settle"
  /\ SettlesNext(snap, scan, n)
  /\ \/ /\ SettleFails(snap, n)
        /\ FailStep(event, prior)
        /\ UNCHANGED <<scan, prior, event>>
     \/ /\ ~SettleFails(snap, n)
        /\ snap' = SettleNode(snap, n)
        /\ scan' = n
        /\ UNCHANGED <<pc, verdict, prior, event>>
  /\ UNCHANGED <<loopVars, taskVars, cancelled>>

EndStep ==
  /\ pc = "settle"
  /\ Settled(snap)
  /\ pc' = CASE event = "start"      -> "loop"
             [] event = "cancelFlow" -> "report"
             [] OTHER                -> "apply"
  /\ UNCHANGED <<machineVars, loopVars, taskVars, cancelled, verdict>>

-----------------------------------------------------------------------------
(***************************************************************************)
(* The coordinator.                                                        *)
(***************************************************************************)
StartFlow ==
  /\ pc = "start"
  /\ BeginStep("start", Start(snap))
  /\ UNCHANGED <<loopVars, taskVars, cancelled, verdict>>

(* The loop's condition, and the three ways on from its head. *)
LeaveLoop ==
  /\ pc = "loop"
  /\ snap.status # "running" /\ running = {}
  /\ pc' = "report"
  /\ UNCHANGED <<machineVars, loopVars, taskVars, cancelled, verdict>>

NothingLeftToCancel ==
  /\ cancelled
  /\ running = {}
  /\ \A n \in ActiveEffects(snap) : ~Flow[n].cleanup

CancelFlow ==
  /\ pc = "loop"
  /\ snap.status = "running" \/ running # {}
  /\ NothingLeftToCancel
  /\ \/ /\ CanStep(snap)
        /\ BeginStep("cancelFlow", CancelRequested(snap))
        /\ UNCHANGED verdict
     \/ /\ ~CanStep(snap)
        /\ FailStep("cancelFlow", snap)
        /\ UNCHANGED <<prior, event, scan>>
  /\ UNCHANGED <<loopVars, taskVars, cancelled>>

BeginRound ==
  /\ pc = "loop"
  /\ snap.status = "running" \/ running # {}
  /\ ~NothingLeftToCancel
  /\ todo' = IF snap.status = "running" THEN ActiveEffects(snap) ELSE {}
  /\ pc' = "launch"
  /\ UNCHANGED <<machineVars, running, batch, taskVars, cancelled, verdict>>

Launch_AfterCancel(n) ==
  /\ pc = "launch"
  /\ IsFirst(n, todo)
  /\ snap.node[n] = "pending"
  /\ CanStep(snap)
  /\ snap' = EffectStarted(snap, n)
  /\ running' = running \cup {n}
  /\ task' = [task EXCEPT ![n] = "queued"]
  /\ todo' = todo \ {n}
  /\ UNCHANGED <<pc, prior, event, scan, batch, starved, report, channel, cancelled, verdict>>

(* effectStarted enables no control node, so its settleControl is empty    *)
(* (LaunchIsSettled) and the whole Step is this action.                    *)
Launch(n) ==
  /\ pc = "launch"
  /\ IsFirst(n, todo)
  /\ Flow[n].cleanup \/ ~cancelled
  /\ snap.node[n] = "pending"
  /\ CanStep(snap)
  /\ snap' = EffectStarted(snap, n)
  /\ running' = running \cup {n}
  /\ task' = [task EXCEPT ![n] = "queued"]
  /\ starved' = IF \A i \in Flow[n].inputs : snap.value[i] # NoValue
                THEN starved ELSE starved \cup {n}
  /\ todo' = todo \ {n}
  /\ UNCHANGED <<pc, prior, event, scan, batch, report, channel, cancelled, verdict>>

SkipLaunch(n) ==
  /\ pc = "launch"
  /\ IsFirst(n, todo)
  /\ cancelled /\ ~Flow[n].cleanup
  /\ todo' = todo \ {n}
  /\ UNCHANGED <<pc, machineVars, running, batch, taskVars, cancelled, verdict>>

RefuseLaunch(n) ==
  /\ pc = "launch"
  /\ IsFirst(n, todo)
  /\ Flow[n].cleanup \/ ~cancelled
  /\ snap.node[n] # "pending" \/ ~CanStep(snap)
  /\ snap' = [snap EXCEPT !.status = "failed"]
  /\ todo' = {}
  /\ UNCHANGED <<pc, prior, event, scan, running, batch, taskVars, cancelled, verdict>>

EndRound ==
  /\ pc = "launch"
  /\ todo = {}
  /\ \/ /\ running # {}
        /\ pc' = "collect"
        /\ UNCHANGED snap
     \/ /\ running = {}
        /\ pc' = "report"
        /\ snap' = IF snap.status = "running" THEN [snap EXCEPT !.status = "failed"]
                   ELSE snap
  /\ UNCHANGED <<prior, event, scan, loopVars, taskVars, cancelled, verdict>>

(* One blocking receive, then every completion already in the channel. *)
Collect ==
  /\ pc = "collect"
  /\ channel # {}
  /\ batch' = channel
  /\ channel' = {}
  /\ pc' = "apply"
  /\ UNCHANGED <<machineVars, todo, running, task, starved, report, cancelled, verdict>>

(* How a completion is read; ctx.Err() is consulted now, not when the      *)
(* effect ended.                                                           *)
OutcomeOf(n) ==
  IF report[n].error = "none" THEN "succeeded"
  ELSE IF cancelled /\ ~Flow[n].cleanup THEN "cancelled"
  ELSE CASE report[n].error = "deadline" -> "timedOut"
         [] report[n].error = "canceled" -> "cancelled"
         [] report[n].error = "failed"   -> "failed"

ApplyCompletion(n) ==
  LET outcome == OutcomeOf(n)
      kind == IF outcome = "cancelled" /\ snap.status = "running"
              THEN "cancelEffect" ELSE "finish"
      accepted == snap.node[n] = "running" /\ CanStep(snap)
  IN
  /\ pc = "apply"
  /\ IsFirst(n, batch)
  /\ batch' = batch \ {n}
  /\ running' = running \ {n}
  /\ \/ /\ accepted
        /\ BeginStep(kind, EffectFinished(snap, n, outcome, report[n].value))
        /\ UNCHANGED verdict
     \/ /\ ~accepted
        /\ kind = "cancelEffect" \/ snap.node[n] = "running"
        /\ FailStep(kind, snap)
        /\ UNCHANGED <<prior, event, scan>>
     \/ /\ kind = "finish" /\ snap.node[n] # "running"
        /\ UNCHANGED <<pc, machineVars, verdict>>
  /\ UNCHANGED <<todo, taskVars, cancelled>>

EndApply ==
  /\ pc = "apply"
  /\ batch = {}
  /\ pc' = "loop"
  /\ UNCHANGED <<machineVars, loopVars, taskVars, cancelled, verdict>>

(* machineResult *)
ReportResult ==
  /\ pc = "report"
  /\ pc' = "done"
  /\ verdict' = snap.status
  /\ UNCHANGED <<machineVars, loopVars, taskVars, cancelled>>

-----------------------------------------------------------------------------
(***************************************************************************)
(* The goroutines of launched effects (runOneFlowEffect).                  *)
(***************************************************************************)
Holders == {n \in Nodes : task[n] \in {"holding", "sent"}}

AcquireSlot(n) ==
  /\ task[n] = "queued"
  /\ Cardinality(Holders) < Concurrency
  /\ task' = [task EXCEPT ![n] = "holding"]
  /\ UNCHANGED <<pc, machineVars, loopVars, starved, report, channel, cancelled, verdict>>

ChannelCapacity == Len(Flow)

Send(n, completion) ==
  /\ Cardinality(channel) < ChannelCapacity
  /\ channel' = channel \cup {n}
  /\ report' = [report EXCEPT ![n] = completion]

(* select picks ctx.Done(): the effect never ran. A cleanup never gives up. *)
GiveUp(n) ==
  /\ task[n] = "queued"
  /\ cancelled /\ ~Flow[n].cleanup
  /\ Send(n, [error |-> "canceled", value |-> NoValue])
  /\ task' = [task EXCEPT ![n] = "ended"]
  /\ UNCHANGED <<pc, machineVars, loopVars, starved, cancelled, verdict>>

(* What runOneFlowEffect can return.  It fails at once without an input or *)
(* on another platform.  A native operation returns a result beside every  *)
(* error of its own, a process returns none.  The context of a cleanup is  *)
(* detached from ctx and always has a deadline.                            *)
Possible(n, completion) ==
  \/ completion = [error |-> "failed", value |-> NoValue]
  \/ /\ n \notin starved
     /\ completion.error = "deadline" => Flow[n].cleanup \/ n \in MayTimeOut
     /\ completion.error = "canceled" => cancelled /\ ~Flow[n].cleanup
     /\ completion.value \in IF ~Flow[n].valued THEN {NoValue}
                              ELSE IF completion.error = "none" /\ Facts # {} THEN Facts
                              ELSE {Bare} \cup Facts

RunEffect(n) ==
  /\ task[n] = "holding"
  /\ \E completion \in Completion :
       Possible(n, completion) /\ Send(n, completion)
  /\ task' = [task EXCEPT ![n] = "sent"]
  /\ UNCHANGED <<pc, machineVars, loopVars, starved, cancelled, verdict>>

ReleaseSlot(n) ==
  /\ task[n] = "sent"
  /\ task' = [task EXCEPT ![n] = "ended"]
  /\ UNCHANGED <<pc, machineVars, loopVars, starved, report, channel, cancelled, verdict>>

(* Ctrl+C *)
CancelContext ==
  /\ MayCancel
  /\ ~cancelled
  /\ pc # "done"
  /\ cancelled' = TRUE
  /\ UNCHANGED <<pc, machineVars, loopVars, taskVars, verdict>>

-----------------------------------------------------------------------------
Coordinator ==
  \/ StartFlow \/ LeaveLoop \/ CancelFlow \/ BeginRound \/ EndRound
  \/ Collect \/ EndApply \/ EndStep \/ ReportResult
  \/ \E n \in Nodes : \/ Settle(n) \/ Launch(n) \/ SkipLaunch(n)
                      \/ RefuseLaunch(n) \/ ApplyCompletion(n)

EffectGoroutine(n) == AcquireSlot(n) \/ GiveUp(n) \/ RunEffect(n) \/ ReleaseSlot(n)

Returned == pc = "done" /\ (\A n \in Nodes : task[n] \in {"idle", "ended"}) /\ UNCHANGED vars

Next ==
  \/ Coordinator
  \/ \E n \in Nodes : EffectGoroutine(n)
  \/ CancelContext
  \/ Returned

(* The coordinator is one goroutine, and every effect has its own: the Go  *)
(* scheduler runs each that is ready.  An effect that holds a slot ends:   *)
(* its process exits, its native call returns or its context ends it.      *)
Fairness ==
  /\ WF_vars(Coordinator)
  /\ \A n \in Nodes : WF_vars(EffectGoroutine(n))

Spec == Init /\ [][Next]_vars
FairSpec == Spec /\ Fairness

-----------------------------------------------------------------------------
(***************************************************************************)
(* Properties.                                                             *)
(***************************************************************************)
(* Every variable has its type. *)
TypeOK ==
  /\ pc \in Position
  /\ snap \in Snapshot
  /\ prior \in Snapshot
  /\ event \in Event
  /\ scan \in 0..Len(Flow)
  /\ todo \subseteq Effects
  /\ running \subseteq Effects
  /\ batch \subseteq Effects
  /\ task \in [Nodes -> TaskState]
  /\ starved \subseteq Effects
  /\ report \in [Nodes -> Completion]
  /\ channel \subseteq Effects
  /\ cancelled \in BOOLEAN
  /\ verdict \in State

InFlight == {n \in Nodes : task[n] \in {"queued", "holding"}}

(* The running map names exactly the effects whose goroutine has not       *)
(* reported, whose report waits in the channel, or whose report is being   *)
(* applied, each in one of these places: RunFlow's loop condition and its  *)
(* blocking receive depend on it.                                          *)
RunningIsAccountedFor ==
  /\ running = InFlight \cup channel \cup batch
  /\ InFlight \cap channel = {} /\ InFlight \cap batch = {} /\ channel \cap batch = {}

(* Whichever of its exits RunFlow takes, no effect is still queued or      *)
(* running and no completion is left unread.                               *)
NoOrphanedEffect == pc = "done" => InFlight = {} /\ channel = {} /\ batch = {}

(* The completion channel holds len(flow.Nodes): an effect that ends never *)
(* blocks on its send while it keeps a slot of the semaphore.              *)
ChannelHasRoom == InFlight # {} => Cardinality(channel) < ChannelCapacity

(* A node that is active, runs or has run had every dependency succeed,    *)
(* and they still stand: joins wait for all their branches and jobs for    *)
(* the jobs they need, whatever the order of completions.                  *)
DependenciesHold == DependenciesMet(snap)

(* Between two events every control node has settled, so that the launch   *)
(* loop works on a complete set of active effects.                         *)
LaunchIsSettled == pc \in {"loop", "launch", "collect", "apply", "report"} => Settled(snap)

(* The flow begins with a Finally, as compileFinally lowers it, whose body  *)
(* is effects in sequence and whose cleanup is one effect: no row leads     *)
(* out of the scope but those of the cleanup's copies, and none leads back.  *)
(* depth counts the nodes of the scope that come before one.                *)
BeginsWithScope(depth) ==
  LET scope == DOMAIN depth
      Rows(n) == {Flow[n].next[label] : label \in DOMAIN Flow[n].next}
  IN /\ scope \subseteq Nodes /\ Entry \in scope /\ CancelledTerminal \notin scope
     /\ \A n \in scope :
          /\ depth[n] \in Nat /\ 2 * depth[n] + 2 < StepLimit
          /\ Flow[n].kind \in {"entry", "iterator", "effect"} /\ Flow[n].waitFor = {}
          /\ Flow[n].kind # "effect" => "continue" \in DOMAIN Flow[n].next
          /\ ~Flow[n].cleanup => \A m \in Rows(n) : m \in scope /\ depth[n] < depth[m]
     /\ \A n \in Nodes : Flow[n].cleanup => n \in scope /\ Flow[n].kind = "effect"
     /\ \A n \in Nodes : n \notin scope \/ Flow[n].cleanup => Rows(n) \cap scope = {}
     /\ \A n \in Nodes \ scope : Flow[n].targets \cap scope = {}

(* The four copies of a cleanup are alternatives: a Finally launches       *)
(* exactly one, and only Ctrl+C may keep it from launching any.            *)
Launched(n) == task[n] # "idle"
LaunchedCleanups == {n \in Effects : Flow[n].cleanup /\ Launched(n)}
CleanupRunsOnce ==
  pc = "done" => \/ Cardinality(LaunchedCleanups) = 1
                 \/ cancelled /\ LaunchedCleanups = {}

(* A cleanup shares the workflow with nothing: it starts when the effects    *)
(* before it have ended, and what follows the Finally waits for it.           *)
CleanupRunsAlone ==
  (\E c \in InFlight : Flow[c].cleanup) => \A n \in InFlight : Flow[n].cleanup

(* The cleanup of a Finally runs once, and alone.                            *)
CleanupIsExclusive == CleanupRunsOnce /\ CleanupRunsAlone

(* RunFlow keeps the contract of structured concurrency: every effect at   *)
(* most once, none after Ctrl+C but cleanup, none outlives the call.       *)
WorkOf(n) ==
  IF task[n] = "idle" THEN "idle"
  ELSE IF task[n] \in {"queued", "holding"} THEN "working"
  ELSE "ended"

Contract == INSTANCE WorkflowContract WITH
  Effect   <- Nodes,
  Cleanup  <- {n \in Nodes : Flow[n].cleanup},
  work     <- [n \in Nodes |-> WorkOf(n)],
  stopped  <- cancelled,
  returned <- pc = "done"
ContractHolds == Contract!Spec

(* RunFlow returns. *)
Termination == <>(pc = "done")
=============================================================================
