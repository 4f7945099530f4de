-------------------------- MODULE MCFlowExecutor --------------------------
(***************************************************************************)
(* Small workflows for FlowExecutor, each lowered by FlowLowering from its *)
(* authored form, so that TLC runs the graphs flow.go builds.  TLC         *)
(* evaluates a definition once when a .cfg names it: Graph is there to     *)
(* name the lowering.  The LET keeps its coverage statistics from going    *)
(* through the whole lowering wherever Flow occurs.                        *)
(***************************************************************************)
EXTENDS FlowExecutor, FlowLowering

CONSTANT Graph

ASSUME LoweredAssumption == ValidateFlow(Graph)

A == Effect("a")
B == Effect("b")
C == Effect("c")
D == Effect("d")
E == Effect("e")
F == Effect("f")

(* A cleanup around two effects in sequence; and then, next to another effect, *)
(* a match whose arms read the result of an effect that did not succeed: a     *)
(* condition on its fact, and an effect that consumes it, where either may be   *)
(* missing.                                                                  *)
Report == Match(D, <<[outcome |-> "succeeded", flow |-> Nothing],
                     [outcome |-> "failed", flow |-> When("d", F, Nothing)],
                     [outcome |-> "cancelled", flow |-> Nothing],
                     [outcome |-> "timedOut", flow |-> Consume("g", {"d"})]>>)
ScopesLowered == BuildFlow(Sequence(<<Finally(Sequence(<<A, B>>), C), Parallel(<<Report, E>>)>>))
LoweredFlow == LET graph == ScopesLowered IN graph

(* A cleanup around two branches, of which one has work after its first effect. *)
BranchesLowered == BuildFlow(Finally(Parallel(<<Sequence(<<A, B>>), C>>), D))
LoweredBranches == LET graph == BranchesLowered IN graph

(* The scope it begins with, by the names of the effects.                      *)
ScopeDepth ==
  [n \in {Entry} \cup {m \in Effects : Flow[m].name \in {"a", "b", "c"}} |->
     CASE Flow[n].name = "a" -> 1
       [] Flow[n].name = "b" -> 2
       [] Flow[n].name = "c" -> 3
       [] OTHER -> 0]

ASSUME ScopeAssumption == Graph = ScopesLowered => BeginsWithScope(ScopeDepth)

OneFact == {"true"}
AllEffects == Effects

(* "If a branch fails, pending sibling work and the continuation become blocked" *)
(* (docs/workflows.md:31): after c has failed no work of its sibling starts.      *)
(* Inside a Finally compileEffect routes the failure to the cleanup, and the      *)
(* other branch goes on.                                                       *)
SiblingsAreBlocked ==
  [][\A c, b \in Effects :
       Flow[c].name = "c" /\ Flow[b].name = "b" /\ snap.node[c] = "failed" /\ ~Launched(b) => ~Launched(b)']_vars
=============================================================================
