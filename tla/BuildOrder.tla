----------------------------- MODULE BuildOrder -----------------------------
(***************************************************************************)
(* Two depth-first walks over a graph given as a function from nodes to     *)
(* sequences of nodes: orderWorkspaceBuildTargets lists the build targets a  *)
(* request needs, workflowDependencyCycle looks for a cycle among the jobs   *)
(* of a workflow.                                                            *)
(***************************************************************************)
EXTENDS Naturals, FiniteSets, SequencesExt

Cyclic == <<"cyclic">>
Unknown == <<"unknown">>
Impossible(walk) == walk \in {Cyclic, Unknown}

Mentioned(dependsOn) == DOMAIN dependsOn \cup UNION {ToSet(dependsOn[n]) : n \in DOMAIN dependsOn}

Dependencies(dependsOn, node) == IF node \in DOMAIN dependsOn THEN dependsOn[node] ELSE <<>>

Finish_First(walk, node) == IF Impossible(walk) THEN walk ELSE <<node>> \o walk

(* The colours of the walk: done holds the nodes that have been visited, in  *)
(* the order they were finished in, and the front of path those being         *)
(* visited.  A node that is not declared ends the first walk and is a leaf of *)
(* the second.                                                               *)
Finish(walk, node) == IF Impossible(walk) THEN walk ELSE Append(walk, node)

Walk(dependsOn, roots, strict) ==
  LET nodes == Mentioned(dependsOn) \cup ToSet(roots)
      visit[path \in Seq(nodes), done \in Seq(nodes)] ==
        LET node == Last(path)
            Next(walk, dependency) ==
              IF Impossible(walk) THEN walk ELSE visit[Append(path, dependency), walk]
        IN IF node \in ToSet(done) THEN done
           ELSE IF node \in ToSet(Front(path)) THEN Cyclic
           ELSE IF strict /\ node \notin DOMAIN dependsOn THEN Unknown
           ELSE Finish(FoldLeft(Next, done, Dependencies(dependsOn, node)), node)
  IN FoldLeft(LAMBDA walk, root : IF Impossible(walk) THEN walk ELSE visit[<<root>>, walk], <<>>, roots)

OrderWorkspaceBuildTargets(dependsOn, roots) == Walk(dependsOn, roots, TRUE)

WorkflowDependencyCycle(needs, identities) == Walk(needs, identities, FALSE) = Cyclic

-----------------------------------------------------------------------------
(* What the walks are for, with reachability as the least closed set.        *)
Needs(dependsOn, a, b) ==
  \A S \in SUBSET Mentioned(dependsOn) :
    /\ ToSet(Dependencies(dependsOn, a)) \subseteq S
    /\ \A n \in S : ToSet(Dependencies(dependsOn, n)) \subseteq S
    => b \in S

(* The order lists exactly what the roots need, each after its dependencies,*)
(* and there is none exactly when what they need has a cycle or a node that   *)
(* is not declared.                                                          *)
OrderIsSound(dependsOn, roots) ==
  LET order == OrderWorkspaceBuildTargets(dependsOn, roots)
      needed == ToSet(roots) \cup {b \in Mentioned(dependsOn) : \E a \in ToSet(roots) : Needs(dependsOn, a, b)}
      impossible == \E n \in needed : n \notin DOMAIN dependsOn \/ Needs(dependsOn, n, n)
  IN IF Impossible(order) THEN impossible
     ELSE /\ ~impossible
          /\ ToSet(order) = needed
          /\ Len(order) = Cardinality(needed)
          /\ \A i \in DOMAIN order : ToSet(dependsOn[order[i]]) \subseteq ToSet(SubSeq(order, 1, i - 1))

CyclesAreFound(needs, identities) ==
  WorkflowDependencyCycle(needs, identities) <=> \E n \in DOMAIN needs : Needs(needs, n, n)
=============================================================================
