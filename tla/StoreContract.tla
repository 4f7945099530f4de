---------------------------- MODULE StoreContract ----------------------------
(***************************************************************************)
(* What the content-addressed store promises its callers: a catalog of the *)
(* package identities known for each artifact, to which identities are     *)
(* added and from which none is ever lost, across crashes too; and a put   *)
(* is reported successful only when its identity is in the catalog.        *)
(***************************************************************************)
CONSTANTS Artifacts, Identities, Offers

VARIABLES
  catalog,   \* the identities recorded for an artifact
  promised   \* the puts reported successful

vars == <<catalog, promised>>

Init ==
  /\ catalog = [a \in Artifacts |-> {}]
  /\ promised = {}

Record(a, i) ==
  /\ catalog' = [catalog EXCEPT ![a] = @ \cup {i}]
  /\ UNCHANGED promised

Promise(o) ==
  /\ o.identity \in catalog[o.artifact]
  /\ promised' = promised \cup {o}
  /\ UNCHANGED catalog

Next ==
  \/ \E a \in Artifacts, i \in Identities : Record(a, i)
  \/ \E o \in Offers : Promise(o)

Spec == Init /\ [][Next]_vars
=============================================================================
