------------------------- MODULE MCProjectLifecycle -------------------------
(* A manifest over two packages, of which a requires b and only a is listed *)
(* by a build target; two versions of each, of which the first is published.  *)
(* Under <<B1, A>> a lock holds b at both versions.                          *)
EXTENDS ProjectLifecycle

Either == {1, 2}
MCNames == {"a", "b"}
MCVersions == {1, 2}
MCRequiresOf == [p \in [name : MCNames, version : MCVersions] |->
  IF p.name = "a" THEN {[name |-> "b", range |-> IF p.version = 1 THEN Either ELSE {1}]} ELSE {}]
MCListed == {"a"}

A == [name |-> "a", range |-> Either]
B == [name |-> "b", range |-> Either]
B1 == [name |-> "b", range |-> {1}]
A2 == [name |-> "a", range |-> {2}]
MCManifests == {<<A>>, <<B, A>>, <<B1, A>>, <<A2, B>>, <<A, A2>>}

Do(op, name, range) == [op |-> op, name |-> name, range |-> range]
MCCommands == {Do("update", "", {}), Do("update", "a", {}), Do("update", "b", {}), Do("add", "b", {}), Do("add", "b", {2}),
               Do("remove", "b", {}), Do("sync", "", {})}

(* The lockfile and the registry policy, without failures or edits. *)
MCTargeted == {Do("update", "", {}), Do("update", "b", {})}
=============================================================================
