-------------------------- MODULE MCStorePopulation --------------------------
(***************************************************************************)
(* The store alone, and the commands that fill it.                         *)
(***************************************************************************)
EXTENDS StorePopulation

CONSTANTS w1, w2, l1, l2, tarball, directory, before, after

TwoWorkers == {w1, w2}
TwoLocks == {l1, l2}

-----------------------------------------------------------------------------
(* The store alone: two workers and two artifacts, a tarball known under     *)
(* three identities, two registry endpoints of one npm package (2, 3) and a  *)
(* jsr package (1) before them in the canonical order, and a workspace       *)
(* directory (4).  There is no project, and no command is given.             *)
TwoArtifacts == {tarball, directory}
OneDirectory == {directory}
FourIdentities == 1..4
StoreCoordinates == <<1, 2, 2, 3>>
TwoEndpoints == {2, 3}
StoreOffers == [artifact : {tarball}, identity : 1..3] \cup [artifact : {directory}, identity : {4}]
DiskFull == {"write", "extract"}
Nothing == <<>>

StoreSpec == PInit /\ [][Next /\ UNCHANGED <<poolVars, commandVars, projectVars>>]_allVars

-----------------------------------------------------------------------------
(* One project with three packages: an npm and a jsr package with the same   *)
(* bytes, and a workspace directory that somebody edits.                     *)
AllArtifacts == {tarball, before, after}
Directories == {before, after}
ThreeIdentities == 1..3
Coordinates == <<1, 2, 3>>
FromNpm == {2}
EveryOffer == [artifact : AllArtifacts, identity : ThreeIdentities]
LiveFaults == {"write", "read", "edit"}
Damageable == {tarball}

MixedOrder == <<"jsr", "npm", "dir">>
MixedSources == [jsr |-> "jsr", npm |-> "npm", dir |-> "local"]
MixedHashes == [jsr |-> tarball, npm |-> tarball, dir |-> before]
MixedIdentities == [jsr |-> 1, npm |-> 2, dir |-> 3]
MixedEdits == [dir |-> after]
=============================================================================
