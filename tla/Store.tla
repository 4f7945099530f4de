------------------------------- MODULE Store -------------------------------
(***************************************************************************)
(* The content-addressed store of internal/store/store.go: what PutArtifact *)
(* does to one artifact's blob, extracted tree and metadata, by the workers *)
(* of one command that share a Store, step by step, where a step may fail   *)
(* and the whole command may die between any two.                          *)
(*                                                                         *)
(* An artifact is a content hash.  The tree extracted for it is            *)
(*   absent    nothing there,                                              *)
(*   headless  something, but no package.json,                             *)
(*   holed     a package.json, but not what the hash stands for,           *)
(*   whole     what the hash stands for.                                   *)
(* An identity is a source-qualified package that had these bytes; it is   *)
(* its rank in provenanceIdentityKey's order.  CoordinateOf is its source, *)
(* name and version, which several registry endpoints may share.           *)
(***************************************************************************)
EXTENDS Integers, FiniteSets

CONSTANTS
  Workers,       \* goroutines of the command
  Locks,         \* artifactLock values
  Artifacts,     \* content hashes
  Trees,         \* the artifacts that are a directory, not a tarball
  Identities,    \* ranks of package identities
  CoordinateOf,  \* source, name and version of an identity
  HeadChecked,   \* the identities whose source is npm
  Offers,        \* the puts that may be asked for
  Faults,        \* what may go wrong with the file system
  Stuck,         \* artifacts whose tree cannot be removed (a file is in use)
  Fragile,       \* artifacts somebody may damage from outside
  MaxCrashes,    \* bound on the crashes of a behaviour
  None

ASSUME SetAssumption ==
  /\ IsFiniteSet(Workers)
  /\ Trees \subseteq Artifacts
  /\ Stuck \subseteq Artifacts
  /\ Fragile \subseteq Artifacts
  /\ None \notin Workers \cup Locks \cup Artifacts
ASSUME IdentityAssumption ==
  /\ Identities \subseteq Nat
  /\ IsFiniteSet(Identities)
  /\ HeadChecked \subseteq Identities
  /\ CoordinateOf \in [Identities -> Nat]
ASSUME OfferAssumption ==
  /\ Offers \subseteq [artifact : Artifacts, identity : Identities]
  /\ None \notin Offers
ASSUME FaultAssumption ==
  /\ Faults \subseteq {"write", "extract", "read", "edit"}
  /\ MaxCrashes \in Nat

VARIABLES
  blob,      \* the artifacts with a blob
  tree,      \* the tree of an artifact
  meta,      \* the metadata of an artifact
  entry,     \* Store.artifactLocks
  refs,      \* artifactLock.refs
  holder,    \* who holds artifactLock.mu
  pc,        \* where a worker is in PutArtifact
  job,       \* the put it works at
  lockOf,    \* the lock lockArtifact gave it
  existing,  \* the metadata mergeStoredProvenance read
  outcome,   \* whether its last put succeeded
  tampered,  \* artifacts whose tree somebody else changed since it was published
  misread,   \* artifacts published from a directory that had changed since it was hashed
  promised,  \* puts that were reported successful
  crashes

diskVars == <<blob, tree, meta>>
lockVars == <<entry, refs, holder>>
workerVars == <<pc, job, lockOf, existing, outcome>>
historyVars == <<tampered, misread, promised, crashes>>
vars == <<diskVars, lockVars, workerVars, historyVars>>

TreeState == {"absent", "headless", "holed", "whole"}
Position == {"idle", "enter", "wait", "blob", "check", "remove", "clear",
             "publish", "read", "record", "unlock", "release"}
Metadata == [provenance : SUBSET Identities, payload : Identities \cup {None}]
NoMetadata == [provenance |-> {}, payload |-> None]

Init ==
  /\ blob = {}
  /\ tree = [a \in Artifacts |-> "absent"]
  /\ meta = [a \in Artifacts |-> NoMetadata]
  /\ entry = [a \in Artifacts |-> None]
  /\ refs = [l \in Locks |-> 0]
  /\ holder = [l \in Locks |-> None]
  /\ pc = [w \in Workers |-> "idle"]
  /\ job = [w \in Workers |-> None]
  /\ lockOf = [w \in Workers |-> None]
  /\ existing = [w \in Workers |-> NoMetadata]
  /\ outcome = [w \in Workers |-> "ok"]
  /\ tampered = {}
  /\ misread = {}
  /\ promised = {}
  /\ crashes = 0

-----------------------------------------------------------------------------
(* Provenance *)

First(identities) == CHOOSE i \in identities : \A j \in identities : i <= j

(* The identity in the singular fields of the metadata: the canonical one. *)
Header(m) == First(m.provenance)

Merge_Overwrites(old, i) == [provenance |-> {i}, payload |-> i]

(* mergeStoredProvenance: identities accumulate; the other fields are those *)
(* of the put whose coordinates are the canonical ones.                     *)
Merge(old, i) ==
  LET all == old.provenance \cup {i}
      canonical == CoordinateOf[First(all)]
      keeps == /\ old.provenance # {}
               /\ all # {i}
               /\ CoordinateOf[Header(old)] = canonical
               /\ CoordinateOf[i] # canonical
  IN [provenance |-> all, payload |-> IF keeps THEN old.payload ELSE i]

Recorded(a) == meta[a].provenance # {}

(* extractedArtifactHealthy *)
Healthy(a, i) ==
  /\ tree[a] # "absent"
  /\ i \in HeadChecked => tree[a] # "headless"

Reusable_Blob(a, i) == a \in blob \/ tree[a] = "whole"

(* The test of PutArtifact: whether the tree there may stay. *)
Reusable(a, i) == IF a \in Trees THEN tree[a] = "whole" ELSE Healthy(a, i)

(* Verify and Has. *)
Verified(a) ==
  /\ Recorded(a)
  /\ Healthy(a, Header(meta[a]))
  /\ a \in Trees => tree[a] = "whole"

(* What may be left of a tree when some of its files are gone. *)
Remnants(t) ==
  CASE t = "whole" -> {"holed", "headless"}
    [] t = "holed" -> {"headless"}
    [] OTHER -> {}

-----------------------------------------------------------------------------
(* PutArtifact *)

Artifact(w) == job[w].artifact
Identity(w) == job[w].identity

Go(w, from, to) == /\ pc[w] = from
                   /\ pc' = [pc EXCEPT ![w] = to]

Fail(w, from) == /\ Go(w, from, "unlock")
                 /\ outcome' = [outcome EXCEPT ![w] = "failed"]

BeginPut(w, o) ==
  /\ Go(w, "idle", "enter")
  /\ job' = [job EXCEPT ![w] = o]
  /\ UNCHANGED <<diskVars, lockVars, lockOf, existing, outcome, historyVars>>

(* lockArtifact, under artifactLocksMu. *)
FreeLocks == {l \in Locks : \A v \in Workers : lockOf[v] # l}

LockFor(a) == IF entry[a] # None THEN entry[a] ELSE CHOOSE l \in FreeLocks : TRUE

Enter(w) ==
  /\ Go(w, "enter", "wait")
  /\ entry[Artifact(w)] = None => FreeLocks # {}
  /\ LET l == LockFor(Artifact(w))
     IN /\ entry' = [entry EXCEPT ![Artifact(w)] = l]
        /\ refs' = [refs EXCEPT ![l] = IF entry[Artifact(w)] = None THEN 1 ELSE @ + 1]
        /\ lockOf' = [lockOf EXCEPT ![w] = l]
  /\ UNCHANGED <<diskVars, holder, job, existing, outcome, historyVars>>

Acquire(w) ==
  /\ Go(w, "wait", IF Artifact(w) \in Trees THEN "check" ELSE "blob")
  /\ holder[lockOf[w]] = None
  /\ holder' = [holder EXCEPT ![lockOf[w]] = w]
  /\ UNCHANGED <<diskVars, entry, refs, job, lockOf, existing, outcome, historyVars>>

(* writeBlobIfMissing *)
WriteBlob(w) ==
  /\ Go(w, "blob", "check")
  /\ blob' = blob \cup {Artifact(w)}
  /\ UNCHANGED <<tree, meta, lockVars, job, lockOf, existing, outcome, historyVars>>

BlobFails(w) ==
  /\ "write" \in Faults
  /\ Fail(w, "blob")
  /\ Artifact(w) \notin blob
  /\ UNCHANGED <<diskVars, lockVars, job, lockOf, existing, historyVars>>

CheckTree(w) ==
  /\ Go(w, "check", IF Reusable(Artifact(w), Identity(w)) THEN "read" ELSE "remove")
  /\ UNCHANGED <<diskVars, lockVars, job, lockOf, existing, outcome, historyVars>>

(* os.RemoveAll takes one file after another.  PutArtifact does it and looks *)
(* at no error ("remove"); copyTree does it again once it has its copy, and  *)
(* an error ends the put ("clear").                                          *)
AfterRemoval(w) ==
  IF pc[w] = "remove" /\ Artifact(w) \in Trees THEN "clear" ELSE "publish"

RemoveSome(w) ==
  /\ pc[w] \in {"remove", "clear"}
  /\ \E t \in Remnants(tree[Artifact(w)]) : tree' = [tree EXCEPT ![Artifact(w)] = t]
  /\ UNCHANGED <<blob, meta, lockVars, workerVars, historyVars>>

RemoveTree(w) ==
  /\ pc[w] \in {"remove", "clear"}
  /\ pc' = [pc EXCEPT ![w] = AfterRemoval(w)]
  /\ tree' = [tree EXCEPT ![Artifact(w)] = "absent"]
  /\ UNCHANGED <<blob, meta, lockVars, job, lockOf, existing, outcome, historyVars>>

RemoveFails(w) ==
  /\ \/ Go(w, "remove", AfterRemoval(w)) /\ UNCHANGED outcome
     \/ Fail(w, "clear")
  /\ Artifact(w) \in Stuck
  /\ tree[Artifact(w)] # "absent"
  /\ UNCHANGED <<diskVars, lockVars, job, lockOf, existing, historyVars>>

(* What a copy is: not what was asked for if the directory was changed after *)
(* computeHash read it and before copyTree did.                              *)
Copies(a) ==
  IF a \in Trees /\ "edit" \in Faults THEN TreeState \ {"absent"} ELSE {"whole"}

(* finalizeAtomicDirectory: the complete temporary tree is renamed into      *)
(* place; a tree that is still there stays and is accepted.                  *)
PublishTree(w) ==
  /\ Go(w, "publish", "read")
  /\ IF tree[Artifact(w)] = "absent"
       THEN \E t \in Copies(Artifact(w)) :
              /\ tree' = [tree EXCEPT ![Artifact(w)] = t]
              /\ misread' = IF t = "whole" THEN misread \ {Artifact(w)}
                                           ELSE misread \cup {Artifact(w)}
              /\ tampered' = tampered \ {Artifact(w)}
       ELSE UNCHANGED <<tree, tampered, misread>>
  /\ UNCHANGED <<blob, meta, lockVars, job, lockOf, existing, outcome, promised, crashes>>

(* extractTarGz or copyTree fails: what it had is in the temporary tree.     *)
PublishFails(w) ==
  /\ "extract" \in Faults
  /\ \/ Fail(w, "publish")
     \/ Fail(w, "clear")
  /\ UNCHANGED <<diskVars, lockVars, job, lockOf, existing, historyVars>>

(* mergeStoredProvenance takes a file it cannot read for one that is not there. *)
ReadMetadata(w) ==
  /\ Go(w, "read", "record")
  /\ \E m \in {meta[Artifact(w)]} \cup (IF "read" \in Faults THEN {NoMetadata} ELSE {}) :
       existing' = [existing EXCEPT ![w] = m]
  /\ UNCHANGED <<diskVars, lockVars, job, lockOf, outcome, historyVars>>

WriteMetadata(w) ==
  /\ Go(w, "record", "unlock")
  /\ meta' = [meta EXCEPT ![Artifact(w)] = Merge(existing[w], Identity(w))]
  /\ outcome' = [outcome EXCEPT ![w] = "ok"]
  /\ UNCHANGED <<blob, tree, lockVars, job, lockOf, existing, historyVars>>

MetadataFails(w) ==
  /\ "write" \in Faults
  /\ Fail(w, "record")
  /\ UNCHANGED <<diskVars, lockVars, job, lockOf, existing, historyVars>>

Unlock(w) ==
  /\ Go(w, "unlock", "release")
  /\ holder' = [holder EXCEPT ![lockOf[w]] = None]
  /\ existing' = [existing EXCEPT ![w] = NoMetadata]
  /\ UNCHANGED <<diskVars, entry, refs, job, lockOf, outcome, historyVars>>

Release_DropsEntry(w) ==
  /\ Go(w, "release", "idle")
  /\ refs' = [refs EXCEPT ![lockOf[w]] = @ - 1]
  /\ entry' = [entry EXCEPT ![Artifact(w)] = None]
  /\ lockOf' = [lockOf EXCEPT ![w] = None]
  /\ promised' = IF outcome[w] = "ok" THEN promised \cup {job[w]} ELSE promised
  /\ job' = [job EXCEPT ![w] = None]
  /\ outcome' = [outcome EXCEPT ![w] = "ok"]
  /\ UNCHANGED <<diskVars, holder, existing, tampered, misread, crashes>>

(* The rest of lockArtifact's closure, under artifactLocksMu; then PutArtifact *)
(* returns.                                                                  *)
Release(w) ==
  /\ Go(w, "release", "idle")
  /\ refs' = [refs EXCEPT ![lockOf[w]] = @ - 1]
  /\ entry' = IF refs[lockOf[w]] = 1 THEN [entry EXCEPT ![Artifact(w)] = None]
                                     ELSE entry
  /\ lockOf' = [lockOf EXCEPT ![w] = None]
  /\ promised' = IF outcome[w] = "ok" THEN promised \cup {job[w]} ELSE promised
  /\ job' = [job EXCEPT ![w] = None]
  /\ outcome' = [outcome EXCEPT ![w] = "ok"]
  /\ UNCHANGED <<diskVars, holder, existing, tampered, misread, crashes>>

-----------------------------------------------------------------------------
(* Around it *)

(* Somebody deletes or changes files of a tree that no put is working at. *)
Damage(a) ==
  /\ a \in Fragile \ tampered
  /\ \A w \in Workers : job[w] # None => Artifact(w) # a
  /\ \E t \in Remnants(tree[a]) \cup {"absent"} :
       /\ t # tree[a]
       /\ tree' = [tree EXCEPT ![a] = t]
  /\ tampered' = tampered \cup {a}
  /\ UNCHANGED <<blob, meta, lockVars, workerVars, misread, promised, crashes>>

(* The command dies, or ends; the next one opens the store anew. *)
Crash ==
  /\ crashes < MaxCrashes
  /\ crashes' = crashes + 1
  /\ entry' = [a \in Artifacts |-> None]
  /\ refs' = [l \in Locks |-> 0]
  /\ holder' = [l \in Locks |-> None]
  /\ pc' = [w \in Workers |-> "idle"]
  /\ job' = [w \in Workers |-> None]
  /\ lockOf' = [w \in Workers |-> None]
  /\ existing' = [w \in Workers |-> NoMetadata]
  /\ outcome' = [w \in Workers |-> "ok"]
  /\ UNCHANGED <<diskVars, tampered, misread, promised>>

(* What a worker can do about its put on its own, except return from it.     *)
Work(w) ==
  \/ Enter(w) \/ WriteBlob(w) \/ BlobFails(w) \/ CheckTree(w)
  \/ RemoveSome(w) \/ RemoveTree(w) \/ RemoveFails(w)
  \/ PublishTree(w) \/ PublishFails(w)
  \/ ReadMetadata(w) \/ WriteMetadata(w) \/ MetadataFails(w) \/ Unlock(w)

Next ==
  \/ \E w \in Workers : \/ \E o \in Offers : BeginPut(w, o)
                        \/ Acquire(w) \/ Work(w) \/ Release(w)
  \/ \E a \in Artifacts : Damage(a)
  \/ Crash

Spec == Init /\ [][Next]_vars

-----------------------------------------------------------------------------
(* Properties *)

(* Every variable has its type (Store and artifactLock, store.go:26-35).     *)
TypeOK ==
  /\ blob \subseteq Artifacts
  /\ tree \in [Artifacts -> TreeState]
  /\ meta \in [Artifacts -> Metadata]
  /\ entry \in [Artifacts -> Locks \cup {None}]
  /\ refs \in [Locks -> Nat]
  /\ holder \in [Locks -> Workers \cup {None}]
  /\ pc \in [Workers -> Position]
  /\ job \in [Workers -> Offers \cup {None}]
  /\ lockOf \in [Workers -> Locks \cup {None}]
  /\ existing \in [Workers -> Metadata]
  /\ outcome \in [Workers -> {"ok", "failed"}]
  /\ tampered \subseteq Artifacts
  /\ misread \subseteq Trees
  /\ promised \subseteq Offers
  /\ crashes \in 0..MaxCrashes

Critical == {"blob", "check", "remove", "clear", "publish", "read", "record", "unlock"}

(* No two workers are between Lock and Unlock for the same hash, although    *)
(* the mutex they share is made, counted and thrown away as they come and go *)
(* (lockArtifact: an entry deleted too early gives the next caller a mutex   *)
(* of its own).                                                              *)
OneWriterPerArtifact ==
  \A v, w \in Workers :
    (pc[v] \in Critical /\ pc[w] \in Critical /\ Artifact(v) = Artifact(w)) => v = w

(* The store forgets a mutex when nobody is left: artifactLocks has an entry *)
(* only for a hash that somebody is putting.                                 *)
NoLockIsLeaked ==
  \A a \in Artifacts :
    entry[a] # None => \E w \in Workers : lockOf[w] = entry[a] /\ Artifact(w) = a

(* The artifacts whose tree may be wrong though it was published whole, or    *)
(* was taken for whole when it was published.                                *)
Unsound == tampered \cup misread

(* Metadata is written last: whatever failed or died in between, an artifact *)
(* with metadata has its whole tree, and its blob if it is a tarball, unless *)
(* somebody else changed the tree, or it is the copy of a directory that had  *)
(* changed since it was hashed.                                              *)
RecordedIsWhole ==
  \A a \in Artifacts :
    Recorded(a) => /\ a \notin Unsound => tree[a] = "whole"
                   /\ a \notin Trees => a \in blob

(* In whatever order identities with the same bytes are stored, the fields   *)
(* kept besides the provenance are those of the canonical package            *)
(* (mergeStoredProvenance: "metadata depends on insertion order" is what     *)
(* its test guards against, for two identities).                             *)
PayloadIsCanonical ==
  \A a \in Artifacts :
    Recorded(a) => /\ meta[a].payload \in meta[a].provenance
                   /\ CoordinateOf[meta[a].payload] = CoordinateOf[Header(meta[a])]

(* A put that is about to succeed has repaired what it found damaged: always *)
(* for a directory, and for an npm tarball that had lost its package.json,   *)
(* provided the broken tree could be removed.                                *)
PutRepairs ==
  \A w \in Workers :
    (pc[w] = "unlock" /\ outcome[w] = "ok") =>
      /\ (Artifact(w) \in Trees /\ "edit" \notin Faults) => tree[Artifact(w)] = "whole"
      /\ (Artifact(w) \notin Trees \cup Stuck /\ Identity(w) \in HeadChecked) =>
           tree[Artifact(w)] \in {"holed", "whole"}

(* The store is a catalog that only grows: no put loses what another has     *)
(* recorded, and success is reported only for what is in it                  *)
(* (read-merge-write of the metadata, store.go:148-152).                     *)
Contract == INSTANCE StoreContract WITH
  catalog <- [a \in Artifacts |-> meta[a].provenance]
CatalogOnlyGrows == Contract!Spec
=============================================================================
