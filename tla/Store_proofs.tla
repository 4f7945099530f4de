---------------------------- MODULE Store_proofs ----------------------------
(***************************************************************************)
(* Theorems of Store and StorePopulation, for every number of workers,     *)
(* artifacts, identities, mutexes, packages and commands, whatever fails   *)
(* and however often a command dies.                                       *)
(*                                                                         *)
(* The invariant comes in three layers, each inductive with the ones below *)
(* it: the mutexes (LockInv), the files (DiskInv), the metadata (MetaInv). *)
(* On top of them stands the invariant of the commands of StorePopulation  *)
(* (PopInv), every step of which is a step of the store or none.           *)
(***************************************************************************)
EXTENDS StorePopulation, FiniteSetTheorems, WellFoundedInduction, TLAPS

USE DEF Unsound

UsersOf(l) == {w \in Workers : lockOf[w] = l}

(* A worker has a put unless it is idle, and a counted mutex from the end  *)
(* of Enter to Release: the one of its artifact, which it holds in between.*)
WorkersAgree ==
  \A w \in Workers :
    /\ job[w] = None <=> pc[w] = "idle"
    /\ lockOf[w] = None <=> pc[w] \in {"idle", "enter"}
    /\ lockOf[w] # None => entry[Artifact(w)] = lockOf[w]
    /\ pc[w] \in Critical => holder[lockOf[w]] = w

(* Who holds a mutex is working under it. *)
HoldersAgree ==
  \A l \in Locks :
    holder[l] # None => pc[holder[l]] \in Critical /\ lockOf[holder[l]] = l

(* A mutex serves one artifact at a time. *)
LocksAreSeparate ==
  \A v, w \in Workers :
    (lockOf[v] # None /\ lockOf[v] = lockOf[w]) => Artifact(v) = Artifact(w)

(* A mutex is counted exactly. *)
RefsAreExact == \A l \in Locks : refs[l] = Cardinality(UsersOf(l))

LockInv ==
  /\ TypeOK
  /\ WorkersAgree
  /\ HoldersAgree
  /\ LocksAreSeparate
  /\ NoLockIsLeaked
  /\ RefsAreExact

-----------------------------------------------------------------------------
(* Types *)

(* A worker with a put has its artifact and its identity. *)
LEMMA JobType ==
  ASSUME TypeOK, NEW w \in Workers, job[w] # None
  PROVE  job[w] \in Offers /\ Artifact(w) \in Artifacts /\ Identity(w) \in Identities
BY OfferAssumption DEF TypeOK, Artifact, Identity

(* The workers of a mutex are finitely many, as the workers are. *)
LEMMA UsersAreFinite ==
  ASSUME NEW l
  PROVE  IsFiniteSet(UsersOf(l)) /\ Cardinality(UsersOf(l)) \in Nat
<1>1. IsFiniteSet(UsersOf(l))
  BY SetAssumption, FS_Subset DEF UsersOf
<1> QED
  BY <1>1, FS_CardinalityType

(* Merging one more identity into metadata gives metadata. *)
LEMMA MergeType ==
  ASSUME NEW old \in Metadata, NEW i \in Identities
  PROVE  /\ Merge(old, i) \in Metadata
         /\ Merge(old, i).provenance = old.provenance \cup {i}
BY DEF Merge, Metadata

(* The initial state satisfies the lock layer. *)
LEMMA InitLockInv == Init => LockInv
<1> SUFFICES ASSUME Init PROVE LockInv
  OBVIOUS
<1>1. TypeOK
  BY FaultAssumption DEF Init, TypeOK, TreeState, Metadata, NoMetadata, Position
<1>2. RefsAreExact
  <2> SUFFICES ASSUME NEW l \in Locks PROVE refs[l] = Cardinality(UsersOf(l))
    BY DEF RefsAreExact
  <2>1. UsersOf(l) = {}
    BY SetAssumption DEF Init, UsersOf
  <2> QED
    BY <2>1, FS_EmptySet DEF Init
<1> QED
  BY <1>1, <1>2 DEF Init, LockInv, WorkersAgree, HoldersAgree, LocksAreSeparate,
     NoLockIsLeaked, Critical

-----------------------------------------------------------------------------
(* The mutexes *)

(* A step of a worker from one position to another. *)
Moves(w, from, to) ==
  /\ pc[w] \in from
  /\ \E p \in to : pc' = [pc EXCEPT ![w] = p]

(* What a worker does under its mutex disturbs no mutex. *)
LEMMA UnderTheMutex ==
  ASSUME LockInv, TypeOK', NEW w \in Workers, Moves(w, Critical, Critical),
         UNCHANGED <<entry, refs, holder, job, lockOf>>
  PROVE  LockInv'
<1>1. \A v \in Workers : /\ pc'[v] \in Critical <=> pc[v] \in Critical
                         /\ pc'[v] = "idle" <=> pc[v] = "idle"
                         /\ pc'[v] \in {"idle", "enter"} <=> pc[v] \in {"idle", "enter"}
  BY DEF LockInv, TypeOK, Moves, Critical
<1>2. WorkersAgree'
  BY <1>1 DEF LockInv, WorkersAgree, Artifact
<1>3. HoldersAgree'
  BY <1>1 DEF LockInv, TypeOK, HoldersAgree
<1>4. LocksAreSeparate' /\ NoLockIsLeaked'
  BY DEF LockInv, LocksAreSeparate, NoLockIsLeaked, Artifact
<1>5. RefsAreExact'
  BY DEF LockInv, RefsAreExact, UsersOf
<1> QED
  BY <1>2, <1>3, <1>4, <1>5 DEF LockInv

(* Beginning a put disturbs no mutex. *)
LEMMA BeginPutLockInv ==
  ASSUME LockInv, NEW w \in Workers, NEW o \in Offers, BeginPut(w, o)
  PROVE  LockInv'
<1> USE DEF LockInv
<1>1. TypeOK'
  BY DEF TypeOK, BeginPut, Go, Position, diskVars, lockVars, historyVars
<1>2. /\ pc[w] = "idle" /\ lockOf[w] = None /\ lockOf' = lockOf
      /\ o # None
      /\ \A v \in Workers \ {w} : pc'[v] = pc[v] /\ job'[v] = job[v]
      /\ pc'[w] = "enter" /\ job'[w] = o
      /\ entry' = entry /\ refs' = refs /\ holder' = holder
  BY OfferAssumption DEF TypeOK, WorkersAgree, BeginPut, Go, diskVars, lockVars
<1>3. \A v \in Workers : lockOf[v] # None => v # w /\ Artifact(v)' = Artifact(v)
  BY <1>2 DEF Artifact
<1>4. WorkersAgree'
  BY <1>2, <1>3 DEF WorkersAgree, Critical
<1>5. HoldersAgree'
  BY <1>2 DEF TypeOK, HoldersAgree, Critical
<1>6. LocksAreSeparate'
  BY <1>2, <1>3 DEF LocksAreSeparate
<1>7. NoLockIsLeaked'
  BY <1>2, <1>3 DEF NoLockIsLeaked
<1>8. RefsAreExact'
  BY <1>2 DEF RefsAreExact, UsersOf
<1> QED
  BY <1>1, <1>4, <1>5, <1>6, <1>7, <1>8

(* lockArtifact finds or makes the mutex of the artifact, and counts one   *)
(* more user.                                                              *)
LEMMA EnterLockInv ==
  ASSUME LockInv, NEW w \in Workers, Enter(w)
  PROVE  LockInv'
<1> USE DEF LockInv
<1> DEFINE a == Artifact(w)
           l == LockFor(a)
<1>1. /\ pc[w] = "enter" /\ job[w] # None /\ lockOf[w] = None
      /\ a \in Artifacts
  BY JobType DEF Enter, Go, WorkersAgree
<1>2. /\ l \in Locks
      /\ \A v \in Workers : lockOf[v] = l => entry[a] = l /\ Artifact(v) = a
      /\ entry[a] # None => l = entry[a]
  <2>1. CASE entry[a] # None
    <3>1. l = entry[a]
      BY <2>1 DEF LockFor
    <3>2. PICK u \in Workers : lockOf[u] = entry[a] /\ Artifact(u) = a
      BY <1>1, <2>1 DEF NoLockIsLeaked
    <3>3. \A v \in Workers : lockOf[v] = l => Artifact(v) = a
      BY <2>1, <3>1, <3>2 DEF LocksAreSeparate
    <3> QED
      BY <1>1, <2>1, <3>1, <3>3 DEF TypeOK
  <2>2. CASE entry[a] = None
    <3>1. FreeLocks # {} /\ l \in FreeLocks
      BY <2>2 DEF Enter, LockFor
    <3> QED
      BY <2>2, <3>1 DEF FreeLocks
  <2> QED
    BY <2>1, <2>2
<1>3. l # None
  BY <1>2, SetAssumption
<1>4. /\ \A v \in Workers \ {w} : pc'[v] = pc[v] /\ lockOf'[v] = lockOf[v]
      /\ pc'[w] = "wait" /\ lockOf'[w] = l
      /\ \A b \in Artifacts \ {a} : entry'[b] = entry[b]
      /\ entry'[a] = l
      /\ job' = job /\ holder' = holder
      /\ \A v \in Workers : Artifact(v)' = Artifact(v)
  BY <1>1 DEF TypeOK, Enter, Go, Artifact
<1>5. TypeOK'
  <2>1. refs' \in [Locks -> Nat]
    BY <1>2 DEF TypeOK, Enter
  <2> QED
    BY <1>2, <2>1 DEF TypeOK, Enter, Go, Position, diskVars, historyVars
<1>6. WorkersAgree'
  <2> SUFFICES ASSUME NEW v \in Workers
               PROVE  /\ job'[v] = None <=> pc'[v] = "idle"
                      /\ lockOf'[v] = None <=> pc'[v] \in {"idle", "enter"}
                      /\ lockOf'[v] # None => entry'[Artifact(v)] = lockOf'[v]
                      /\ pc'[v] \in Critical => holder'[lockOf'[v]] = v
    BY <1>4 DEF WorkersAgree
  <2>1. CASE v = w
    BY <1>1, <1>3, <1>4, <2>1 DEF Critical
  <2>2. CASE v # w
    <3>1. lockOf[v] # None => job[v] # None /\ Artifact(v) \in Artifacts
      BY JobType DEF WorkersAgree
    <3>2. lockOf[v] # None => entry'[Artifact(v)] = lockOf[v]
      BY <1>2, <1>4, <2>2, <3>1 DEF WorkersAgree
    <3> QED
      BY <1>4, <2>2, <3>2 DEF WorkersAgree
  <2> QED
    BY <2>1, <2>2
<1>7. HoldersAgree'
  BY <1>1, <1>4 DEF TypeOK, HoldersAgree, Critical
<1>8. LocksAreSeparate'
  BY <1>1, <1>2, <1>4 DEF LocksAreSeparate
<1>9. NoLockIsLeaked'
  <2> SUFFICES ASSUME NEW b \in Artifacts, entry'[b] # None
               PROVE  \E v \in Workers : lockOf'[v] = entry'[b] /\ Artifact(v) = b
    BY <1>4 DEF NoLockIsLeaked
  <2>1. CASE b = a
    BY <1>4, <2>1
  <2>2. CASE b # a
    BY <1>1, <1>4, <2>2 DEF NoLockIsLeaked
  <2> QED
    BY <2>1, <2>2
<1>10. RefsAreExact'
  <2> SUFFICES ASSUME NEW k \in Locks PROVE refs'[k] = Cardinality(UsersOf(k)')
    BY DEF RefsAreExact
  <2>1. CASE k # l
    <3>1. UsersOf(k)' = UsersOf(k)
      BY <1>1, <1>4, <2>1, SetAssumption DEF UsersOf
    <3>2. refs'[k] = refs[k]
      BY <2>1 DEF Enter, TypeOK
    <3> QED
      BY <3>1, <3>2 DEF RefsAreExact
  <2>2. CASE k = l
    <3>1. UsersOf(k)' = UsersOf(k) \cup {w} /\ w \notin UsersOf(k)
      BY <1>1, <1>3, <1>4, <2>2 DEF UsersOf
    <3>2. Cardinality(UsersOf(k)') = Cardinality(UsersOf(k)) + 1
      BY <3>1, UsersAreFinite, FS_AddElement
    <3>3. CASE entry[a] # None
      <4>1. refs'[k] = refs[k] + 1
        BY <1>2, <2>2, <3>3 DEF Enter, TypeOK
      <4> QED
        BY <3>2, <4>1 DEF RefsAreExact
    <3>4. CASE entry[a] = None
      <4>1. refs'[k] = 1
        BY <1>2, <2>2, <3>4 DEF Enter, TypeOK
      <4>2. UsersOf(k) = {}
        BY <1>2, <1>3, <2>2, <3>4 DEF UsersOf
      <4> QED
        BY <3>2, <4>1, <4>2, FS_EmptySet
    <3> QED
      BY <3>3, <3>4
  <2> QED
    BY <2>1, <2>2
<1> QED
  BY <1>5, <1>6, <1>7, <1>8, <1>9, <1>10

(* Taking the mutex: nobody else holds it. *)
LEMMA AcquireLockInv ==
  ASSUME LockInv, NEW w \in Workers, Acquire(w)
  PROVE  LockInv'
<1> USE DEF LockInv
<1>1. /\ pc[w] = "wait" /\ lockOf[w] \in Locks /\ holder[lockOf[w]] = None
  BY DEF Acquire, Go, WorkersAgree, TypeOK
<1>2. /\ \A v \in Workers \ {w} : pc'[v] = pc[v]
      /\ pc'[w] \in {"check", "blob"}
      /\ \A l \in Locks \ {lockOf[w]} : holder'[l] = holder[l]
      /\ holder'[lockOf[w]] = w
      /\ entry' = entry /\ refs' = refs /\ job' = job /\ lockOf' = lockOf
      /\ \A v \in Workers : Artifact(v)' = Artifact(v)
  BY <1>1 DEF Acquire, Go, TypeOK, Artifact
<1>3. TypeOK'
  BY <1>1 DEF TypeOK, Acquire, Go, Position, diskVars, historyVars
<1>4. \A v \in Workers \ {w} : pc[v] \in Critical => lockOf[v] \in Locks \ {lockOf[w]}
  BY <1>1, SetAssumption DEF WorkersAgree, TypeOK, Critical
<1>5. WorkersAgree'
  BY <1>1, <1>2, <1>4 DEF WorkersAgree, Critical
<1>6. HoldersAgree'
  BY <1>1, <1>2 DEF HoldersAgree, TypeOK, Critical
<1>7. LocksAreSeparate' /\ NoLockIsLeaked'
  BY <1>2 DEF LocksAreSeparate, NoLockIsLeaked
<1>8. RefsAreExact'
  BY <1>2 DEF RefsAreExact, UsersOf
<1> QED
  BY <1>3, <1>5, <1>6, <1>7, <1>8

(* Giving the mutex back. *)
LEMMA UnlockLockInv ==
  ASSUME LockInv, NEW w \in Workers, Unlock(w)
  PROVE  LockInv'
<1> USE DEF LockInv
<1>1. /\ pc[w] = "unlock" /\ lockOf[w] \in Locks /\ holder[lockOf[w]] = w
  BY DEF Unlock, Go, WorkersAgree, TypeOK, Critical
<1>2. /\ \A v \in Workers \ {w} : pc'[v] = pc[v]
      /\ pc'[w] = "release"
      /\ \A l \in Locks \ {lockOf[w]} : holder'[l] = holder[l]
      /\ holder'[lockOf[w]] = None
      /\ entry' = entry /\ refs' = refs /\ job' = job /\ lockOf' = lockOf
      /\ \A v \in Workers : Artifact(v)' = Artifact(v)
  BY <1>1 DEF Unlock, Go, TypeOK, Artifact
<1>3. TypeOK'
  BY <1>1 DEF TypeOK, Unlock, Go, Position, Metadata, NoMetadata, diskVars, historyVars
<1>4. \A v \in Workers \ {w} : pc[v] \in Critical => lockOf[v] \in Locks \ {lockOf[w]}
  BY <1>1 DEF WorkersAgree, TypeOK, Critical
<1>5. WorkersAgree'
  BY <1>1, <1>2, <1>4 DEF WorkersAgree, Critical
<1>6. HoldersAgree'
  BY <1>1, <1>2, SetAssumption DEF HoldersAgree, TypeOK, Critical
<1>7. LocksAreSeparate' /\ NoLockIsLeaked'
  BY <1>2 DEF LocksAreSeparate, NoLockIsLeaked
<1>8. RefsAreExact'
  BY <1>2 DEF RefsAreExact, UsersOf
<1> QED
  BY <1>3, <1>5, <1>6, <1>7, <1>8

(* The last user of a mutex, and only the last, takes it out of the map.   *)
LEMMA ReleaseLockInv ==
  ASSUME LockInv, NEW w \in Workers, Release(w)
  PROVE  LockInv'
<1> USE DEF LockInv
<1>1. PICK l \in Locks, a \in Artifacts :
        lockOf[w] = l /\ Artifact(w) = a /\ entry[a] = l
  BY JobType DEF Release, Go, WorkersAgree, TypeOK
<1>2. /\ pc[w] = "release" /\ job[w] # None /\ job[w] \in Offers /\ l # None
  BY <1>1, JobType, SetAssumption DEF Release, Go, WorkersAgree
<1>3. /\ \A v \in Workers \ {w} : pc'[v] = pc[v] /\ lockOf'[v] = lockOf[v] /\ job'[v] = job[v]
      /\ pc'[w] = "idle" /\ lockOf'[w] = None /\ job'[w] = None
      /\ \A b \in Artifacts \ {a} : entry'[b] = entry[b]
      /\ entry'[a] = IF refs[l] = 1 THEN None ELSE l
      /\ \A k \in Locks \ {l} : refs'[k] = refs[k]
      /\ refs'[l] = refs[l] - 1
      /\ holder' = holder
      /\ \A v \in Workers \ {w} : Artifact(v)' = Artifact(v)
  BY <1>1 DEF Release, Go, TypeOK, Artifact
<1>4. /\ w \in UsersOf(l) /\ UsersOf(l)' = UsersOf(l) \ {w}
      /\ \A k \in Locks \ {l} : UsersOf(k)' = UsersOf(k)
  BY <1>1, <1>2, <1>3, SetAssumption DEF UsersOf
<1>5. /\ refs[l] = Cardinality(UsersOf(l))
      /\ Cardinality(UsersOf(l) \ {w}) = refs[l] - 1
      /\ Cardinality(UsersOf(l) \ {w}) \in Nat
  BY <1>4, UsersAreFinite, FS_RemoveElement, FS_CardinalityType DEF RefsAreExact
<1>6. refs[l] = 1 <=> \A v \in Workers \ {w} : lockOf[v] # l
  <2>1. IsFiniteSet(UsersOf(l) \ {w})
    BY UsersAreFinite, FS_RemoveElement
  <2>2. Cardinality(UsersOf(l) \ {w}) = 0 <=> UsersOf(l) \ {w} = {}
    BY <2>1, FS_EmptySet
  <2>3. refs[l] \in Nat
    BY DEF TypeOK
  <2>4. refs[l] = 1 <=> UsersOf(l) \ {w} = {}
    BY <1>5, <2>2, <2>3
  <2> QED
    BY <2>4 DEF UsersOf
<1>7. TypeOK'
  <2>1. refs' \in [Locks -> Nat]
    BY <1>1, <1>5 DEF TypeOK, Release
  <2>2. promised' \subseteq Offers
    BY <1>2 DEF TypeOK, Release
  <2>3. entry' \in [Artifacts -> Locks \cup {None}]
    BY <1>1 DEF TypeOK, Release
  <2> QED
    BY <2>1, <2>2, <2>3 DEF TypeOK, Release, Go, Position, diskVars
<1>8. RefsAreExact'
  <2> SUFFICES ASSUME NEW k \in Locks PROVE refs'[k] = Cardinality(UsersOf(k)')
    BY DEF RefsAreExact
  <2>1. CASE k = l
    BY <1>3, <1>4, <1>5, <2>1
  <2>2. CASE k # l
    BY <1>3, <1>4, <2>2 DEF RefsAreExact
  <2> QED
    BY <2>1, <2>2
<1>9. WorkersAgree'
  <2> SUFFICES ASSUME NEW v \in Workers
               PROVE  /\ job'[v] = None <=> pc'[v] = "idle"
                      /\ lockOf'[v] = None <=> pc'[v] \in {"idle", "enter"}
                      /\ lockOf'[v] # None => entry'[Artifact(v)'] = lockOf'[v]
                      /\ pc'[v] \in Critical => holder'[lockOf'[v]] = v
    BY DEF WorkersAgree
  <2>1. CASE v = w
    BY <1>3, <2>1 DEF Critical
  <2>2. CASE v # w /\ lockOf[v] = None
    BY <1>3, <2>2 DEF WorkersAgree, Critical
  <2>3. CASE v # w /\ lockOf[v] # None
    <3>1. Artifact(v) \in Artifacts /\ entry[Artifact(v)] = lockOf[v]
      BY <2>3, JobType DEF WorkersAgree
    <3>2. entry'[Artifact(v)] = lockOf[v]
      BY <1>1, <1>3, <1>6, <2>3, <3>1
    <3> QED
      BY <1>3, <2>3, <3>2 DEF WorkersAgree
  <2> QED
    BY <2>1, <2>2, <2>3
<1>10. HoldersAgree'
  BY <1>2, <1>3, SetAssumption DEF HoldersAgree, TypeOK, Critical
<1>11. LocksAreSeparate'
  BY <1>3 DEF LocksAreSeparate
<1>12. NoLockIsLeaked'
  <2> SUFFICES ASSUME NEW b \in Artifacts, entry'[b] # None
               PROVE  \E v \in Workers : lockOf'[v] = entry'[b] /\ Artifact(v)' = b
    BY DEF NoLockIsLeaked
  <2>1. CASE b = a
    <3>1. PICK v \in Workers \ {w} : lockOf[v] = l
      BY <1>3, <1>6, <2>1
    <3>2. Artifact(v) = a
      BY <1>1, <1>2, <3>1 DEF LocksAreSeparate
    <3> QED
      BY <1>3, <1>6, <2>1, <3>1, <3>2
  <2>2. CASE b # a
    <3>1. entry[b] # None /\ entry'[b] = entry[b]
      BY <1>3, <2>2
    <3>2. PICK v \in Workers : lockOf[v] = entry[b] /\ Artifact(v) = b
      BY <3>1 DEF NoLockIsLeaked
    <3> QED
      BY <1>1, <1>3, <2>2, <3>1, <3>2
  <2> QED
    BY <2>1, <2>2
<1> QED
  BY <1>7, <1>8, <1>9, <1>10, <1>11, <1>12

(* The process takes its mutexes with it. *)
LEMMA CrashLockInv ==
  ASSUME LockInv, Crash
  PROVE  LockInv'
<1>1. TypeOK'
  BY FaultAssumption DEF LockInv, TypeOK, Crash, Position, Metadata, NoMetadata, diskVars
<1>2. RefsAreExact'
  <2> SUFFICES ASSUME NEW l \in Locks PROVE refs'[l] = Cardinality(UsersOf(l)')
    BY DEF RefsAreExact
  <2>1. UsersOf(l)' = {}
    BY SetAssumption DEF Crash, UsersOf
  <2> QED
    BY <2>1, FS_EmptySet DEF Crash
<1> QED
  BY <1>1, <1>2 DEF Crash, LockInv, WorkersAgree, HoldersAgree, LocksAreSeparate,
     NoLockIsLeaked, Critical

(* The steps between Lock and Unlock: they move their worker within the    *)
(* critical positions and leave the mutexes alone.                         *)
CriticalStep(w) ==
  \/ WriteBlob(w) \/ BlobFails(w) \/ CheckTree(w)
  \/ RemoveSome(w) \/ RemoveTree(w) \/ RemoveFails(w)
  \/ PublishTree(w) \/ PublishFails(w)
  \/ ReadMetadata(w) \/ WriteMetadata(w) \/ MetadataFails(w)

(* They do move their worker so, and leave the rest as it is. *)
LEMMA CriticalStepMoves ==
  ASSUME TypeOK, NEW w \in Workers, CriticalStep(w)
  PROVE  /\ Moves(w, Critical, Critical)
         /\ UNCHANGED <<entry, refs, holder, job, lockOf, promised, crashes>>
<1> USE DEF Moves, Critical, Go, Fail, AfterRemoval, lockVars, historyVars, workerVars
<1>1. CASE WriteBlob(w) \/ BlobFails(w) \/ CheckTree(w)
  BY <1>1 DEF WriteBlob, BlobFails, CheckTree
<1>2. CASE RemoveSome(w)
  <2>1. pc' = [pc EXCEPT ![w] = pc[w]]
    BY <1>2 DEF RemoveSome, TypeOK
  <2> QED
    BY <1>2, <2>1 DEF RemoveSome
<1>3. CASE RemoveTree(w) \/ RemoveFails(w)
  BY <1>3 DEF RemoveTree, RemoveFails
<1>4. CASE PublishTree(w) \/ PublishFails(w)
  BY <1>4 DEF PublishTree, PublishFails
<1>5. CASE ReadMetadata(w) \/ WriteMetadata(w) \/ MetadataFails(w)
  BY <1>5 DEF ReadMetadata, WriteMetadata, MetadataFails
<1> QED
  BY <1>1, <1>2, <1>3, <1>4, <1>5 DEF CriticalStep

(* And they keep every variable in its type. *)
LEMMA CriticalStepType ==
  ASSUME LockInv, NEW w \in Workers, CriticalStep(w)
  PROVE  TypeOK'
<1> USE DEF LockInv
<1>1. pc[w] \in Critical /\ job[w] # None
  BY CriticalStepMoves DEF Moves, WorkersAgree, Critical
<1>2. Artifact(w) \in Artifacts /\ Identity(w) \in Identities
  BY <1>1, JobType
<1>3. pc' \in [Workers -> Position]
  BY CriticalStepMoves DEF Moves, TypeOK, Position, Critical
<1>4. UNCHANGED <<entry, refs, holder, job, lockOf, promised, crashes>>
  BY CriticalStepMoves
<1> USE DEF TypeOK, diskVars, historyVars
<1>5. CASE WriteBlob(w) \/ BlobFails(w) \/ CheckTree(w)
  BY <1>2, <1>3, <1>4, <1>5 DEF WriteBlob, BlobFails, CheckTree, Fail
<1>6. CASE RemoveSome(w) \/ RemoveTree(w) \/ RemoveFails(w)
  BY <1>2, <1>3, <1>4, <1>6
     DEF RemoveSome, RemoveTree, RemoveFails, Fail, Remnants, TreeState, workerVars
<1>7. CASE PublishTree(w)
  <2>1. Copies(Artifact(w)) \subseteq TreeState
    BY DEF Copies, TreeState
  <2>2. Artifact(w) \notin Trees => Copies(Artifact(w)) = {"whole"}
    BY DEF Copies
  <2>3. misread' \subseteq Trees
    BY <1>7, <2>2 DEF PublishTree
  <2> QED
    BY <1>2, <1>3, <1>4, <1>7, <2>1, <2>3 DEF PublishTree
<1>8. CASE PublishFails(w) \/ MetadataFails(w)
  BY <1>3, <1>4, <1>8 DEF PublishFails, MetadataFails, Fail
<1>9. CASE ReadMetadata(w)
  <2>1. meta[Artifact(w)] \in Metadata /\ NoMetadata \in Metadata
    BY <1>2 DEF NoMetadata, Metadata
  <2> QED
    BY <1>3, <1>4, <1>9, <2>1 DEF ReadMetadata
<1>10. CASE WriteMetadata(w)
  <2>1. Merge(existing[w], Identity(w)) \in Metadata
    BY <1>2, MergeType
  <2> QED
    BY <1>2, <1>3, <1>4, <1>10, <2>1 DEF WriteMetadata
<1> QED
  BY <1>5, <1>6, <1>7, <1>8, <1>9, <1>10 DEF CriticalStep

(* Somebody who changes a tree touches no mutex. *)
LEMMA DamageLockInv ==
  ASSUME LockInv, NEW a \in Artifacts, Damage(a)
  PROVE  LockInv'
<1> USE DEF LockInv
<1>1. UNCHANGED <<entry, refs, holder, pc, job, lockOf>>
  BY DEF Damage, lockVars, workerVars
<1>2. TypeOK'
  BY DEF Damage, TypeOK, Remnants, TreeState, lockVars, workerVars
<1> QED
  BY <1>1, <1>2 DEF WorkersAgree, HoldersAgree, LocksAreSeparate, NoLockIsLeaked,
     RefsAreExact, UsersOf, Artifact

(* Every step keeps the lock layer. *)
LEMMA NextLockInv == LockInv /\ [Next]_vars => LockInv'
<1> SUFFICES ASSUME LockInv, [Next]_vars PROVE LockInv'
  OBVIOUS
<1>1. ASSUME NEW w \in Workers, NEW o \in Offers, BeginPut(w, o) PROVE LockInv'
  BY <1>1, BeginPutLockInv
<1>2. ASSUME NEW w \in Workers, Enter(w) PROVE LockInv'
  BY <1>2, EnterLockInv
<1>3. ASSUME NEW w \in Workers, Acquire(w) PROVE LockInv'
  BY <1>3, AcquireLockInv
<1>4. ASSUME NEW w \in Workers, CriticalStep(w) PROVE LockInv'
  BY <1>4, CriticalStepMoves, CriticalStepType, UnderTheMutex DEF LockInv
<1>5. ASSUME NEW w \in Workers, Unlock(w) PROVE LockInv'
  BY <1>5, UnlockLockInv
<1>6. ASSUME NEW w \in Workers, Release(w) PROVE LockInv'
  BY <1>6, ReleaseLockInv
<1>7. ASSUME NEW a \in Artifacts, Damage(a) PROVE LockInv'
  BY <1>7, DamageLockInv
<1>8. CASE Crash
  BY <1>8, CrashLockInv
<1>9. CASE UNCHANGED vars
  BY <1>9 DEF LockInv, TypeOK, WorkersAgree, HoldersAgree, LocksAreSeparate,
     NoLockIsLeaked, RefsAreExact, UsersOf, Artifact, vars, diskVars, lockVars,
     workerVars, historyVars
<1> QED
  BY <1>1, <1>2, <1>3, <1>4, <1>5, <1>6, <1>7, <1>8, <1>9 DEF Next, Work, CriticalStep

(* The lock layer holds throughout. *)
LEMMA LockLayer == Spec => []LockInv
<1> QED
  BY InitLockInv, NextLockInv, PTL DEF Spec

(* Every variable keeps its type; above all, no mutex is counted below     *)
(* zero (lock.refs--, store.go:285).                                       *)
THEOREM TypeCorrectness == Spec => []TypeOK
<1>1. LockInv => TypeOK
  BY DEF LockInv
<1> QED
  BY <1>1, LockLayer, PTL

(* artifactLocks forgets every mutex that nobody uses (store.go:286-288).  *)
THEOREM LocksAreForgotten == Spec => []NoLockIsLeaked
<1>1. LockInv => NoLockIsLeaked
  BY DEF LockInv
<1> QED
  BY <1>1, LockLayer, PTL

(* Two workers in the critical section of one artifact are the same worker.*)
LEMMA Exclusion == LockInv => OneWriterPerArtifact
<1> SUFFICES ASSUME LockInv, NEW v \in Workers, NEW w \in Workers,
                    pc[v] \in Critical, pc[w] \in Critical, Artifact(v) = Artifact(w)
             PROVE  v = w
  BY DEF OneWriterPerArtifact
<1>1. lockOf[v] # None /\ lockOf[w] # None
  BY DEF LockInv, WorkersAgree, Critical
<1>2. lockOf[v] = lockOf[w]
  BY <1>1 DEF LockInv, WorkersAgree
<1> QED
  BY <1>2 DEF LockInv, WorkersAgree

(* One worker at a time between Lock and Unlock of a hash, with however    *)
(* many workers and mutexes made and forgotten (store.go:270-291).         *)
THEOREM MutualExclusion == Spec => []OneWriterPerArtifact
<1> QED
  BY LockLayer, Exclusion, PTL

-----------------------------------------------------------------------------
(* The files *)

(* The tree of an artifact changes only through puts, unless tampered with;*)
(* what is recorded is whole.                                              *)
FilesAgree(a) ==
  /\ a \notin Unsound => tree[a] \in {"absent", "whole"}
  /\ Recorded(a) => /\ a \notin Unsound => tree[a] = "whole"
                    /\ a \notin Trees => a \in blob

(* What a put has repaired: see PutRepairs. *)
Repaired(w) ==
  /\ (Artifact(w) \in Trees /\ "edit" \notin Faults) => tree[Artifact(w)] = "whole"
  /\ (Artifact(w) \notin Trees \cup Stuck /\ Identity(w) \in HeadChecked) =>
       tree[Artifact(w)] \in {"holed", "whole"}

(* What a worker under the mutex knows about its artifact: that it removes *)
(* only what is broken, that it records only what is there.                *)
KnowsItsFiles(w) ==
  /\ pc[w] \in {"remove", "clear", "publish"} =>
       (Artifact(w) \notin Unsound => tree[Artifact(w)] = "absent")
  /\ pc[w] \in {"read", "record"} =>
       /\ Artifact(w) \notin Unsound => tree[Artifact(w)] = "whole"
       /\ Repaired(w)
  /\ pc[w] \in {"check", "remove", "clear", "publish", "read", "record"} =>
       (Artifact(w) \notin Trees => Artifact(w) \in blob)
  /\ pc[w] = "clear" => Artifact(w) \in Trees
  /\ pc[w] = "publish" =>
       (Artifact(w) \in Trees \/ Artifact(w) \notin Stuck => tree[Artifact(w)] = "absent")
  /\ pc[w] = "unlock" /\ outcome[w] = "ok" => Repaired(w)

DiskInv == /\ \A a \in Artifacts : FilesAgree(a)
           /\ \A w \in Workers : KnowsItsFiles(w)

(* A critical step changes the files of its own artifact only. *)
LEMMA CriticalStepIsLocal ==
  ASSUME TypeOK, NEW w \in Workers, CriticalStep(w)
  PROVE  /\ \A b \in Artifacts : b # Artifact(w) =>
              /\ tree'[b] = tree[b] /\ meta'[b] = meta[b]
              /\ b \in blob' <=> b \in blob
              /\ b \in tampered' <=> b \in tampered
              /\ b \in misread' <=> b \in misread
         /\ \A v \in Workers \ {w} :
              pc'[v] = pc[v] /\ outcome'[v] = outcome[v] /\ existing'[v] = existing[v]
<1> USE DEF TypeOK, Go, Fail, diskVars, workerVars, historyVars
<1>1. CASE WriteBlob(w) \/ BlobFails(w) \/ CheckTree(w)
  BY <1>1 DEF WriteBlob, BlobFails, CheckTree
<1>2. CASE RemoveSome(w)
  BY <1>2 DEF RemoveSome
<1>3. CASE RemoveTree(w) \/ RemoveFails(w)
  BY <1>3 DEF RemoveTree, RemoveFails
<1>4. CASE PublishTree(w) \/ PublishFails(w)
  BY <1>4 DEF PublishTree, PublishFails
<1>5. CASE ReadMetadata(w) \/ WriteMetadata(w) \/ MetadataFails(w)
  BY <1>5 DEF ReadMetadata, WriteMetadata, MetadataFails
<1> QED
  BY <1>1, <1>2, <1>3, <1>4, <1>5 DEF CriticalStep

(* So it disturbs neither other artifacts nor other workers, which are not *)
(* at work on this one.                                                    *)
LEMMA OthersAreUndisturbed ==
  ASSUME LockInv, DiskInv, NEW w \in Workers, CriticalStep(w)
  PROVE  /\ \A b \in Artifacts : b # Artifact(w) => FilesAgree(b)'
         /\ \A v \in Workers \ {w} : KnowsItsFiles(v)'
<1>1. \A b \in Artifacts : b # Artifact(w) => FilesAgree(b)'
  BY CriticalStepIsLocal DEF LockInv, DiskInv, FilesAgree, Recorded
<1>2. ASSUME NEW v \in Workers \ {w} PROVE KnowsItsFiles(v)'
  <2>1. CASE pc[v] \notin Critical
    BY <2>1, CriticalStepIsLocal DEF LockInv, KnowsItsFiles, Critical
  <2>2. CASE pc[v] \in Critical
    <3>1. Artifact(v) # Artifact(w)
      BY <2>2, Exclusion, CriticalStepMoves DEF OneWriterPerArtifact, Moves, LockInv
    <3>2. Artifact(v) \in Artifacts
      BY <2>2, JobType DEF LockInv, WorkersAgree, Critical
    <3>3. job' = job
      BY CriticalStepMoves DEF LockInv
    <3>4. KnowsItsFiles(v)
      BY DEF DiskInv
    <3> QED
      BY <3>1, <3>2, <3>3, <3>4, CriticalStepIsLocal
         DEF LockInv, KnowsItsFiles, Repaired, Artifact, Identity
  <2> QED
    BY <2>1, <2>2
<1> QED
  BY <1>1, <1>2

(* Every critical step leaves its artifact's files in order, and its worker*)
(* knows what it needs for the next one.                                   *)
LEMMA CriticalStepDisk ==
  ASSUME LockInv, DiskInv, NEW w \in Workers, CriticalStep(w)
  PROVE  DiskInv'
<1>1. PICK a \in Artifacts : a = Artifact(w)
  BY JobType, CriticalStepMoves DEF LockInv, WorkersAgree, Moves, Critical
<1>2. TypeOK /\ FilesAgree(a) /\ KnowsItsFiles(w)
  BY <1>1 DEF LockInv, DiskInv
<1>3. a = Artifact(w)' /\ Identity(w)' = Identity(w) /\ Identity(w) \in Identities
  BY <1>1, JobType, CriticalStepMoves
     DEF LockInv, WorkersAgree, Moves, Critical, Artifact, Identity
<1> SUFFICES FilesAgree(a)' /\ KnowsItsFiles(w)'
  BY <1>1, OthersAreUndisturbed DEF DiskInv
<1> USE DEF TypeOK, Go, Fail, diskVars, workerVars, historyVars
<1>4. CASE WriteBlob(w) \/ BlobFails(w)
  <2>1. /\ pc[w] = "blob" /\ tree' = tree /\ meta' = meta /\ tampered' = tampered /\ misread' = misread
        /\ blob \subseteq blob'
        /\ \/ pc'[w] = "check" /\ a \in blob'
           \/ pc'[w] = "unlock" /\ outcome'[w] = "failed"
    BY <1>1, <1>2, <1>4 DEF WriteBlob, BlobFails
  <2> QED
    BY <1>2, <1>3, <2>1 DEF FilesAgree, KnowsItsFiles, Recorded
<1>5. CASE CheckTree(w)
  <2>1. /\ pc[w] = "check" /\ UNCHANGED <<tree, meta, tampered, misread, blob>>
        /\ pc'[w] = IF Reusable(a, Identity(w)) THEN "read" ELSE "remove"
    BY <1>1, <1>2, <1>5 DEF CheckTree
  <2>2. Reusable(a, Identity(w)) =>
          /\ a \notin Unsound => tree[a] = "whole"
          /\ a \in Trees => tree[a] = "whole"
          /\ Identity(w) \in HeadChecked => tree[a] \in {"holed", "whole"}
    BY <1>2 DEF Reusable, Healthy, FilesAgree, TreeState
  <2>3. ~Reusable(a, Identity(w)) => (a \notin Unsound => tree[a] = "absent")
    BY <1>2 DEF Reusable, Healthy, FilesAgree
  <2>4. FilesAgree(a)'
    BY <1>2, <2>1 DEF FilesAgree, Recorded
  <2>5. KnowsItsFiles(w)'
    BY <1>1, <1>2, <1>3, <2>1, <2>2, <2>3 DEF KnowsItsFiles, Repaired
  <2> QED
    BY <2>4, <2>5
<1>6. CASE RemoveSome(w)
  <2>1. /\ pc[w] \in {"remove", "clear"} /\ UNCHANGED <<pc, meta, tampered, misread, blob, outcome>>
        /\ tree[a] # "absent"
    BY <1>1, <1>2, <1>6 DEF RemoveSome, Remnants
  <2>2. a \in Unsound
    BY <1>1, <1>2, <2>1 DEF KnowsItsFiles
  <2> QED
    BY <1>1, <1>2, <1>3, <2>1, <2>2 DEF FilesAgree, KnowsItsFiles, Recorded
<1>7. CASE RemoveTree(w)
  <2>1. /\ pc[w] \in {"remove", "clear"} /\ UNCHANGED <<meta, tampered, misread, blob, outcome>>
        /\ tree'[a] = "absent"
        /\ pc'[w] = IF pc[w] = "remove" /\ a \in Trees THEN "clear" ELSE "publish"
    BY <1>1, <1>2, <1>7 DEF RemoveTree, AfterRemoval
  <2>2. a \notin Unsound => tree[a] = "absent"
    BY <1>1, <1>2, <2>1 DEF KnowsItsFiles
  <2> QED
    BY <1>1, <1>2, <1>3, <2>1, <2>2 DEF FilesAgree, KnowsItsFiles, Recorded
<1>8. CASE RemoveFails(w)
  <2>1. /\ UNCHANGED <<tree, meta, tampered, misread, blob>>
        /\ a \in Stuck /\ tree[a] # "absent"
        /\ \/ /\ pc[w] = "remove"
              /\ pc'[w] = IF a \in Trees THEN "clear" ELSE "publish"
           \/ pc[w] = "clear" /\ pc'[w] = "unlock" /\ outcome'[w] = "failed"
    BY <1>1, <1>2, <1>8 DEF RemoveFails, AfterRemoval
  <2> QED
    BY <1>1, <1>2, <1>3, <2>1 DEF FilesAgree, KnowsItsFiles, Recorded
<1>9. CASE PublishTree(w)
  <2>1. /\ pc[w] = "publish" /\ pc'[w] = "read" /\ UNCHANGED <<meta, blob>>
    BY <1>1, <1>2, <1>9 DEF PublishTree
  <2>2. CASE tree[a] = "absent"
    <3>1. PICK t \in Copies(a) :
            /\ tree'[a] = t
            /\ a \in Unsound' <=> t # "whole"
      BY <1>1, <1>2, <1>9, <2>2 DEF PublishTree
    <3>2. t = "whole" \/ (a \in Trees /\ "edit" \in Faults)
      BY <3>1 DEF Copies
    <3> QED
      BY <1>1, <1>2, <1>3, <2>1, <3>1, <3>2 DEF FilesAgree, KnowsItsFiles, Repaired, Recorded
  <2>3. CASE tree[a] # "absent"
    <3>1. UNCHANGED <<tree, tampered, misread>>
      BY <1>1, <1>9, <2>3 DEF PublishTree
    <3>2. a \in Unsound /\ a \notin Trees /\ a \in Stuck
      BY <1>1, <1>2, <2>1, <2>3 DEF KnowsItsFiles
    <3> QED
      BY <1>1, <1>2, <1>3, <2>1, <3>1, <3>2 DEF FilesAgree, KnowsItsFiles, Repaired, Recorded
  <2> QED
    BY <2>2, <2>3
<1>10. CASE PublishFails(w) \/ MetadataFails(w)
  <2>1. /\ UNCHANGED <<tree, meta, tampered, misread, blob>>
        /\ pc'[w] = "unlock" /\ outcome'[w] = "failed"
    BY <1>1, <1>2, <1>10 DEF PublishFails, MetadataFails
  <2> QED
    BY <1>1, <1>2, <1>3, <2>1 DEF FilesAgree, KnowsItsFiles, Recorded
<1>11. CASE ReadMetadata(w)
  <2>1. /\ UNCHANGED <<tree, meta, tampered, misread, blob>>
        /\ pc[w] = "read" /\ pc'[w] = "record"
    BY <1>1, <1>2, <1>11 DEF ReadMetadata
  <2> QED
    BY <1>1, <1>2, <1>3, <2>1 DEF FilesAgree, KnowsItsFiles, Repaired, Recorded
<1>12. CASE WriteMetadata(w)
  <2>1. /\ UNCHANGED <<tree, tampered, misread, blob>>
        /\ pc[w] = "record" /\ pc'[w] = "unlock"
    BY <1>1, <1>2, <1>12 DEF WriteMetadata
  <2>2. FilesAgree(a)'
    BY <1>1, <1>2, <2>1 DEF FilesAgree, KnowsItsFiles
  <2>3. KnowsItsFiles(w)'
    BY <1>1, <1>2, <1>3, <2>1 DEF KnowsItsFiles, Repaired
  <2> QED
    BY <2>2, <2>3
<1> QED
  BY <1>4, <1>5, <1>6, <1>7, <1>8, <1>9, <1>10, <1>11, <1>12 DEF CriticalStep

(* The steps that change no file and know nothing new.                     *)
LEMMA OutsideDisk ==
  ASSUME LockInv, DiskInv, NEW w \in Workers,
         UNCHANGED <<blob, tree, meta, tampered, misread>>,
         \A v \in Workers \ {w} : /\ pc'[v] = pc[v] /\ outcome'[v] = outcome[v]
                                  /\ Artifact(v)' = Artifact(v)
                                  /\ Identity(v)' = Identity(v),
         \/ pc'[w] \in {"idle", "enter", "wait", "release"}
         \/ /\ pc'[w] = "check" /\ Artifact(w)' \in Trees
         \/ pc'[w] = "blob"
  PROVE  DiskInv'
<1>1. \A a \in Artifacts : FilesAgree(a)'
  BY DEF DiskInv, FilesAgree, Recorded
<1>2. KnowsItsFiles(w)'
  BY DEF KnowsItsFiles
<1>3. \A v \in Workers \ {w} : KnowsItsFiles(v)'
  BY DEF DiskInv, KnowsItsFiles, Repaired
<1> QED
  BY <1>1, <1>2, <1>3 DEF DiskInv

(* Every step keeps the files in order. *)
LEMMA NextDiskInv == LockInv /\ DiskInv /\ [Next]_vars => DiskInv'
<1> SUFFICES ASSUME LockInv, DiskInv, [Next]_vars PROVE DiskInv'
  OBVIOUS
<1> USE DEF Go, diskVars, historyVars
<1>1. ASSUME NEW w \in Workers, NEW o \in Offers, BeginPut(w, o) PROVE DiskInv'
  <2>1. \A v \in Workers \ {w} : pc'[v] = pc[v] /\ job'[v] = job[v]
    BY <1>1 DEF BeginPut, LockInv, TypeOK
  <2> QED
    BY <1>1, <2>1, OutsideDisk DEF BeginPut, LockInv, TypeOK, Artifact, Identity
<1>2. ASSUME NEW w \in Workers, Enter(w) PROVE DiskInv'
  BY <1>2, OutsideDisk DEF Enter, LockInv, TypeOK, Artifact, Identity
<1>3. ASSUME NEW w \in Workers, Acquire(w) PROVE DiskInv'
  BY <1>3, OutsideDisk DEF Acquire, LockInv, TypeOK, Artifact, Identity
<1>4. ASSUME NEW w \in Workers, CriticalStep(w) PROVE DiskInv'
  BY <1>4, CriticalStepDisk
<1>5. ASSUME NEW w \in Workers, Unlock(w) PROVE DiskInv'
  BY <1>5, OutsideDisk DEF Unlock, LockInv, TypeOK, Artifact, Identity
<1>6. ASSUME NEW w \in Workers, Release(w) PROVE DiskInv'
  <2>1. \A v \in Workers \ {w} :
          pc'[v] = pc[v] /\ job'[v] = job[v] /\ outcome'[v] = outcome[v]
    BY <1>6 DEF Release, LockInv, TypeOK
  <2> QED
    BY <1>6, <2>1, OutsideDisk DEF Release, LockInv, TypeOK, Artifact, Identity
<1>7. ASSUME NEW a \in Artifacts, Damage(a) PROVE DiskInv'
  <2>1. /\ UNCHANGED <<blob, meta, pc, job, outcome>>
        /\ tampered' = tampered \cup {a} /\ misread' = misread
        /\ \A b \in Artifacts \ {a} : tree'[b] = tree[b]
    BY <1>7 DEF Damage, LockInv, TypeOK, workerVars
  <2>2. \A b \in Artifacts : FilesAgree(b)'
    BY <2>1 DEF DiskInv, FilesAgree, Recorded
  <2>3. ASSUME NEW v \in Workers PROVE KnowsItsFiles(v)'
    <3>1. CASE job[v] = None
      BY <2>1, <3>1 DEF LockInv, WorkersAgree, KnowsItsFiles
    <3>2. CASE job[v] # None
      <4>1. Artifact(v) # a /\ Artifact(v) \in Artifacts
        BY <1>7, <3>2, JobType DEF Damage, LockInv
      <4> QED
        BY <2>1, <4>1 DEF DiskInv, KnowsItsFiles, Repaired, Artifact, Identity
    <3> QED
      BY <3>1, <3>2
  <2> QED
    BY <2>2, <2>3 DEF DiskInv
<1>8. CASE Crash
  BY <1>8 DEF Crash, DiskInv, FilesAgree, KnowsItsFiles, Recorded
<1>9. CASE UNCHANGED vars
  BY <1>9 DEF DiskInv, FilesAgree, KnowsItsFiles, Repaired, Recorded, Artifact, Identity,
     vars, workerVars
<1> QED
  BY <1>1, <1>2, <1>3, <1>4, <1>5, <1>6, <1>7, <1>8, <1>9 DEF Next, Work, CriticalStep

(* So does the disk layer. *)
LEMMA DiskLayer == Spec => []DiskInv
<1>1. Init => DiskInv
  BY DEF Init, DiskInv, FilesAgree, KnowsItsFiles, Recorded, NoMetadata
<1> QED
  BY <1>1, NextDiskInv, LockLayer, PTL DEF Spec

(* Whatever failed or died between blob, tree and metadata, what has       *)
(* metadata is whole, unless somebody else changed it (store.go:121-166).  *)
THEOREM RecordsAreWhole == Spec => []RecordedIsWhole
<1>1. DiskInv => RecordedIsWhole
  BY DEF DiskInv, FilesAgree, RecordedIsWhole
<1> QED
  BY <1>1, DiskLayer, PTL

(* A put that succeeds has repaired a damaged directory, and an npm        *)
(* tarball without its package.json that could be removed (store.go:129-141).*)
THEOREM PutsRepair == Spec => []PutRepairs
<1>1. DiskInv => PutRepairs
  BY DEF DiskInv, KnowsItsFiles, Repaired, PutRepairs
<1> QED
  BY <1>1, DiskLayer, PTL

-----------------------------------------------------------------------------
(* The metadata *)

HasLeast(S) == \E x \in S : \A y \in S : x <= y

CanonicalMeta(m) ==
  m.provenance # {} => /\ HasLeast(m.provenance)
                       /\ m.payload \in m.provenance
                       /\ CoordinateOf[m.payload] = CoordinateOf[Header(m)]

MetaInv == /\ \A a \in Artifacts : CanonicalMeta(meta[a])
           /\ \A w \in Workers : CanonicalMeta(existing[w])

(* First is the least element, where there is one.                         *)
LEMMA FirstIsLeast ==
  ASSUME NEW S \in SUBSET Nat, HasLeast(S)
  PROVE  First(S) \in S /\ \A y \in S : First(S) <= y
BY DEF First, HasLeast

(* One more element leaves a set with a least one, the old or the new.     *)
LEMMA LeastOfOneMore ==
  ASSUME NEW S \in SUBSET Nat, S = {} \/ HasLeast(S), NEW i \in Nat
  PROVE  /\ HasLeast(S \cup {i})
         /\ S # {} => First(S \cup {i}) \in {First(S), i}
         /\ S = {} => First(S \cup {i}) = i
<1>1. CASE S = {}
  <2>1. HasLeast({i})
    BY DEF HasLeast
  <2>2. First({i}) \in {i}
    BY <2>1, FirstIsLeast
  <2> QED
    BY <1>1, <2>1, <2>2
<1>2. CASE S # {}
  <2>1. First(S) \in S /\ \A y \in S : First(S) <= y
    BY <1>2, FirstIsLeast
  <2>2. HasLeast(S \cup {i})
    <3>1. CASE First(S) <= i
      BY <2>1, <3>1 DEF HasLeast
    <3>2. CASE ~(First(S) <= i)
      <4>1. First(S) \in Nat /\ i <= First(S)
        <5>1. PICK f \in Nat : f = First(S)
          BY <2>1
        <5>2. ~(f <= i)
          BY <3>2, <5>1
        <5> QED
          BY <5>1, <5>2
      <4>2. ASSUME NEW y \in S \cup {i} PROVE i <= y
        <5>1. CASE y \in S
          <6>1. y \in Nat /\ First(S) <= y
            BY <2>1, <5>1
          <6> QED
            BY <4>1, <6>1
        <5>2. CASE y = i
          BY <5>2
        <5> QED
          BY <4>2, <5>1, <5>2
      <4> QED
        BY <4>2 DEF HasLeast
    <3> QED
      BY <3>1, <3>2
  <2>3. /\ First(S \cup {i}) \in S \cup {i}
        /\ \A y \in S \cup {i} : First(S \cup {i}) <= y
    BY <2>2, FirstIsLeast
  <2>4. First(S \cup {i}) \in {First(S), i}
    <3> DEFINE f == First(S)
               g == First(S \cup {i})
    <3>1. f \in Nat /\ g \in Nat /\ g <= f /\ (g = i \/ f <= g)
      BY <2>1, <2>3
    <3> QED
      BY <3>1
  <2> QED
    BY <1>2, <2>2, <2>4
<1> QED
  BY <1>1, <1>2

(* mergeStoredProvenance keeps the fields of the canonical package: when   *)
(* the new identity comes first, when it comes later, and when it has the  *)
(* same coordinates.                                                       *)
LEMMA MergeIsCanonical ==
  ASSUME NEW old \in Metadata, CanonicalMeta(old), NEW i \in Identities
  PROVE  CanonicalMeta(Merge(old, i))
<1> DEFINE all == old.provenance \cup {i}
           new == Merge(old, i)
<1>1. old.provenance \in SUBSET Nat /\ i \in Nat /\ all \in SUBSET Nat
  BY IdentityAssumption DEF Metadata
<1>2. /\ HasLeast(all)
      /\ old.provenance # {} => First(all) \in {First(old.provenance), i}
      /\ old.provenance = {} => First(all) = i
  BY <1>1, LeastOfOneMore DEF CanonicalMeta
<1>3. /\ new.provenance = all
      /\ Header(new) = First(all)
      /\ Header(old) = First(old.provenance)
  BY MergeType DEF Header
<1>4. /\ new.payload \in all
      /\ CoordinateOf[new.payload] = CoordinateOf[First(all)]
  <2> DEFINE keeps == /\ old.provenance # {}
                      /\ all # {i}
                      /\ CoordinateOf[Header(old)] = CoordinateOf[First(all)]
                      /\ CoordinateOf[i] # CoordinateOf[First(all)]
  <2>1. new.payload = IF keeps THEN old.payload ELSE i
    BY DEF Merge
  <2>2. CASE keeps
    BY <1>3, <2>1, <2>2 DEF CanonicalMeta
  <2>3. CASE ~keeps
    <3>1. CoordinateOf[i] = CoordinateOf[First(all)]
      <4>1. CASE old.provenance = {}
        BY <1>2, <4>1
      <4>2. CASE all = {i}
        <5>1. First(all) \in all
          BY <1>1, <1>2, FirstIsLeast
        <5> QED
          BY <4>2, <5>1
      <4>3. CASE old.provenance # {} /\ all # {i}
        BY <1>2, <1>3, <2>3, <4>3
      <4> QED
        BY <4>1, <4>2, <4>3
    <3> QED
      BY <2>1, <2>3, <3>1
  <2> QED
    BY <2>2, <2>3
<1> QED
  BY <1>2, <1>3, <1>4 DEF CanonicalMeta

(* Every step keeps the metadata canonical. *)
LEMMA NextMetaInv == LockInv /\ MetaInv /\ [Next]_vars => MetaInv'
<1> SUFFICES ASSUME LockInv, MetaInv, [Next]_vars PROVE MetaInv'
  OBVIOUS
<1>0. CanonicalMeta(NoMetadata)
  BY DEF CanonicalMeta, NoMetadata
<1>1. ASSUME UNCHANGED <<meta, existing>> PROVE MetaInv'
  BY <1>1 DEF MetaInv
<1>2. ASSUME NEW w \in Workers, WriteMetadata(w) PROVE MetaInv'
  <2>1. Artifact(w) \in Artifacts /\ Identity(w) \in Identities /\ existing[w] \in Metadata
    BY <1>2, JobType DEF WriteMetadata, Go, LockInv, WorkersAgree, TypeOK
  <2>2. CanonicalMeta(Merge(existing[w], Identity(w)))
    BY <2>1, MergeIsCanonical DEF MetaInv
  <2>3. /\ existing' = existing
        /\ meta' = [meta EXCEPT ![Artifact(w)] = Merge(existing[w], Identity(w))]
    BY <1>2 DEF WriteMetadata
  <2> QED
    BY <2>1, <2>2, <2>3 DEF MetaInv, LockInv, TypeOK
<1>3. ASSUME NEW w \in Workers, ReadMetadata(w) PROVE MetaInv'
  <2>1. Artifact(w) \in Artifacts
    BY <1>3, JobType DEF ReadMetadata, Go, LockInv, WorkersAgree
  <2>2. PICK m : /\ m = meta[Artifact(w)] \/ m = NoMetadata
                 /\ existing' = [existing EXCEPT ![w] = m]
    BY <1>3 DEF ReadMetadata
  <2>3. CanonicalMeta(m)
    BY <1>0, <2>1, <2>2 DEF MetaInv
  <2>4. meta' = meta
    BY <1>3 DEF ReadMetadata, diskVars
  <2> QED
    BY <2>2, <2>3, <2>4 DEF MetaInv, LockInv, TypeOK
<1>4. ASSUME NEW w \in Workers, Unlock(w) PROVE MetaInv'
  BY <1>0, <1>4 DEF Unlock, MetaInv, LockInv, TypeOK, diskVars
<1>5. CASE Crash
  BY <1>0, <1>5 DEF Crash, MetaInv, diskVars
<1>6. ASSUME NEW w \in Workers, CriticalStep(w), ~ReadMetadata(w), ~WriteMetadata(w)
      PROVE  UNCHANGED <<meta, existing>>
  BY <1>6 DEF CriticalStep, WriteBlob, BlobFails, CheckTree, RemoveSome, RemoveTree,
     RemoveFails, PublishTree, PublishFails, MetadataFails, diskVars, workerVars
<1>7. ASSUME NEW w \in Workers, NEW o \in Offers, BeginPut(w, o)
      PROVE  UNCHANGED <<meta, existing>>
  BY <1>7 DEF BeginPut, diskVars
<1>8. ASSUME NEW w \in Workers, Enter(w) \/ Acquire(w) \/ Release(w)
      PROVE  UNCHANGED <<meta, existing>>
  BY <1>8 DEF Enter, Acquire, Release, diskVars
<1>9. ASSUME NEW a \in Artifacts, Damage(a) PROVE UNCHANGED <<meta, existing>>
  BY <1>9 DEF Damage, workerVars
<1>10. CASE UNCHANGED vars
  BY <1>1, <1>10 DEF vars, diskVars, workerVars
<1> QED
  BY <1>1, <1>2, <1>3, <1>4, <1>5, <1>6, <1>7, <1>8, <1>9, <1>10
     DEF Next, Work, CriticalStep

(* So does the metadata layer. *)
LEMMA MetaLayer == Spec => []MetaInv
<1>1. Init => MetaInv
  BY DEF Init, MetaInv, CanonicalMeta, NoMetadata
<1> QED
  BY <1>1, NextMetaInv, LockLayer, PTL DEF Spec

(* In whatever order identities with the same bytes are stored, the fields *)
(* beside the provenance are the canonical package's                       *)
(* (mergeStoredProvenance, store.go:216-228).                              *)
THEOREM PayloadsAreCanonical == Spec => []PayloadIsCanonical
<1>1. MetaInv => PayloadIsCanonical
  BY DEF MetaInv, CanonicalMeta, Recorded, PayloadIsCanonical
<1> QED
  BY <1>1, MetaLayer, PTL

-----------------------------------------------------------------------------
(* The contract *)

(* What a worker is about to merge with is what is there, and what it is   *)
(* about to report is recorded.                                            *)
KnowsTheRecord(w) ==
  /\ pc[w] = "record" => existing[w] = meta[Artifact(w)]
  /\ (pc[w] \in {"unlock", "release"} /\ outcome[w] = "ok") =>
       Identity(w) \in meta[Artifact(w)].provenance

RecordInv == \A w \in Workers : KnowsTheRecord(w)

(* A write adds the identity of its worker and takes none away.            *)
LEMMA WriteAdds ==
  ASSUME LockInv, RecordInv, NEW w \in Workers, WriteMetadata(w)
  PROVE  /\ Artifact(w) \in Artifacts /\ Identity(w) \in Identities
         /\ meta'[Artifact(w)].provenance =
              meta[Artifact(w)].provenance \cup {Identity(w)}
         /\ \A b \in Artifacts : b # Artifact(w) => meta'[b] = meta[b]
<1>1. pc[w] = "record" /\ existing[w] = meta[Artifact(w)]
  BY DEF WriteMetadata, Go, RecordInv, KnowsTheRecord
<1>2. Artifact(w) \in Artifacts /\ Identity(w) \in Identities
  BY <1>1, JobType DEF LockInv, WorkersAgree
<1>3. meta' = [meta EXCEPT ![Artifact(w)] = Merge(meta[Artifact(w)], Identity(w))]
  BY <1>1 DEF WriteMetadata
<1>4. meta[Artifact(w)] \in Metadata
  BY <1>2 DEF LockInv, TypeOK
<1>5. Merge(meta[Artifact(w)], Identity(w)).provenance =
        meta[Artifact(w)].provenance \cup {Identity(w)}
  BY <1>2, <1>4, MergeType
<1> QED
  BY <1>2, <1>3, <1>5 DEF LockInv, TypeOK

(* A step that leaves the metadata alone, and moves only its worker.       *)
LEMMA RecordUndisturbed ==
  ASSUME LockInv, RecordInv, NEW w \in Workers, UNCHANGED meta, KnowsTheRecord(w)',
         \A v \in Workers \ {w} :
           /\ pc'[v] = pc[v] /\ outcome'[v] = outcome[v] /\ existing'[v] = existing[v]
           /\ Artifact(v)' = Artifact(v) /\ Identity(v)' = Identity(v)
  PROVE  RecordInv'
<1>1. \A v \in Workers \ {w} : KnowsTheRecord(v)'
  BY DEF RecordInv, KnowsTheRecord
<1> QED
  BY <1>1 DEF RecordInv

(* Every step keeps the workers informed, if the metadata can be read.     *)
LEMMA NextRecordInv ==
  ASSUME "read" \notin Faults
  PROVE  LockInv /\ RecordInv /\ [Next]_vars => RecordInv'
<1> SUFFICES ASSUME LockInv, RecordInv, [Next]_vars PROVE RecordInv'
  OBVIOUS
<1> USE DEF Go, diskVars, historyVars
<1>1. ASSUME NEW w \in Workers, NEW o \in Offers, BeginPut(w, o) PROVE RecordInv'
  <2>1. /\ pc'[w] = "enter"
        /\ \A v \in Workers \ {w} : pc'[v] = pc[v] /\ job'[v] = job[v]
    BY <1>1 DEF BeginPut, LockInv, TypeOK
  <2> QED
    BY <1>1, <2>1, RecordUndisturbed DEF BeginPut, Artifact, Identity, KnowsTheRecord
<1>2. ASSUME NEW w \in Workers, Enter(w) \/ Acquire(w) PROVE RecordInv'
  <2>1. /\ pc'[w] \in {"wait", "check", "blob"}
        /\ \A v \in Workers \ {w} : pc'[v] = pc[v]
        /\ UNCHANGED <<job, outcome, existing, meta>>
    BY <1>2 DEF Enter, Acquire, LockInv, TypeOK
  <2> QED
    BY <2>1, RecordUndisturbed DEF Artifact, Identity, KnowsTheRecord
<1>3. ASSUME NEW w \in Workers, Unlock(w) PROVE RecordInv'
  <2>1. /\ pc[w] = "unlock" /\ pc'[w] = "release"
        /\ \A v \in Workers \ {w} : pc'[v] = pc[v] /\ existing'[v] = existing[v]
        /\ UNCHANGED <<job, outcome, meta>>
    BY <1>3 DEF Unlock, LockInv, TypeOK
  <2> QED
    BY <2>1, RecordUndisturbed DEF RecordInv, Artifact, Identity, KnowsTheRecord
<1>4. ASSUME NEW w \in Workers, Release(w) PROVE RecordInv'
  <2>1. /\ pc'[w] = "idle"
        /\ \A v \in Workers \ {w} :
             pc'[v] = pc[v] /\ outcome'[v] = outcome[v] /\ job'[v] = job[v]
        /\ UNCHANGED <<existing, meta>>
    BY <1>4 DEF Release, LockInv, TypeOK
  <2> QED
    BY <2>1, RecordUndisturbed DEF Artifact, Identity, KnowsTheRecord
<1>5. ASSUME NEW w \in Workers, ReadMetadata(w) PROVE RecordInv'
  <2>1. pc'[w] = "record" /\ existing'[w] = meta[Artifact(w)] /\ meta' = meta /\ job' = job
    BY <1>5, "read" \notin Faults DEF ReadMetadata, LockInv, TypeOK
  <2>2. KnowsTheRecord(w)'
    BY <2>1 DEF KnowsTheRecord, Artifact
  <2> QED
    BY <1>5, <2>1, <2>2, RecordUndisturbed, CriticalStepIsLocal
       DEF CriticalStep, LockInv, Artifact, Identity
<1>6. ASSUME NEW w \in Workers, WriteMetadata(w) PROVE RecordInv'
  <2>1. /\ pc'[w] = "unlock" /\ UNCHANGED <<job, existing>>
        /\ \A v \in Workers \ {w} : pc'[v] = pc[v] /\ outcome'[v] = outcome[v]
    BY <1>6 DEF WriteMetadata, LockInv, TypeOK
  <2>2. KnowsTheRecord(w)'
    BY <1>6, <2>1, WriteAdds DEF KnowsTheRecord, Artifact, Identity
  <2>3. ASSUME NEW v \in Workers \ {w} PROVE KnowsTheRecord(v)'
    <3>1. CASE pc[v] = "record"
      <4>1. Artifact(v) # Artifact(w)
        BY <1>6, <3>1, Exclusion DEF OneWriterPerArtifact, WriteMetadata, Critical
      <4>2. Artifact(v) \in Artifacts
        BY <3>1, JobType DEF LockInv, WorkersAgree
      <4> QED
        BY <1>6, <2>1, <3>1, <4>1, <4>2, WriteAdds DEF RecordInv, KnowsTheRecord, Artifact
    <3>2. CASE pc[v] \in {"unlock", "release"} /\ outcome[v] = "ok"
      <4>1. Artifact(v) \in Artifacts
        BY <3>2, JobType DEF LockInv, WorkersAgree
      <4>2. meta[Artifact(v)].provenance \subseteq meta'[Artifact(v)].provenance
        BY <1>6, <4>1, WriteAdds
      <4> QED
        BY <2>1, <3>2, <4>2 DEF RecordInv, KnowsTheRecord, Artifact, Identity
    <3> QED
      BY <2>1, <3>1, <3>2 DEF KnowsTheRecord
  <2> QED
    BY <2>2, <2>3 DEF RecordInv
<1>7. ASSUME NEW w \in Workers, CriticalStep(w), ~ReadMetadata(w), ~WriteMetadata(w)
      PROVE  RecordInv'
  <2>1. /\ meta' = meta /\ job' = job
        /\ pc'[w] # "record"
        /\ pc'[w] \in {"unlock", "release"} => outcome'[w] = "failed"
    <3> USE DEF Fail, LockInv, TypeOK, workerVars, AfterRemoval
    <3>1. CASE WriteBlob(w) \/ BlobFails(w) \/ CheckTree(w)
      BY <3>1 DEF WriteBlob, BlobFails, CheckTree
    <3>2. CASE RemoveSome(w) \/ RemoveTree(w) \/ RemoveFails(w)
      BY <3>2 DEF RemoveSome, RemoveTree, RemoveFails
    <3>3. CASE PublishTree(w) \/ PublishFails(w) \/ MetadataFails(w)
      BY <3>3 DEF PublishTree, PublishFails, MetadataFails
    <3> QED
      BY <1>7, <3>1, <3>2, <3>3 DEF CriticalStep
  <2>2. KnowsTheRecord(w)'
    BY <2>1 DEF KnowsTheRecord
  <2> QED
    BY <1>7, <2>1, <2>2, RecordUndisturbed, CriticalStepIsLocal
       DEF LockInv, Artifact, Identity
<1>8. ASSUME NEW a \in Artifacts, Damage(a) PROVE RecordInv'
  BY <1>8 DEF Damage, RecordInv, KnowsTheRecord, Artifact, Identity, workerVars
<1>9. CASE Crash
  BY <1>9 DEF Crash, RecordInv, KnowsTheRecord
<1>10. CASE UNCHANGED vars
  BY <1>10 DEF vars, workerVars, RecordInv, KnowsTheRecord, Artifact, Identity
<1> QED
  BY <1>1, <1>2, <1>3, <1>4, <1>5, <1>6, <1>7, <1>8, <1>9, <1>10
     DEF Next, Work, CriticalStep

(* Every step is a step of the contract or leaves the catalog alone.       *)
LEMMA StepKeepsContract ==
  ASSUME LockInv, RecordInv, [Next]_vars
  PROVE  [Contract!Next]_(Contract!vars)
<1> DEFINE catalog == [a \in Artifacts |-> meta[a].provenance]
<1> USE DEF diskVars, historyVars
<1>1. ASSUME NEW w \in Workers, WriteMetadata(w) PROVE Contract!Next
  <2>1. PICK a \in Artifacts, i \in Identities : a = Artifact(w) /\ i = Identity(w)
    BY <1>1, WriteAdds
  <2>2. catalog' = [catalog EXCEPT ![a] = @ \cup {i}]
    BY <1>1, <2>1, WriteAdds
  <2>3. Contract!Record(a, i)
    BY <1>1, <2>2 DEF Contract!Record, WriteMetadata
  <2> QED
    BY <2>3 DEF Contract!Next
<1>2. ASSUME NEW w \in Workers, Release(w) PROVE [Contract!Next]_(Contract!vars)
  <2>1. /\ catalog' = catalog /\ job[w] # None /\ job[w] \in Offers
        /\ Artifact(w) \in Artifacts
    BY <1>2, JobType DEF Release, Go, LockInv, WorkersAgree
  <2>2. CASE outcome[w] = "ok"
    <3>1. Identity(w) \in catalog[Artifact(w)]
      BY <1>2, <2>1, <2>2 DEF Release, Go, RecordInv, KnowsTheRecord
    <3>2. Contract!Promise(job[w])
      BY <1>2, <2>1, <2>2, <3>1 DEF Contract!Promise, Release, Identity, Artifact
    <3> QED
      BY <2>1, <3>2 DEF Contract!Next
  <2>3. CASE outcome[w] # "ok"
    BY <1>2, <2>1, <2>3 DEF Release, Contract!vars
  <2> QED
    BY <2>2, <2>3
<1>3. ASSUME NEW w \in Workers, CriticalStep(w), ~WriteMetadata(w)
      PROVE  UNCHANGED <<meta, promised>>
  BY <1>3 DEF CriticalStep, WriteBlob, BlobFails, CheckTree, RemoveSome, RemoveTree,
     RemoveFails, PublishTree, PublishFails, ReadMetadata, MetadataFails
<1>4. ASSUME NEW w \in Workers, NEW o \in Offers, BeginPut(w, o)
      PROVE  UNCHANGED <<meta, promised>>
  BY <1>4 DEF BeginPut
<1>5. ASSUME NEW w \in Workers, Enter(w) \/ Acquire(w) \/ Unlock(w)
      PROVE  UNCHANGED <<meta, promised>>
  BY <1>5 DEF Enter, Acquire, Unlock
<1>6. ASSUME NEW a \in Artifacts, Damage(a) PROVE UNCHANGED <<meta, promised>>
  BY <1>6 DEF Damage
<1>7. CASE Crash
  BY <1>7 DEF Crash, Contract!vars
<1>8. ASSUME UNCHANGED <<meta, promised>> PROVE UNCHANGED Contract!vars
  BY <1>8 DEF Contract!vars
<1>9. CASE UNCHANGED vars
  BY <1>8, <1>9 DEF vars
<1> QED
  BY <1>1, <1>2, <1>3, <1>4, <1>5, <1>6, <1>7, <1>8, <1>9 DEF Next, Work, CriticalStep

(* The store implements its contract, if metadata that is there can be     *)
(* read: no put loses an identity that another has recorded, and success   *)
(* is reported only for what is recorded (store.go:161-166).               *)
THEOREM StoreKeepsContract ==
  ASSUME "read" \notin Faults
  PROVE  Spec => CatalogOnlyGrows
<1>1. Init => Contract!Init
  BY DEF Init, Contract!Init, NoMetadata
<1>2. Init => RecordInv
  BY DEF Init, RecordInv, KnowsTheRecord
<1>3. LockInv /\ RecordInv /\ [Next]_vars => RecordInv'
  BY NextRecordInv, "read" \notin Faults
<1>4. LockInv /\ RecordInv /\ [Next]_vars => [Contract!Next]_(Contract!vars)
  BY StepKeepsContract
<1> QED
  BY <1>1, <1>2, <1>3, <1>4, LockLayer, PTL DEF Spec, CatalogOnlyGrows, Contract!Spec

-----------------------------------------------------------------------------
(* The commands that fill the store *)

(* A non-empty set of numbers has a least one. *)
LEMMA LeastNumber ==
  ASSUME NEW S \in SUBSET Nat, S # {}
  PROVE  HasLeast(S)
<1>1. PICK x \in S : \A y \in S : ~(<<y, x>> \in OpToRel(<, Nat))
  BY WFMin, NatLessThanWellFounded, Zenon
<1>2. \A y \in S : ~(y < x)
  BY <1>1 DEF OpToRel
<1> QED
  BY <1>2 DEF HasLeast

(* The packages whose artifacts a lock promises: all but the git ones. *)
Stored == Packages \ From("git")

(* What a put is about to report is recorded. *)
Reported(w) ==
  (pc[w] \in {"unlock", "release"} /\ outcome[w] = "ok") => Recorded(Artifact(w))
ReportInv == \A w \in Workers : Reported(w)

(* A worker of a pool is at work from receiving a package to its result. *)
Idle(w) == pool[w] \notin {"received", "fetch", "put"}
WorksAt(p) == \E w \in Workers : ~Idle(w) /\ task[w] = p
Waits(p) == \E k \in queue : Order[k] = p

(* What a command still has to do for a package, or has done. *)
Covered(p) == failed \/ Waits(p) \/ WorksAt(p) \/ Recorded(plan[p])

(* Which command is in a phase, what it has planned, and that no pool      *)
(* outlasts its phase.                                                     *)
PhaseInv ==
  /\ phase \in {"capture", "populate", "open", "fill"} =>
       command = "update" /\ plan \in [Packages -> Artifacts]
  /\ phase = "hydrate" => /\ command = "sync" /\ lockFile = "whole"
                          /\ \A w \in Workers \ {Main} : pool[w] = "free"
  /\ phase \in {"ready", "open", "fill"} => \A w \in Workers : pool[w] = "exited"
  /\ \A w \in Workers : pool[w] = "received" => phase = "populate"
  /\ lockFile = "whole" => lock \in [Packages -> Artifacts]

(* A busy worker has a package, and puts what is wanted of it; a pool stops *)
(* early only after a failure.                                             *)
PoolInv ==
  /\ \A w \in Workers : ~Idle(w) => task[w] \in Packages
  /\ \A w \in Workers : pool[w] = "put" => Artifact(w) = Wanted(task[w])
  /\ Pooled => /\ cancelled => failed
               /\ feeding \/ cancelled \/ queue = {}

(* No package is forgotten between the queue, the workers and the store.   *)
CoverInv ==
  /\ phase = "capture" => \A p \in Registry : Covered(p)
  /\ phase = "populate" => /\ \A p \in Registry : Recorded(plan[p])
                           /\ \A p \in Stored : Covered(p)
  /\ phase \in {"open", "fill"} => \A p \in Stored : Recorded(plan[p])
  /\ lockFile = "whole" => \A p \in Stored : Recorded(lock[p])

(* The invariant of the commands, on top of the layers of the store. *)
PopInv == PTypeOK /\ PhaseInv /\ PoolInv /\ CoverInv

-----------------------------------------------------------------------------
(* No step of the store forgets what is recorded. *)
LEMMA RecordsStay ==
  ASSUME LockInv, [Next]_vars
  PROVE  \A a \in Artifacts : Recorded(a) => Recorded(a)'
<1>1. ASSUME UNCHANGED meta PROVE \A a \in Artifacts : Recorded(a) => Recorded(a)'
  BY <1>1 DEF Recorded
<1>2. ASSUME NEW w \in Workers, WriteMetadata(w)
      PROVE  \A a \in Artifacts : Recorded(a) => Recorded(a)'
  <2>1. Artifact(w) \in Artifacts /\ Identity(w) \in Identities /\ existing[w] \in Metadata
    BY <1>2, JobType DEF WriteMetadata, Go, LockInv, WorkersAgree, TypeOK
  <2>2. Merge(existing[w], Identity(w)).provenance # {}
    BY <2>1, MergeType
  <2>3. meta' = [meta EXCEPT ![Artifact(w)] = Merge(existing[w], Identity(w))]
    BY <1>2 DEF WriteMetadata
  <2> QED
    BY <2>1, <2>2, <2>3 DEF Recorded, LockInv, TypeOK
<1>3. ASSUME NEW w \in Workers, CriticalStep(w), ~WriteMetadata(w) PROVE UNCHANGED meta
  BY <1>3 DEF CriticalStep, WriteBlob, BlobFails, CheckTree, RemoveSome, RemoveTree,
     RemoveFails, PublishTree, PublishFails, ReadMetadata, MetadataFails, diskVars
<1>4. ASSUME NEW w \in Workers, NEW o \in Offers, BeginPut(w, o) PROVE UNCHANGED meta
  BY <1>4 DEF BeginPut, diskVars
<1>5. ASSUME NEW w \in Workers, Enter(w) \/ Acquire(w) \/ Unlock(w) \/ Release(w)
      PROVE  UNCHANGED meta
  BY <1>5 DEF Enter, Acquire, Unlock, Release, diskVars
<1>6. ASSUME NEW a \in Artifacts, Damage(a) PROVE UNCHANGED meta
  BY <1>6 DEF Damage
<1>7. Crash \/ UNCHANGED vars => UNCHANGED meta
  BY DEF Crash, vars, diskVars
<1> QED
  BY <1>1, <1>2, <1>3, <1>4, <1>5, <1>6, <1>7 DEF Next, Work, CriticalStep

(* A worker comes to the end of a put by recording it, or by failing. *)
LEMMA NextReportInv == LockInv /\ ReportInv /\ [Next]_vars => ReportInv'
<1> SUFFICES ASSUME LockInv, ReportInv, [Next]_vars PROVE ReportInv'
  OBVIOUS
<1> USE DEF Go
<1>0. \A a \in Artifacts : Recorded(a) => Recorded(a)'
  BY RecordsStay
<1>1. ASSUME NEW v \in Workers, pc[v] \in {"unlock", "release"} => Artifact(v)' = Artifact(v),
             pc'[v] \in {"unlock", "release"} /\ outcome'[v] = "ok" =>
               pc[v] \in {"unlock", "release"} /\ outcome[v] = "ok"
      PROVE  Reported(v)'
  <2> SUFFICES ASSUME pc'[v] \in {"unlock", "release"}, outcome'[v] = "ok"
               PROVE  Recorded(Artifact(v))'
    BY DEF Reported
  <2>1. pc[v] \in {"unlock", "release"} /\ outcome[v] = "ok"
    BY <1>1
  <2>2. Artifact(v)' = Artifact(v)
    BY <1>1, <2>1
  <2>3. Artifact(v) \in Artifacts
    BY <2>1, JobType DEF LockInv, WorkersAgree
  <2>4. Recorded(Artifact(v))
    BY <2>1 DEF ReportInv, Reported
  <2>5. PICK a \in Artifacts : a = Artifact(v)
    BY <2>3
  <2>6. Recorded(a)'
    BY <1>0, <2>4, <2>5
  <2> QED
    BY <2>2, <2>5, <2>6 DEF Recorded
<1>2. ASSUME NEW w \in Workers, NEW o \in Offers, BeginPut(w, o) PROVE ReportInv'
  <2>1. pc'[w] = "enter" /\ \A v \in Workers \ {w} : pc'[v] = pc[v] /\ job'[v] = job[v]
    BY <1>2 DEF BeginPut, LockInv, TypeOK
  <2>2. outcome' = outcome /\ pc[w] = "idle"
    BY <1>2 DEF BeginPut
  <2> QED
    BY <1>1, <2>1, <2>2 DEF ReportInv, Artifact
<1>3. ASSUME NEW w \in Workers, Enter(w) \/ Acquire(w) \/ Unlock(w) PROVE ReportInv'
  <2>1. /\ \/ pc'[w] \in {"wait", "check", "blob"}
           \/ pc[w] = "unlock"
        /\ \A v \in Workers \ {w} : pc'[v] = pc[v]
        /\ UNCHANGED <<job, outcome>>
    BY <1>3 DEF Enter, Acquire, Unlock, LockInv, TypeOK
  <2> QED
    BY <1>1, <2>1 DEF ReportInv, Artifact
<1>4. ASSUME NEW w \in Workers, Release(w) PROVE ReportInv'
  <2>1. /\ pc'[w] = "idle"
        /\ \A v \in Workers \ {w} :
             pc'[v] = pc[v] /\ outcome'[v] = outcome[v] /\ job'[v] = job[v]
    BY <1>4 DEF Release, LockInv, TypeOK
  <2>2. Reported(w)'
    BY <2>1 DEF Reported
  <2>3. \A v \in Workers \ {w} : Reported(v)'
    BY <1>1, <2>1 DEF Artifact
  <2> QED
    BY <2>2, <2>3 DEF ReportInv
<1>5. ASSUME NEW w \in Workers, CriticalStep(w) PROVE ReportInv'
  <2>1. /\ \A v \in Workers \ {w} : pc'[v] = pc[v] /\ outcome'[v] = outcome[v]
        /\ job' = job
    BY <1>5, CriticalStepIsLocal, CriticalStepMoves DEF LockInv
  <2>2. CASE WriteMetadata(w)
    <3>1. Artifact(w) \in Artifacts /\ Identity(w) \in Identities /\ existing[w] \in Metadata
      BY <2>2, JobType DEF WriteMetadata, LockInv, WorkersAgree, TypeOK
    <3>2. Merge(existing[w], Identity(w)).provenance # {}
      BY <3>1, MergeType
    <3>3. meta' = [meta EXCEPT ![Artifact(w)] = Merge(existing[w], Identity(w))]
      BY <2>2 DEF WriteMetadata
    <3>4. Recorded(Artifact(w))'
      BY <2>1, <3>1, <3>2, <3>3 DEF Recorded, Artifact, LockInv, TypeOK
    <3>5. Reported(w)'
      BY <2>1, <3>4 DEF Reported
    <3>6. \A v \in Workers \ {w} : Reported(v)'
      BY <1>1, <2>1 DEF Artifact
    <3> QED
      BY <3>5, <3>6 DEF ReportInv
  <2>3. CASE ~WriteMetadata(w)
    <3>1. pc'[w] \in {"unlock", "release"} => outcome'[w] = "failed"
      <4> USE DEF Fail, LockInv, TypeOK, workerVars, AfterRemoval
      <4>1. CASE WriteBlob(w) \/ BlobFails(w) \/ CheckTree(w)
        BY <4>1 DEF WriteBlob, BlobFails, CheckTree
      <4>2. CASE RemoveSome(w) \/ RemoveTree(w) \/ RemoveFails(w)
        BY <4>2 DEF RemoveSome, RemoveTree, RemoveFails
      <4>3. CASE PublishTree(w) \/ PublishFails(w) \/ MetadataFails(w)
        BY <4>3 DEF PublishTree, PublishFails, MetadataFails
      <4>4. CASE ReadMetadata(w)
        BY <4>4 DEF ReadMetadata
      <4> QED
        BY <1>5, <2>3, <4>1, <4>2, <4>3, <4>4 DEF CriticalStep
    <3>2. Reported(w)'
      BY <3>1 DEF Reported
    <3>3. \A v \in Workers \ {w} : Reported(v)'
      BY <1>1, <2>1 DEF Artifact
    <3> QED
      BY <3>2, <3>3 DEF ReportInv
  <2> QED
    BY <2>2, <2>3
<1>6. ASSUME NEW a \in Artifacts, Damage(a) PROVE ReportInv'
  BY <1>1, <1>6 DEF Damage, ReportInv, Artifact, workerVars
<1>7. CASE Crash
  BY <1>7 DEF Crash, ReportInv, Reported
<1>8. CASE UNCHANGED vars
  BY <1>1, <1>8 DEF vars, ReportInv, Artifact, workerVars
<1> QED
  BY <1>2, <1>3, <1>4, <1>5, <1>6, <1>7, <1>8 DEF Next, Work, CriticalStep

-----------------------------------------------------------------------------
(* What the store's own steps leave to the pool. *)
LEMMA StoreWork ==
  ASSUME LockInv, NEW w \in Workers, Acquire(w) \/ Work(w)
  PROVE  /\ Next
         /\ job' = job
         /\ \A v \in Workers : pc'[v] = "idle" <=> pc[v] = "idle"
<1> USE DEF Go
<1>1. Next
  BY DEF Next
<1>2. CASE Acquire(w) \/ Enter(w) \/ Unlock(w)
  BY <1>1, <1>2 DEF Acquire, Enter, Unlock, LockInv, TypeOK
<1>3. CASE CriticalStep(w)
  <2>1. /\ pc[w] # "idle" /\ pc'[w] # "idle" /\ job' = job
        /\ \A v \in Workers \ {w} : pc'[v] = pc[v]
    BY <1>3, CriticalStepMoves DEF LockInv, TypeOK, Moves, Critical
  <2> QED
    BY <1>1, <2>1
<1> QED
  BY <1>2, <1>3 DEF Work, CriticalStep

(* A step of the store under a command that stands still. *)
LEMMA StandStill ==
  ASSUME PopInv, LockInv, [Next]_vars, UNCHANGED <<poolVars, commandVars, lockFile, lock>>,
         content' \in [From("local") -> Artifacts],
         \A v \in Workers : pc'[v] = "idle" <=> pc[v] = "idle",
         \A v \in Workers : pool[v] = "put" => Artifact(v)' = Artifact(v)
  PROVE  PopInv'
<1> USE DEF poolVars, commandVars
<1>1. PTypeOK' /\ PhaseInv'
  BY DEF PopInv, PTypeOK, PhaseInv
<1>2. PoolInv'
  BY DEF PopInv, PoolInv, Idle, Wanted, Pooled
<1>3. \A a \in Artifacts : Recorded(a) => Recorded(a)'
  BY RecordsStay
<1>4. CoverInv'
  <2>1. ASSUME NEW p \in Packages, Covered(p), plan \in [Packages -> Artifacts]
        PROVE  Covered(p)'
    <3>1. Waits(p)' = Waits(p) /\ WorksAt(p)' = WorksAt(p)
      BY DEF Waits, WorksAt, Idle
    <3> QED
      BY <1>3, <2>1, <3>1 DEF Covered, Recorded
  <2>2. Registry \subseteq Packages /\ Stored \subseteq Packages
    BY DEF Registry, From, Stored
  <2> QED
    BY <1>3, <2>1, <2>2 DEF PopInv, CoverInv, PhaseInv, Recorded
<1> QED
  BY <1>1, <1>2, <1>4 DEF PopInv

(* The step of a worker of a pool, which the phase outlasts: what must be  *)
(* shown of it.                                                            *)
LEMMA PoolStep ==
  ASSUME PopInv, LockInv, [Next]_vars, PTypeOK', PoolInv',
         UNCHANGED <<command, phase, plan, lockFile, lock>>, failed => failed',
         phase \in {"capture", "populate", "hydrate"},
         phase = "hydrate" => \A v \in Workers \ {Main} : pool'[v] = pool[v],
         \A v \in Workers : pool'[v] = "received" => phase = "populate",
         \A p \in Packages : Waits(p) => Waits(p)' \/ WorksAt(p)' \/ failed',
         phase # "hydrate" =>
           \A p \in Packages : WorksAt(p) =>
             WorksAt(p)' \/ failed' \/ Recorded(plan[p])' \/ p \in From("git")
               \/ (p \in From("jsr") /\ phase = "populate")
  PROVE  PopInv'
<1>1. PhaseInv'
  BY DEF PopInv, PhaseInv
<1>2. \A a \in Artifacts : Recorded(a) => Recorded(a)'
  BY RecordsStay
<1>3. Registry \subseteq Packages /\ Stored \subseteq Packages
  BY DEF Registry, From, Stored
<1>4. CoverInv'
  <2>1. ASSUME phase = "capture", NEW p \in Registry PROVE Covered(p)'
    <3>1. p \in Packages /\ Covered(p) /\ plan[p] \in Artifacts /\ p \notin From("git")
      BY <1>3, <2>1, PackageAssumption DEF PopInv, CoverInv, PhaseInv, Registry, From
    <3> QED
      BY <1>2, <2>1, <3>1 DEF Covered, Recorded
  <2>2. ASSUME phase = "populate", NEW p \in Stored PROVE Covered(p)'
    <3>1. p \in Packages /\ Covered(p) /\ plan[p] \in Artifacts /\ p \notin From("git")
      BY <1>3, <2>2 DEF PopInv, CoverInv, PhaseInv, Stored
    <3>2. p \in From("jsr") => Recorded(plan[p])
      BY <2>2 DEF PopInv, CoverInv, Registry
    <3> QED
      BY <1>2, <2>2, <3>1, <3>2 DEF Covered, Recorded
  <2>3. phase = "populate" => \A p \in Registry : Recorded(plan[p])'
    BY <1>2, <1>3 DEF PopInv, CoverInv, PhaseInv, Recorded
  <2>4. lockFile = "whole" => \A p \in Stored : Recorded(lock[p])'
    BY <1>2, <1>3 DEF PopInv, CoverInv, PhaseInv, Recorded
  <2> QED
    BY <2>1, <2>2, <2>3, <2>4 DEF CoverInv, Recorded
<1> QED
  BY <1>1, <1>4 DEF PopInv

(* The head of the queue, and what is left of it. *)
LEMMA HeadOfQueue ==
  ASSUME PTypeOK, queue # {}
  PROVE  /\ First(queue) \in queue /\ First(queue) \in DOMAIN Order
         /\ Order[First(queue)] \in Packages
<1>1. queue \in SUBSET Nat
  BY PackageAssumption DEF PTypeOK
<1>2. First(queue) \in queue
  BY <1>1, LeastNumber, FirstIsLeast
<1> QED
  BY <1>2 DEF PTypeOK, Packages

(* A worker receives the head of the queue; sync's loop takes it. *)
LEMMA FeedPopInv ==
  ASSUME PopInv, LockInv, NEW w \in Workers, Feed(w) \/ (Hydrate /\ w = Main)
  PROVE  PopInv'
<1> USE DEF Move, HandOut, commandVars, projectVars
<1>1. /\ queue # {} /\ pool[w] = "free" /\ UNCHANGED <<vars, command, phase, plan, failed, result, commands,
             content, lockFile, lock, cancelled>>
      /\ feeding' = feeding
      /\ task' = [task EXCEPT ![w] = Order[First(queue)]] /\ queue' = queue \ {First(queue)}
      /\ pool' \in {[pool EXCEPT ![w] = "fetch"], [pool EXCEPT ![w] = "received"]}
      /\ committed' \in BOOLEAN
      /\ phase \in {"capture", "populate", "hydrate"}
      /\ phase = "hydrate" => w = Main
  BY DEF Feed, Hydrate, Pooled, PopInv, PTypeOK
<1>2. First(queue) \in queue /\ Order[First(queue)] \in Packages
  BY <1>1, HeadOfQueue DEF PopInv
<1>3. UNCHANGED <<pc, job, outcome, meta, tampered, misread>>
  BY <1>1 DEF vars, workerVars, historyVars, diskVars
<1>4. PTypeOK'
  BY <1>1, <1>2, <1>3 DEF PopInv, PTypeOK, Place
<1>5. /\ \A v \in Workers \ {w} : pool'[v] = pool[v] /\ task'[v] = task[v]
      /\ task'[w] = Order[First(queue)] /\ pool'[w] \in {"fetch", "received"}
      /\ pool'[w] = "received" => phase = "populate"
  <2>1. pool'[w] = "received" => phase = "populate"
    BY DEF Feed, Hydrate, PopInv, PTypeOK, Pooled
  <2> QED
    BY <1>1, <2>1 DEF PopInv, PTypeOK
<1>6. PoolInv'
  BY <1>1, <1>2, <1>3, <1>5 DEF PopInv, PoolInv, Idle, Wanted, Pooled, Artifact
<1>7. ASSUME NEW p \in Packages, Waits(p) PROVE Waits(p)' \/ WorksAt(p)'
  BY <1>1, <1>5, <1>7 DEF Waits, WorksAt, Idle
<1>8. ASSUME NEW p \in Packages, WorksAt(p) PROVE WorksAt(p)'
  BY <1>1, <1>5, <1>8 DEF WorksAt, Idle
<1>9. \A v \in Workers : pool'[v] = "received" => phase = "populate"
  BY <1>5 DEF PopInv, PhaseInv
<1> QED
  BY <1>9, <1>1, <1>4, <1>5, <1>6, <1>7, <1>8, PoolStep

(* The producer's own steps. *)
LEMMA ProducerPopInv ==
  ASSUME PopInv, LockInv, CommitHead \/ StopFeeding
  PROVE  PopInv'
<1> USE DEF commandVars, projectVars
<1>1. /\ UNCHANGED <<vars, command, phase, plan, failed, result, commands,
                     content, lockFile, lock, queue, cancelled, pool, task>>
      /\ phase \in {"capture", "populate"}
      /\ feeding' \in BOOLEAN /\ committed' \in BOOLEAN
      /\ feeding' \/ cancelled' \/ queue' = {}
  <2>1. CASE CommitHead
    BY <2>1 DEF CommitHead, PopInv, PTypeOK
  <2>2. CASE StopFeeding
    BY <2>2 DEF StopFeeding, Pooled, PopInv, PTypeOK
  <2> QED
    BY <2>1, <2>2
<1>2. UNCHANGED <<pc, job, outcome, meta, tampered, misread>>
  BY <1>1 DEF vars, workerVars, historyVars, diskVars
<1>3. PTypeOK'
  BY <1>1, <1>2 DEF PopInv, PTypeOK
<1>4. PoolInv'
  BY <1>1, <1>2 DEF PopInv, PoolInv, Idle, Wanted, Pooled, Artifact
<1>5. \A p \in Packages : Waits(p)' = Waits(p) /\ WorksAt(p)' = WorksAt(p)
  BY <1>1 DEF Waits, WorksAt, Idle
<1>6. \A v \in Workers : pool'[v] = "received" => phase = "populate"
  BY <1>1 DEF PopInv, PhaseInv
<1> QED
  BY <1>1, <1>3, <1>4, <1>5, <1>6, PoolStep

(* A worker that puts nothing: it leaves the pool, or is done with a package *)
(* that needs nothing, or goes on to fetch it, or fails to.                *)
LEMMA WorkerPopInv ==
  ASSUME PopInv, LockInv, NEW w \in Workers,
         Exit(w) \/ Drop(w) \/ Skip(w) \/ Miss(w) \/ FetchFails(w)
  PROVE  PopInv'
<1> USE DEF Move, commandVars, projectVars, Abandon
<1>1. /\ UNCHANGED <<vars, command, phase, plan, result, commands, content, lockFile, lock,
                     queue, feeding, committed>>
      /\ failed' \in BOOLEAN /\ cancelled' \in BOOLEAN
      /\ failed => failed'
      /\ cancelled => cancelled'
      /\ cancelled' => failed' \/ cancelled
  <2>1. CASE Exit(w)
    BY <2>1 DEF Exit, PopInv, PTypeOK
  <2>2. CASE Drop(w) \/ Skip(w)
    BY <2>2 DEF Drop, Skip, PopInv, PTypeOK
  <2>3. CASE Miss(w)
    BY <2>3 DEF Miss, PopInv, PTypeOK
  <2>4. CASE FetchFails(w)
    BY <2>4 DEF FetchFails, PopInv, PTypeOK
  <2> QED
    BY <2>1, <2>2, <2>3, <2>4
<1>0. /\ pool[w] \notin {"put", "exited"}
      /\ pool' \in {[pool EXCEPT ![w] = to] : to \in {"free", "exited", "fetch"}}
      /\ task' \in {task, [task EXCEPT ![w] = None]}
  <2>1. CASE Exit(w)
    BY <2>1 DEF Exit, PopInv, PTypeOK
  <2>2. CASE Drop(w) \/ Skip(w)
    BY <2>2 DEF Drop, Skip, PopInv, PTypeOK
  <2>3. CASE Miss(w)
    BY <2>3 DEF Miss, PopInv, PTypeOK
  <2>4. CASE FetchFails(w)
    BY <2>4 DEF FetchFails, PopInv, PTypeOK
  <2> QED
    BY <2>1, <2>2, <2>3, <2>4
<1>2. UNCHANGED <<pc, job, outcome, meta, tampered, misread>>
  BY <1>1 DEF vars, workerVars, historyVars, diskVars
<1>3. /\ pool[w] \notin {"put", "exited"}
      /\ \A v \in Workers \ {w} : pool'[v] = pool[v] /\ task'[v] = task[v]
      /\ pool'[w] \in {"free", "exited", "fetch"}
      /\ pool'[w] = "fetch" => pool[w] = "received" /\ task' = task
  <2>1. pool' \in [Workers -> Place] /\ pool'[w] \in {"free", "exited", "fetch"}
    BY <1>0 DEF PopInv, PTypeOK, Place
  <2>2. pool'[w] = "fetch" => pool[w] = "received" /\ task' = task
    <3>1. CASE Miss(w)
      BY <3>1 DEF Miss
    <3>2. CASE Exit(w) \/ Drop(w) \/ Skip(w) \/ FetchFails(w)
      BY <3>2 DEF Exit, Drop, Skip, FetchFails, PopInv, PTypeOK
    <3> QED
      BY <3>1, <3>2
  <2> QED
    BY <1>0, <2>1, <2>2 DEF PopInv, PTypeOK
<1>4. /\ phase \in {"capture", "populate", "hydrate"}
      /\ phase = "hydrate" => \A v \in Workers \ {Main} : pool'[v] = pool[v]
  <2>1. phase \in {"capture", "populate", "hydrate"}
    BY <1>3 DEF PopInv, PTypeOK, Phase, PhaseInv
  <2>2. phase = "hydrate" /\ w # Main => pool[w] = "free"
    BY DEF PopInv, PhaseInv
  <2>3. pool[w] = "free" => phase # "hydrate"
    BY DEF Exit, Drop, Skip, Miss, FetchFails, Pooled
  <2> QED
    BY <1>3, <2>1, <2>2, <2>3
<1>5. PTypeOK'
  <2>1. pool' \in [Workers -> Place] /\ task' \in [Workers -> Packages \cup {None}]
    BY <1>0 DEF PopInv, PTypeOK, Place
  <2>2. \A v \in Workers : pool'[v] = "put" <=> pool[v] = "put"
    BY <1>3
  <2> QED
    BY <1>1, <1>2, <2>1, <2>2 DEF PopInv, PTypeOK
<1>6. PoolInv'
  BY <1>1, <1>2, <1>3 DEF PopInv, PoolInv, Idle, Wanted, Pooled, Artifact
<1>7. \A p \in Packages : Waits(p)' = Waits(p)
  BY <1>1 DEF Waits
<1>8. ASSUME phase # "hydrate", NEW p \in Packages, WorksAt(p)
      PROVE  \/ WorksAt(p)' \/ failed' \/ Recorded(plan[p])' \/ p \in From("git")
             \/ p \in From("jsr") /\ phase = "populate"
  <2>1. PICK v \in Workers : ~Idle(v) /\ task[v] = p
    BY <1>8 DEF WorksAt
  <2>2. CASE v # w
    BY <1>3, <2>1, <2>2 DEF WorksAt, Idle
  <2>3. CASE v = w /\ Exit(w)
    BY <2>1, <2>3 DEF Exit, Idle
  <2>4. CASE v = w /\ Drop(w)
    BY <1>1, <1>4, <1>8, <2>4 DEF Drop, PopInv, PoolInv, Pooled
  <2>5. CASE v = w /\ Skip(w)
    <3>1. phase # "capture"
      BY <2>5 DEF Skip, PopInv, PhaseInv, PoolInv
    <3> QED
      BY <1>1, <1>2, <1>4, <1>8, <2>1, <2>5, <3>1 DEF Skip, Verified, Recorded, From
  <2>6. CASE v = w /\ Miss(w)
    <3>1. pool'[w] = "fetch" /\ task' = task
      BY <2>6 DEF Miss, PopInv, PTypeOK
    <3> QED
      BY <2>1, <2>6, <3>1 DEF WorksAt, Idle
  <2>7. CASE FetchFails(w)
    BY <2>7 DEF FetchFails
  <2> QED
    BY <2>2, <2>3, <2>4, <2>5, <2>6, <2>7
<1> QED
  BY <1>1, <1>3, <1>4, <1>5, <1>6, <1>7, <1>8, PoolStep DEF PopInv, PhaseInv

(* The hash a worker asks for is one. *)
LEMMA WantedIsArtifact ==
  ASSUME PopInv, NEW w \in Workers, pool[w] \in {"fetch", "put"}
  PROVE  task[w] \in Packages /\ Wanted(task[w]) \in Artifacts
<1>1. task[w] \in Packages
  BY DEF PopInv, PoolInv, Idle
<1>2. phase \in {"capture", "populate", "hydrate"}
  BY DEF PopInv, PTypeOK, Phase, PhaseInv
<1> QED
  BY <1>1, <1>2 DEF PopInv, PhaseInv, Wanted

(* So it begins a put the store expects. *)
LEMMA FetchPuts ==
  ASSUME PopInv, NEW w \in Workers, Fetch(w)
  PROVE  \E o \in Offers : /\ o.artifact = Wanted(task[w])
                           /\ BeginPut(w, o)
<1> DEFINE o == [artifact |-> Wanted(task[w]), identity |-> IdentityFor[task[w]]]
<1>1. task[w] \in Packages /\ Wanted(task[w]) \in Artifacts
  BY WantedIsArtifact DEF Fetch, Move
<1>2. o \in Offers
  BY <1>1, PackageAssumption
<1> QED
  BY <1>2 DEF Fetch

(* The put that a fetch begins is what the pool wants of the package. *)
LEMMA FetchPopInv ==
  ASSUME PopInv, LockInv, NEW w \in Workers, Fetch(w)
  PROVE  PopInv'
<1> USE DEF Move, commandVars, projectVars
<1>1. PICK o \in Offers : o.artifact = Wanted(task[w]) /\ BeginPut(w, o)
  BY FetchPuts
<1>2. [Next]_vars
  BY <1>1 DEF Next
<1>3. /\ UNCHANGED <<command, phase, plan, result, failed, commands, content, lockFile, lock,
                     queue, feeding, committed, cancelled, task>>
      /\ pool[w] = "fetch" /\ pool' = [pool EXCEPT ![w] = "put"]
  BY DEF Fetch
<1>4. /\ \A v \in Workers \ {w} : pool'[v] = pool[v] /\ pc'[v] = pc[v] /\ job'[v] = job[v]
      /\ pool'[w] = "put" /\ pc'[w] # "idle" /\ job'[w] = o
  BY <1>1, <1>3 DEF BeginPut, Go, PopInv, PTypeOK, LockInv, TypeOK
<1>5. PTypeOK'
  <2>1. pool' \in [Workers -> Place]
    BY <1>3 DEF PopInv, PTypeOK, Place
  <2>2. \A v \in Workers : pool'[v] = "put" <=> pc'[v] # "idle"
    BY <1>4 DEF PopInv, PTypeOK
  <2> QED
    BY <1>3, <2>1, <2>2 DEF PopInv, PTypeOK
<1>6. Artifact(w)' = Wanted(task[w])'
  BY <1>1, <1>3, <1>4 DEF Artifact, Wanted
<1>7. PoolInv'
  BY <1>3, <1>4, <1>6 DEF PopInv, PoolInv, Idle, Wanted, Pooled, Artifact
<1>8. \A p \in Packages : Waits(p)' = Waits(p) /\ WorksAt(p)' = WorksAt(p)
  BY <1>3, <1>4 DEF Waits, WorksAt, Idle
<1>9. /\ phase \in {"capture", "populate", "hydrate"}
      /\ phase = "hydrate" => w = Main
      /\ \A v \in Workers : pool'[v] = "received" => phase = "populate"
  BY <1>3, <1>4 DEF PopInv, PTypeOK, Phase, PhaseInv
<1> QED
  BY <1>2, <1>3, <1>4, <1>5, <1>7, <1>8, <1>9, PoolStep

(* A put that has returned is recorded, or the command has failed. *)
LEMMA FinishPutPopInv ==
  ASSUME PopInv, LockInv, ReportInv, NEW w \in Workers, FinishPut(w)
  PROVE  PopInv'
<1> USE DEF Move, Abandon
<1>1. [Next]_vars
  BY DEF FinishPut, Next
<1>2. /\ UNCHANGED <<command, phase, plan, result, commands, content, lockFile, lock,
                     queue, feeding, committed>>
      /\ pool[w] = "put" /\ pool' = [pool EXCEPT ![w] = "free"]
      /\ task' = [task EXCEPT ![w] = None]
      /\ failed' = (failed \/ PutFailed(w))
      /\ cancelled' = (cancelled \/ PutFailed(w))
  BY DEF FinishPut, projectVars
<1>3. /\ \A v \in Workers \ {w} : /\ pool'[v] = pool[v] /\ pc'[v] = pc[v] /\ job'[v] = job[v]
                                  /\ task'[v] = task[v]
      /\ pool'[w] = "free" /\ pc[w] = "release" /\ pc'[w] = "idle"
  BY <1>2 DEF FinishPut, Release, Go, PopInv, PTypeOK, LockInv, TypeOK
<1>4. PTypeOK'
  <2>1. /\ pool' \in [Workers -> Place] /\ task' \in [Workers -> Packages \cup {None}]
    BY <1>2 DEF PopInv, PTypeOK, Place
  <2>2. \A v \in Workers : pool'[v] = "put" <=> pc'[v] # "idle"
    BY <1>3 DEF PopInv, PTypeOK
  <2>3. failed' \in BOOLEAN /\ cancelled' \in BOOLEAN
    BY <1>2
  <2> QED
    BY <1>2, <2>1, <2>2, <2>3 DEF PopInv, PTypeOK
<1>5. PoolInv'
  <2>1. \A v \in Workers : ~Idle(v)' => task'[v] \in Packages
    BY <1>3 DEF PopInv, PoolInv, Idle
  <2>2. \A v \in Workers : pool'[v] = "put" => Artifact(v)' = Wanted(task[v])'
    BY <1>2, <1>3 DEF PopInv, PoolInv, Wanted, Artifact
  <2>3. Pooled' => /\ cancelled' => failed'
                   /\ feeding' \/ cancelled' \/ queue' = {}
    BY <1>2 DEF PopInv, PoolInv, Pooled
  <2> QED
    BY <2>1, <2>2, <2>3 DEF PoolInv
<1>6. \A p \in Packages : Waits(p)' = Waits(p)
  BY <1>2 DEF Waits
<1>7. /\ phase \in {"capture", "populate", "hydrate"}
      /\ phase = "hydrate" => w = Main
      /\ \A v \in Workers : pool'[v] = "received" => phase = "populate"
  BY <1>2, <1>3 DEF PopInv, PTypeOK, Phase, PhaseInv
<1>8. ASSUME NEW p \in Packages, phase # "hydrate", WorksAt(p)
      PROVE  WorksAt(p)' \/ failed' \/ Recorded(plan[p])'
  <2>1. PICK v \in Workers : ~Idle(v) /\ task[v] = p
    BY <1>8 DEF WorksAt
  <2>2. CASE v # w
    BY <1>3, <2>1, <2>2 DEF WorksAt, Idle
  <2>3. CASE v = w /\ outcome[w] = "ok"
    <3>1. Recorded(Artifact(w))
      BY <1>3, <2>3 DEF ReportInv, Reported
    <3>2. Artifact(w) = plan[p] /\ plan[p] \in Artifacts
      BY <1>2, <1>7, <1>8, <2>1, <2>3 DEF PopInv, PoolInv, PhaseInv, Wanted
    <3>3. Recorded(plan[p])'
      BY <1>1, <1>2, <3>1, <3>2, RecordsStay DEF Recorded
    <3> QED
      BY <3>3
  <2>4. CASE v = w /\ outcome[w] # "ok"
    <3>1. outcome[w] = "failed"
      BY <2>4 DEF LockInv, TypeOK
    <3> QED
      BY <1>2, <3>1 DEF PutFailed
  <2> QED
    BY <2>2, <2>3, <2>4
<1>9. failed => failed'
  BY <1>2
<1> QED
  BY <1>1, <1>2, <1>3, <1>4, <1>5, <1>6, <1>7, <1>8, <1>9, PoolStep

-----------------------------------------------------------------------------
(* The commands *)

(* The pool that a phase starts with, and what it will be given. *)
LEMMA StartedPool ==
  ASSUME PopInv, LockInv, NEW need \in SUBSET Packages, StartPool(Places(need)),
         UNCHANGED vars, \A w \in Workers : pool[w] = "exited"
  PROVE  /\ queue' \subseteq DOMAIN Order
         /\ feeding' \in BOOLEAN /\ committed' \in BOOLEAN /\ cancelled' = FALSE /\ feeding'
         /\ pool' \in [Workers -> Place] /\ task' \in [Workers -> Packages \cup {None}]
         /\ \A w \in Workers : pool'[w] = "free" /\ pc'[w] = "idle"
         /\ \A p \in need : Waits(p)'
<1> USE DEF StartPool, Places
<1>1. \A w \in Workers : pc'[w] = "idle"
  BY DEF PopInv, PTypeOK, vars, workerVars
<1>2. \A p \in need : Waits(p)'
  BY DEF Waits, Packages
<1> QED
  BY <1>1, <1>2 DEF Place

(* What the end of a command leaves. *)
LEMMA Ended ==
  ASSUME PopInv, NEW verdict \in {"ok", "failed"}, End(verdict),
         UNCHANGED meta, \A w \in Workers : pc'[w] = "idle",
         lockFile' \in {"missing", "torn", "whole"},
         lock' \in [Packages -> Artifacts \cup {None}],
         content' = content,
         lockFile' = "whole" => /\ lock' \in [Packages -> Artifacts]
                                /\ \A p \in Stored : Recorded(lock'[p])
  PROVE  PopInv'
<1> USE DEF End, EndPool, NoHashes
<1>1. PTypeOK'
  BY DEF PopInv, PTypeOK, Place, Phase
<1>2. PhaseInv'
  BY DEF PhaseInv
<1>3. PoolInv'
  BY DEF PoolInv, Idle, Pooled
<1>4. CoverInv'
  BY DEF CoverInv, Recorded
<1> QED
  BY <1>1, <1>2, <1>3, <1>4 DEF PopInv

(* The lockfile a command leaves alone stays backed. *)
LEMMA EndedAlone ==
  ASSUME PopInv, NEW verdict \in {"ok", "failed"}, End(verdict),
         UNCHANGED <<meta, content, lockFile, lock>>,
         \A w \in Workers : pc'[w] = "idle"
  PROVE  PopInv'
<1>1. /\ lockFile' \in {"missing", "torn", "whole"}
      /\ lock' \in [Packages -> Artifacts \cup {None}]
      /\ lockFile' = "whole" => /\ lock' \in [Packages -> Artifacts]
                                /\ \A p \in Stored : Recorded(lock'[p])
  BY DEF PopInv, PTypeOK, PhaseInv, CoverInv
<1> QED
  BY <1>1, Ended

(* A command begins with everything still to do in its queue. *)
LEMMA StartPopInv ==
  ASSUME PopInv, LockInv, StartUpdate \/ StartSync
  PROVE  PopInv'
<1> USE DEF projectVars
<1>1. /\ phase = "ready" /\ UNCHANGED <<content, lockFile, lock>> /\ UNCHANGED vars
      /\ failed' \in BOOLEAN /\ result' = "none" /\ commands' \in 0..MaxCommands
      /\ \A w \in Workers : pool[w] = "exited"
  <2>1. failed' \in BOOLEAN
    BY DEF StartUpdate, StartSync
  <2>2. commands \in 0..MaxCommands /\ commands < MaxCommands /\ commands' = commands + 1
    BY DEF StartUpdate, StartSync, PopInv, PTypeOK
  <2>3. commands' \in 0..MaxCommands
    BY <2>2, CommandAssumption
  <2> QED
    BY <2>1, <2>3 DEF StartUpdate, StartSync, PopInv, PhaseInv
<1>2. UNCHANGED <<pc, job, outcome, meta, tampered, misread>>
  BY <1>1 DEF vars, workerVars, historyVars, diskVars
<1>3. CASE StartUpdate
  <2>1. Registry \subseteq Packages /\ StartPool(Places(Registry))
    BY <1>3 DEF StartUpdate, Registry, From
  <2>2. command' = "update" /\ phase' = "capture" /\ plan' \in [Packages -> Artifacts]
    BY <1>3, PackageAssumption DEF StartUpdate, PopInv, PTypeOK, From
  <2>3. PTypeOK'
    BY <1>1, <1>2, <2>1, <2>2, StartedPool DEF PopInv, PTypeOK, Phase
  <2>4. PhaseInv'
    BY <1>1, <2>1, <2>2, StartedPool DEF PopInv, PhaseInv
  <2>5. PoolInv'
    BY <1>1, <2>1, <2>2, StartedPool DEF PoolInv, Idle, Pooled
  <2>6. CoverInv'
    <3>1. \A p \in Registry : Covered(p)'
      BY <1>1, <2>1, StartedPool DEF Covered
    <3> QED
      BY <1>1, <1>2, <2>2, <3>1 DEF PopInv, CoverInv, Recorded
  <2> QED
    BY <2>3, <2>4, <2>5, <2>6 DEF PopInv
<1>4. CASE StartSync
  <2> DEFINE need == {p \in Packages : ~Verified(lock[p])}
  <2>1. need \subseteq Packages /\ StartPool(Places(need))
    BY <1>4 DEF StartSync
  <2>2. command' = "sync" /\ phase' = "hydrate" /\ plan' = plan /\ lockFile = "whole"
    BY <1>4 DEF StartSync
  <2>3. PTypeOK'
    BY <1>1, <1>2, <2>1, <2>2, StartedPool DEF PopInv, PTypeOK, Phase
  <2>4. PhaseInv'
    BY <1>1, <2>1, <2>2, StartedPool DEF PopInv, PhaseInv
  <2>5. PoolInv'
    BY <1>1, <2>1, <2>2, StartedPool DEF PoolInv, Idle, Pooled
  <2>6. CoverInv'
    BY <1>1, <1>2, <2>2 DEF PopInv, CoverInv, Recorded
  <2> QED
    BY <2>3, <2>4, <2>5, <2>6 DEF PopInv
<1> QED
  BY <1>3, <1>4

(* A pool that is done without a failure has seen to every package. *)
LEMMA DoneIsRecorded ==
  ASSUME PopInv, Pooled, PoolIsDone, ~failed, NEW p, Covered(p)
  PROVE  Recorded(plan[p])
<1>1. queue = {}
  BY DEF PopInv, PoolInv, PoolIsDone
<1>2. ~Waits(p) /\ ~WorksAt(p)
  BY <1>1 DEF Waits, WorksAt, Idle, PoolIsDone
<1> QED
  BY <1>2 DEF Covered

(* After capture every registry package is stored, and populate's queue has *)
(* whatever else is missing.                                               *)
LEMMA EndCapturePopInv ==
  ASSUME PopInv, LockInv, EndCapture
  PROVE  PopInv'
<1> USE DEF projectVars
<1>1. /\ phase = "capture" /\ UNCHANGED <<content, lockFile, lock>> /\ UNCHANGED vars
      /\ \A w \in Workers : pool[w] = "exited"
      /\ PoolIsDone /\ Pooled
  BY DEF EndCapture, PoolIsDone, Pooled
<1>2. UNCHANGED <<pc, job, outcome, meta, tampered, misread>>
  BY <1>1 DEF vars, workerVars, historyVars, diskVars
<1>3. CASE failed
  <2>1. \A w \in Workers : pc'[w] = "idle"
    BY <1>1, <1>2 DEF PopInv, PTypeOK
  <2> QED
    BY <1>1, <1>2, <1>3, <2>1, EndedAlone DEF EndCapture
<1>4. CASE ~failed
  <2>1. Missing \subseteq Packages /\ StartPool(Places(Missing))
    BY <1>4 DEF EndCapture, Missing
  <2>2. /\ phase' = "populate" /\ UNCHANGED <<command, plan, failed, result, commands>>
    BY <1>4 DEF EndCapture
  <2>3. PTypeOK'
    BY <1>1, <1>2, <2>1, <2>2, StartedPool DEF PopInv, PTypeOK, Phase
  <2>4. PhaseInv'
    BY <1>1, <2>1, <2>2, StartedPool DEF PopInv, PhaseInv
  <2>5. PoolInv'
    BY <1>1, <2>1, <2>2, StartedPool DEF PoolInv, Idle, Pooled
  <2>6. CoverInv'
    <3>1. \A p \in Registry : Recorded(plan[p])
      BY <1>1, <1>4, DoneIsRecorded DEF PopInv, CoverInv
    <3>2. ASSUME NEW p \in Stored PROVE Covered(p)'
      <4>1. CASE p \in Missing
        BY <1>1, <2>1, <4>1, StartedPool DEF Covered
      <4>2. CASE p \notin Missing
        BY <1>2, <2>2, <4>2 DEF Covered, Missing, Stored, From, Verified, Recorded
      <4> QED
        BY <4>1, <4>2
    <3> QED
      BY <1>1, <1>2, <2>2, <3>1, <3>2 DEF PopInv, CoverInv, Recorded
  <2> QED
    BY <2>3, <2>4, <2>5, <2>6 DEF PopInv
<1> QED
  BY <1>3, <1>4

(* After populate everything planned is stored. *)
LEMMA EndPopulatePopInv ==
  ASSUME PopInv, LockInv, EndPopulate
  PROVE  PopInv'
<1> USE DEF projectVars
<1>1. /\ phase = "populate" /\ UNCHANGED <<content, lockFile, lock>> /\ UNCHANGED vars
      /\ \A w \in Workers : pool[w] = "exited"
      /\ PoolIsDone /\ Pooled
  BY DEF EndPopulate, PoolIsDone, Pooled
<1>2. UNCHANGED <<pc, job, outcome, meta, tampered, misread>>
  BY <1>1 DEF vars, workerVars, historyVars, diskVars
<1>3. CASE failed
  <2>1. \A w \in Workers : pc'[w] = "idle"
    BY <1>1, <1>2 DEF PopInv, PTypeOK
  <2> QED
    BY <1>1, <1>2, <1>3, <2>1, EndedAlone DEF EndPopulate
<1>4. CASE ~failed
  <2>1. /\ phase' = "open" /\ UNCHANGED <<command, plan, failed, result, commands>>
        /\ UNCHANGED <<queue, feeding, committed, cancelled, pool, task>>
    BY <1>4 DEF EndPopulate, poolVars
  <2>2. PTypeOK'
    BY <1>1, <1>2, <2>1 DEF PopInv, PTypeOK, Phase
  <2>3. PhaseInv'
    BY <1>1, <2>1 DEF PopInv, PhaseInv
  <2>4. PoolInv'
    BY <1>1, <2>1 DEF PoolInv, Idle, Pooled
  <2>5. CoverInv'
    <3>1. \A p \in Stored : Recorded(plan[p])
      BY <1>1, <1>4, DoneIsRecorded DEF PopInv, CoverInv
    <3> QED
      BY <1>1, <1>2, <2>1, <3>1 DEF PopInv, CoverInv, Recorded
  <2> QED
    BY <2>2, <2>3, <2>4, <2>5 DEF PopInv
<1> QED
  BY <1>3, <1>4

(* So the lockfile may be written. *)
LEMMA WriteLockPopInv ==
  ASSUME PopInv, LockInv, OpenLock \/ FillLock \/ LockFails
  PROVE  PopInv'
<1>1. UNCHANGED vars /\ UNCHANGED content
  BY DEF OpenLock, FillLock, LockFails, projectVars
<1>2. UNCHANGED <<pc, job, outcome, meta, tampered, misread>>
  BY <1>1 DEF vars, workerVars, historyVars, diskVars
<1>3. \A w \in Workers : pool[w] = "exited" /\ pc'[w] = "idle"
  BY <1>2 DEF OpenLock, FillLock, LockFails, PopInv, PhaseInv, PTypeOK
<1>4. CASE OpenLock
  <2>1. /\ phase = "open" /\ phase' = "fill" /\ lockFile' = "torn"
        /\ UNCHANGED <<command, plan, failed, result, commands, lock>>
        /\ UNCHANGED <<queue, feeding, committed, cancelled, pool, task>>
    BY <1>4 DEF OpenLock, poolVars
  <2>2. PTypeOK'
    BY <1>1, <1>2, <2>1 DEF PopInv, PTypeOK, Phase
  <2>3. PhaseInv' /\ PoolInv'
    BY <1>1, <1>3, <2>1 DEF PopInv, PhaseInv, PoolInv, Idle, Pooled
  <2>4. CoverInv'
    BY <1>2, <2>1 DEF PopInv, CoverInv, Recorded
  <2> QED
    BY <2>2, <2>3, <2>4 DEF PopInv
<1>5. CASE FillLock
  <2>1. phase = "fill" /\ End("ok") /\ lockFile' = "whole" /\ lock' = plan
    BY <1>5 DEF FillLock
  <2>2. /\ plan \in [Packages -> Artifacts] /\ \A p \in Stored : Recorded(plan[p])
    BY <2>1 DEF PopInv, PhaseInv, CoverInv
  <2> QED
    BY <1>1, <1>2, <1>3, <2>1, <2>2, Ended
<1>6. CASE LockFails
  BY <1>1, <1>2, <1>3, <1>6, EndedAlone DEF LockFails, projectVars
<1> QED
  BY <1>4, <1>5, <1>6

(* sync leaves the lockfile alone, as does a command that dies. *)
LEMMA EndSyncPopInv ==
  ASSUME PopInv, LockInv, EndSync
  PROVE  PopInv'
<1>1. /\ phase = "hydrate" /\ pool[Main] = "free" /\ UNCHANGED vars
      /\ UNCHANGED <<content, lockFile, lock>>
      /\ \E verdict \in {"ok", "failed"} : End(verdict)
  BY DEF EndSync, projectVars
<1>2. UNCHANGED <<pc, meta>>
  BY <1>1 DEF vars, workerVars, diskVars
<1>3. \A w \in Workers : pc'[w] = "idle"
  BY <1>1, <1>2 DEF PopInv, PTypeOK, PhaseInv
<1> QED
  BY <1>1, <1>2, <1>3, EndedAlone

(* The next command finds an idle pool. *)
LEMMA DiePopInv ==
  ASSUME PopInv, LockInv, Die
  PROVE  PopInv'
<1>1. /\ End("failed") /\ UNCHANGED <<content, lockFile, lock, meta>>
      /\ \A w \in Workers : pc'[w] = "idle"
  BY DEF Die, Crash, projectVars, diskVars
<1> QED
  BY <1>1, EndedAlone

-----------------------------------------------------------------------------
(* Every step of a command is a step of the store, or none. *)
LEMMA PStepIsStoreStep ==
  ASSUME PopInv, LockInv, [PNext]_allVars
  PROVE  [Next]_vars
<1>1. ASSUME NEW w \in Workers, Feed(w) \/ PoolWork(w) PROVE [Next]_vars
  <2>1. CASE Fetch(w)
    BY <2>1, FetchPuts DEF Next
  <2>2. CASE FinishPut(w)
    BY <2>2 DEF FinishPut, Next
  <2>3. CASE StoreStep(w)
    BY <2>3, StoreWork DEF StoreStep
  <2> QED
    BY <1>1, <2>1, <2>2, <2>3 DEF Feed, PoolWork, Exit, Drop, Skip, Miss, FetchFails
<1>2. CASE Die
  BY <1>2 DEF Die, Next
<1>3. ASSUME NEW a \in Artifacts, DamageTree(a) PROVE [Next]_vars
  BY <1>3 DEF DamageTree, Next
<1>4. CASE StartUpdate \/ StartSync \/ Control
  BY <1>4 DEF StartUpdate, StartSync, Control, CommitHead, StopFeeding, EndCapture,
     EndPopulate, OpenLock, FillLock, LockFails, Hydrate, EndSync
<1>5. ASSUME NEW p \in From("local"), Edit(p) PROVE UNCHANGED vars
  BY <1>5 DEF Edit
<1>6. CASE Quiet \/ UNCHANGED allVars
  BY <1>6 DEF Quiet, allVars
<1> QED
  BY <1>1, <1>2, <1>3, <1>4, <1>5, <1>6 DEF PNext

(* Every step keeps the commands' invariant. *)
LEMMA NextPopInv == PopInv /\ LockInv /\ ReportInv /\ [PNext]_allVars => PopInv'
<1> SUFFICES ASSUME PopInv, LockInv, ReportInv, [PNext]_allVars PROVE PopInv'
  OBVIOUS
<1>0. [Next]_vars
  BY PStepIsStoreStep
<1>1. CASE StartUpdate \/ StartSync
  BY <1>1, StartPopInv
<1>2. CASE Control
  <2>1. CASE Hydrate
    <3>1. Main \in Workers
      BY CommandAssumption DEF Main
    <3> QED
      BY <2>1, <3>1, FeedPopInv
  <2> QED
    BY <1>2, <2>1, ProducerPopInv, EndCapturePopInv, EndPopulatePopInv, WriteLockPopInv,
       EndSyncPopInv DEF Control
<1>3. ASSUME NEW w \in Workers, Feed(w) PROVE PopInv'
  BY <1>3, FeedPopInv
<1>4. ASSUME NEW w \in Workers, StoreStep(w) PROVE PopInv'
  <2>1. UNCHANGED <<poolVars, commandVars, lockFile, lock, content>>
    BY <1>4 DEF StoreStep, projectVars
  <2>2. job' = job /\ \A v \in Workers : pc'[v] = "idle" <=> pc[v] = "idle"
    BY <1>4, StoreWork DEF StoreStep
  <2>3. \A v \in Workers : Artifact(v)' = Artifact(v)
    BY <2>2 DEF Artifact
  <2> QED
    BY <1>0, <2>1, <2>2, <2>3, StandStill DEF PopInv, PTypeOK
<1>5. ASSUME NEW w \in Workers, PoolWork(w), ~StoreStep(w) PROVE PopInv'
  BY <1>5, WorkerPopInv, FetchPopInv, FinishPutPopInv DEF PoolWork
<1>6. CASE Die
  BY <1>6, DiePopInv
<1>7. ASSUME NEW p \in From("local"), Edit(p) PROVE PopInv'
  <2>1. /\ UNCHANGED <<poolVars, commandVars, lockFile, lock>> /\ UNCHANGED <<pc, job>>
        /\ content' \in [From("local") -> Artifacts]
    BY <1>7, PackageAssumption DEF Edit, vars, workerVars, PopInv, PTypeOK
  <2> QED
    BY <1>0, <2>1, StandStill DEF Artifact
<1>8. ASSUME NEW a \in Artifacts, DamageTree(a) PROVE PopInv'
  <2>1. /\ UNCHANGED <<poolVars, commandVars, lockFile, lock, content>> /\ UNCHANGED <<pc, job>>
    BY <1>8 DEF DamageTree, Damage, workerVars, projectVars
  <2> QED
    BY <1>0, <2>1, StandStill DEF Artifact, PopInv, PTypeOK
<1>9. CASE Quiet \/ UNCHANGED allVars
  <2>1. /\ UNCHANGED <<poolVars, commandVars, lockFile, lock, content>> /\ UNCHANGED <<pc, job>>
    BY <1>9 DEF Quiet, allVars, vars, workerVars, projectVars
  <2> QED
    BY <1>0, <2>1, StandStill DEF Artifact, PopInv, PTypeOK
<1> QED
  BY <1>1, <1>2, <1>3, <1>4, <1>5, <1>6, <1>7, <1>8, <1>9 DEF PNext

(* The initial state satisfies it. *)
LEMMA InitPopInv == PInit => ReportInv /\ PopInv
<1> SUFFICES ASSUME PInit PROVE ReportInv /\ PopInv
  OBVIOUS
<1> USE DEF PInit, Init, NoHashes
<1>1. ReportInv
  BY DEF ReportInv, Reported
<1>2. PTypeOK
  <2>1. content \in [From("local") -> Artifacts]
    BY PackageAssumption DEF From
  <2>2. commands \in 0..MaxCommands
    BY CommandAssumption
  <2>3. pool \in [Workers -> Place] /\ \A w \in Workers : pool[w] # "put" /\ pc[w] = "idle"
    BY DEF Place
  <2> QED
    BY <2>1, <2>2, <2>3 DEF PTypeOK, Phase
<1>3. PhaseInv /\ PoolInv /\ CoverInv
  BY DEF PhaseInv, PoolInv, CoverInv, Idle, Pooled
<1> QED
  BY <1>1, <1>2, <1>3 DEF PopInv

-----------------------------------------------------------------------------
(* What a worker is putting of a directory was its contents when the put began, *)
(* and only what has been edited since is misread.                           *)
EditInv ==
  /\ \A w \in Workers :
       pool[w] = "put" /\ task[w] \in From("local") => content[task[w]] \in {Artifact(w), Edited[task[w]]}
  /\ OnlyEditsAreMisread

(* A put misreads no artifact but its own, and none as it begins or returns.  *)
LEMMA OwnIsMisread ==
  ASSUME NEW w \in Workers, Acquire(w) \/ Work(w)
  PROVE  misread' \subseteq misread \cup {Artifact(w)}
<1> USE DEF historyVars
<1>1. CASE PublishTree(w)
  BY <1>1 DEF PublishTree
<1>2. CASE Acquire(w) \/ Enter(w) \/ WriteBlob(w) \/ BlobFails(w) \/ CheckTree(w)
  BY <1>2 DEF Acquire, Enter, WriteBlob, BlobFails, CheckTree
<1>3. CASE RemoveSome(w) \/ RemoveTree(w) \/ RemoveFails(w) \/ PublishFails(w)
  BY <1>3 DEF RemoveSome, RemoveTree, RemoveFails, PublishFails
<1>4. CASE ReadMetadata(w) \/ WriteMetadata(w) \/ MetadataFails(w) \/ Unlock(w)
  BY <1>4 DEF ReadMetadata, WriteMetadata, MetadataFails, Unlock
<1> QED
  BY <1>1, <1>2, <1>3, <1>4 DEF Work

(* Who has a put is a worker at a package.                                  *)
LEMMA PutIsWorking ==
  ASSUME PopInv, LockInv, NEW w \in Workers, Acquire(w) \/ Work(w)
  PROVE  pool[w] = "put" /\ task[w] \in Packages
<1>1. pc[w] # "idle"
  <2>1. CASE Acquire(w) \/ Enter(w) \/ Unlock(w)
    BY <2>1 DEF Acquire, Enter, Unlock, Go
  <2>2. CASE CriticalStep(w)
    BY <2>2, CriticalStepMoves DEF LockInv, TypeOK, Moves, Critical
  <2> QED
    BY <2>1, <2>2 DEF Work, CriticalStep
<1> QED
  BY <1>1 DEF PopInv, PTypeOK, PoolInv, Idle

LEMMA StepKeepsMisread ==
  ASSUME LockInv, NEW w \in Workers, Acquire(w) \/ Work(w)
  PROVE  misread' \subseteq Trees
<1>1. [Next]_vars
  BY StoreWork
<1> QED
  BY <1>1, NextLockInv DEF LockInv, TypeOK

(* Nobody edits, nothing is published, and who puts was putting the same.    *)
LEMMA NothingEdited ==
  ASSUME EditInv, UNCHANGED <<misread, content>>,
         \A w \in Workers : pool'[w] = "put" =>
           pool[w] = "put" /\ task'[w] = task[w] /\ Artifact(w)' = Artifact(w)
  PROVE  EditInv'
<1>1. OnlyEditsAreMisread'
  BY DEF EditInv, OnlyEditsAreMisread
<1> QED
  BY <1>1 DEF EditInv

(* A pool that is started, or ended, puts nothing yet, or no longer.         *)
LEMMA ControlKeepsEdits ==
  ASSUME EditInv, PopInv, StartUpdate \/ StartSync \/ Control \/ Die
  PROVE  EditInv'
<1>1. UNCHANGED <<misread, content>>
  BY DEF StartUpdate, StartSync, Control, CommitHead, StopFeeding, EndCapture, EndPopulate, OpenLock, FillLock,
     LockFails, Hydrate, EndSync, Die, Crash, vars, historyVars, projectVars
<1>2. CASE StartUpdate \/ StartSync \/ EndCapture \/ EndPopulate \/ FillLock \/ LockFails \/ EndSync \/ Die
  <2>1. (\A w \in Workers : pool'[w] # "put") \/ UNCHANGED <<poolVars, vars>>
    BY <1>2 DEF StartUpdate, StartSync, EndCapture, EndPopulate, FillLock, LockFails, EndSync, Die,
       StartPool, End, EndPool
  <2> QED
    BY <1>1, <2>1, NothingEdited DEF poolVars, vars, workerVars, Artifact
<1>3. CASE CommitHead \/ StopFeeding \/ OpenLock
  BY <1>1, <1>3, NothingEdited DEF CommitHead, StopFeeding, OpenLock, poolVars, vars, workerVars, Artifact
<1>4. CASE Hydrate
  <2>1. \A w \in Workers : pool'[w] = "put" => w # Main
    BY <1>4 DEF Hydrate, Move, PopInv, PTypeOK
  <2> QED
    BY <1>1, <1>4, <2>1, NothingEdited DEF Hydrate, Move, HandOut, vars, workerVars, Artifact, PopInv, PTypeOK
<1> QED
  BY <1>2, <1>3, <1>4 DEF Control

(* A worker begins a put of a directory that is what it is to be.            *)
LEMMA PoolKeepsEdits ==
  ASSUME EditInv, PopInv, LockInv, NEW w \in Workers, Feed(w) \/ PoolWork(w)
  PROVE  EditInv'
<1> USE DEF Move, projectVars
<1>1. CASE Feed(w) \/ Exit(w) \/ Drop(w) \/ Skip(w) \/ Miss(w) \/ FetchFails(w)
  <2>1. UNCHANGED <<misread, content>> /\ job' = job
    BY <1>1 DEF Feed, Exit, Drop, Skip, Miss, FetchFails, vars, workerVars, historyVars
  <2>2. \A v \in Workers : pool'[v] = "put" => v # w /\ pool[v] = "put" /\ task'[v] = task[v]
    BY <1>1 DEF Feed, Exit, Drop, Skip, Miss, FetchFails, Abandon, HandOut, PopInv, PTypeOK
  <2> QED
    BY <2>1, <2>2, NothingEdited DEF Artifact
<1>2. CASE FinishPut(w)
  <2>1. UNCHANGED <<misread, content>> /\ job' = [job EXCEPT ![w] = None]
    BY <1>2 DEF FinishPut, Release
  <2>2. \A v \in Workers : pool'[v] = "put" => v # w /\ pool[v] = "put" /\ task'[v] = task[v]
    BY <1>2 DEF FinishPut, Abandon, PopInv, PTypeOK
  <2> QED
    BY <2>1, <2>2, NothingEdited DEF Artifact, LockInv, TypeOK
<1>3. CASE Fetch(w)
  <2>1. PICK o \in Offers : o.artifact = Wanted(task[w]) /\ BeginPut(w, o)
    BY <1>3, FetchPuts
  <2>2. UNCHANGED <<misread, content, task>> /\ job' = [job EXCEPT ![w] = o]
    BY <1>3, <2>1 DEF Fetch, BeginPut, historyVars
  <2>3. pool' = [pool EXCEPT ![w] = "put"]
    BY <1>3 DEF Fetch
  <2>4. task[w] \in From("local") => content[task[w]] = o.artifact
    BY <1>3, <2>1 DEF Fetch, Mismatch
  <2>5. OnlyEditsAreMisread'
    BY <2>2 DEF EditInv, OnlyEditsAreMisread
  <2> QED
    BY <2>2, <2>3, <2>4, <2>5 DEF EditInv, Artifact, LockInv, TypeOK, PopInv, PTypeOK
<1>4. CASE StoreStep(w)
  <2>1. UNCHANGED <<pool, task, content, job>>
    BY <1>4, StoreWork DEF StoreStep, poolVars
  <2>2. pool[w] = "put" /\ task[w] \in Packages
    BY <1>4, PutIsWorking DEF StoreStep
  <2>3. ASSUME Artifact(w) \in misread' \ misread
        PROVE  /\ Artifact(w) \in Trees
               /\ task[w] \in From("local") /\ content[task[w]] = Edited[task[w]] /\ Edited[task[w]] # Artifact(w)
    <3>1. misread' \subseteq Trees
      BY <1>4, StepKeepsMisread DEF StoreStep
    <3>2. task[w] \in From("local") /\ content[task[w]] # Artifact(w)
      BY <1>4, <2>3 DEF StoreStep
    <3> QED
      BY <2>2, <2>3, <3>1, <3>2 DEF EditInv
  <2>4. misread' \subseteq misread \cup {Artifact(w)}
    BY <1>4, OwnIsMisread DEF StoreStep
  <2>5. OnlyEditsAreMisread'
    BY <2>1, <2>3, <2>4 DEF EditInv, OnlyEditsAreMisread
  <2> QED
    BY <2>1, <2>5 DEF EditInv, Artifact
<1> QED
  BY <1>1, <1>2, <1>3, <1>4 DEF PoolWork

(* An edit leaves the directory as it is to stay, and damage comes to trees.  *)
LEMMA NextEditInv == EditInv /\ PopInv /\ LockInv /\ [PNext]_allVars => EditInv'
<1> SUFFICES ASSUME EditInv, PopInv, LockInv, [PNext]_allVars PROVE EditInv'
  OBVIOUS
<1>1. CASE StartUpdate \/ StartSync \/ Control \/ Die
  BY <1>1, ControlKeepsEdits
<1>2. ASSUME NEW w \in Workers, Feed(w) \/ PoolWork(w) PROVE EditInv'
  BY <1>2, PoolKeepsEdits
<1>3. ASSUME NEW p \in From("local"), Edit(p) PROVE EditInv'
  <2>1. UNCHANGED <<misread, pool, task, job>> /\ content' = [content EXCEPT ![p] = Edited[p]]
    BY <1>3 DEF Edit, vars, historyVars, workerVars, poolVars
  <2>2. content \in [From("local") -> Artifacts]
    BY DEF PopInv, PTypeOK
  <2>3. OnlyEditsAreMisread'
    BY <2>1, <2>2 DEF EditInv, OnlyEditsAreMisread
  <2> QED
    BY <2>1, <2>2, <2>3 DEF EditInv, Artifact
<1>4. ASSUME NEW a \in Artifacts, DamageTree(a) PROVE EditInv'
  BY <1>4, NothingEdited DEF DamageTree, Damage, workerVars, poolVars, projectVars, Artifact
<1>5. CASE Quiet \/ UNCHANGED allVars
  BY <1>5, NothingEdited DEF Quiet, allVars, vars, historyVars, workerVars, poolVars, projectVars, Artifact
<1> QED
  BY <1>1, <1>2, <1>3, <1>4, <1>5 DEF PNext

(* The commands implement the store. *)
LEMMA PopLayer == PSpec => [](LockInv /\ DiskInv /\ ReportInv /\ PopInv /\ EditInv) /\ Spec
<1> DEFINE All == LockInv /\ DiskInv /\ ReportInv /\ PopInv /\ EditInv
<1>1. PInit => All /\ Init
  <2>1. Init => DiskInv
    BY DEF Init, DiskInv, FilesAgree, KnowsItsFiles, Recorded, NoMetadata
  <2>2. PInit => EditInv
    BY DEF PInit, Init, EditInv, OnlyEditsAreMisread
  <2> QED
    BY <2>1, <2>2, InitLockInv, InitPopInv DEF PInit
<1>2. All /\ [PNext]_allVars => [Next]_vars
  BY PStepIsStoreStep
<1>3. All /\ [PNext]_allVars => All'
  BY <1>2, NextLockInv, NextDiskInv, NextReportInv, NextPopInv, NextEditInv
<1> QED
  BY <1>1, <1>2, <1>3, PTL DEF PSpec, Spec

(* The commands and their pools drive the store only through what PutArtifact *)
(* does: whatever is proved of Spec holds under `tspack update` and          *)
(* `tspack sync` (update_operation.go, sync_hydrate.go).                     *)
THEOREM CommandsRunTheStore == PSpec => Spec
<1> QED
  BY PopLayer, PTL

(* What ts-lock.toml names is in the store and verifies, from the moment the *)
(* file is whole, whatever failed, crashed or was interleaved before, unless *)
(* somebody changes its tree or it is a directory that was misread; and only *)
(* a directory that was edited while it was put is: "writes deterministic    *)
(* ts-lock.toml only after required store population succeeds"               *)
(* (docs/commands.md:39), for any number of packages, workers and commands.  *)
THEOREM LocksAreBacked == PSpec => []LockIsBacked
<1>1. LockInv /\ DiskInv /\ PopInv => LockedIsStored
  <2> SUFFICES ASSUME LockInv, DiskInv, PopInv, lockFile = "whole",
                      NEW p \in Packages \ From("git"), lock[p] \notin Unsound
               PROVE  Verified(lock[p])
    BY DEF LockedIsStored
  <2>1. lock[p] \in Artifacts /\ Recorded(lock[p])
    BY DEF PopInv, PhaseInv, CoverInv, Stored
  <2>2. tree[lock[p]] = "whole"
    BY <2>1 DEF DiskInv, FilesAgree
  <2> QED
    BY <2>1, <2>2 DEF Verified, Healthy
<1>2. LockInv /\ DiskInv /\ PopInv /\ EditInv => LockIsBacked
  BY <1>1 DEF LockIsBacked, PopInv, EditInv
<1> QED
  BY <1>2, PopLayer, PTL
=============================================================================
