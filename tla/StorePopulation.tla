--------------------------- MODULE StorePopulation ---------------------------
(***************************************************************************)
(* The commands that fill the store, one after another on one project:     *)
(* `tspack update` (internal/project/update_operation.go) captures what    *)
(* the resolver downloads, fills in what is still missing with a pool of   *)
(* workers and then writes the lockfile; `tspack sync` (sync_hydrate.go)   *)
(* verifies every locked artifact and fetches those that are missing.      *)
(*                                                                         *)
(* The resolver is modelled by the plan it makes: a registry package is    *)
(* locked at the hash of what the registry serves, a directory at the hash *)
(* of its contents when it is resolved, a git package at its tree hash.    *)
(* A pool works in the same way in both phases of update (prepareGroups of *)
(* internal/resolver/npm.go, populateStoreParallel); pool is its workers'  *)
(* place in the loop, beside their place pc in PutArtifact.                *)
(***************************************************************************)
EXTENDS Store, Sequences

CONSTANTS
  Order,        \* the packages of the project, in lockfile order
  SourceOf,     \* npm, jsr, local (path or workspace) or git
  Resolved,     \* the hash a package resolves to at first
  Edited,       \* the hash of a directory after an edit
  IdentityFor,  \* the provenance identity of a package
  Unreliable,   \* whether a download or reading a directory may fail
  MaxCommands   \* bound on the commands of a behaviour

Packages == {Order[k] : k \in DOMAIN Order}
From(source) == {p \in Packages : SourceOf[p] = source}
Registry == From("npm") \cup From("jsr")

ASSUME PackageAssumption ==
  /\ Order \in Seq(Packages)
  /\ None \notin Packages
  /\ SourceOf \in [Packages -> {"npm", "jsr", "local", "git"}]
  /\ Resolved \in [Packages -> Artifacts]
  /\ Edited \in [From("local") -> Artifacts]
  /\ IdentityFor \in [Packages -> Identities]
  /\ \A p \in Packages : (Resolved[p] \in Trees) <=> (p \notin Registry)
  /\ \A p \in From("local") : Edited[p] \in Trees
  /\ [artifact : Artifacts, identity : {IdentityFor[p] : p \in Packages}] \subseteq Offers
ASSUME CommandAssumption == Workers # {} /\ Unreliable \in BOOLEAN /\ MaxCommands \in Nat

VARIABLES
  command,    \* the command that runs, or ran last
  phase,      \* where it is
  plan,       \* the hashes of res.Lock
  queue,      \* the places in Order of what the producer, or sync's loop,
              \* has still to hand out, the first of them first
  feeding,    \* the producer has not closed jobCh
  committed,  \* prepareGroups' producer saw no failure and is about to send
  cancelled,  \* ctx of populateStoreParallel, stopSubmitting of prepareGroups
  pool,       \* where a worker is in its loop
  task,       \* the package it works at
  failed,     \* hasErrors of the command's diagnostics
  result,     \* how the last command ended
  commands,
  content,    \* the contents of a local package's directory
  lockFile,   \* whether ts-lock.toml is there and readable
  lock        \* the hashes in it

poolVars == <<queue, feeding, committed, cancelled, pool, task>>
commandVars == <<command, phase, plan, failed, result, commands>>
projectVars == <<content, lockFile, lock>>
allVars == <<vars, poolVars, commandVars, projectVars>>

Phase == {"ready", "capture", "populate", "open", "fill", "hydrate"}
Place == {"free", "received", "fetch", "put", "exited"}
NoHashes == [p \in Packages |-> None]

PInit ==
  /\ Init
  /\ command = "none" /\ phase = "ready" /\ plan = NoHashes
  /\ queue = {} /\ feeding = FALSE /\ committed = FALSE /\ cancelled = FALSE
  /\ pool = [w \in Workers |-> "exited"]
  /\ task = [w \in Workers |-> None]
  /\ failed = FALSE /\ result = "none" /\ commands = 0
  /\ content = [p \in From("local") |-> Resolved[p]]
  /\ lockFile = "missing"
  /\ lock = NoHashes

-----------------------------------------------------------------------------
(* The pool of workers *)

(* The packages that need something, by their places. *)
Places(need) == {k \in DOMAIN Order : Order[k] \in need}

HandOut(w) == /\ task' = [task EXCEPT ![w] = Order[First(queue)]]
              /\ queue' = queue \ {First(queue)}

Pooled == phase \in {"capture", "populate"}

StartPool(q) ==
  /\ queue' = q
  /\ feeding' = TRUE
  /\ committed' = FALSE
  /\ cancelled' = FALSE
  /\ pool' = [w \in Workers |-> "free"]
  /\ task' = [w \in Workers |-> None]

(* What the pool kept goes with the call. *)
EndPool ==
  /\ queue' = {} /\ feeding' = FALSE /\ committed' = FALSE /\ cancelled' = FALSE
  /\ pool' = [w \in Workers |-> "exited"]
  /\ task' = [w \in Workers |-> None]

Move(w, from, to) == /\ pool[w] = from
                     /\ pool' = [pool EXCEPT ![w] = to]

(* prepareGroups' producer looks at stopSubmitting before it sends.          *)
CommitHead ==
  /\ phase = "capture" /\ feeding /\ ~committed /\ ~cancelled /\ queue # {}
  /\ committed' = TRUE
  /\ UNCHANGED <<vars, queue, feeding, cancelled, pool, task, commandVars, projectVars>>

(* A worker receives the next package.  populateStoreParallel's producer     *)
(* selects between that and the end of the context, either may win.          *)
Feed(w) ==
  /\ Pooled /\ feeding /\ queue # {}
  /\ phase = "capture" => committed
  /\ Move(w, "free", IF phase = "capture" THEN "fetch" ELSE "received")
  /\ HandOut(w)
  /\ committed' = FALSE
  /\ UNCHANGED <<vars, feeding, cancelled, commandVars, projectVars>>

StopFeeding_WhenEmpty ==
  /\ Pooled /\ feeding /\ ~committed
  /\ queue = {}
  /\ feeding' = FALSE
  /\ UNCHANGED <<vars, queue, committed, cancelled, pool, task, commandVars, projectVars>>

StopFeeding ==
  /\ Pooled /\ feeding /\ ~committed
  /\ queue = {} \/ cancelled
  /\ feeding' = FALSE
  /\ UNCHANGED <<vars, queue, committed, cancelled, pool, task, commandVars, projectVars>>

Exit(w) ==
  /\ Pooled /\ ~feeding
  /\ Move(w, "free", "exited")
  /\ UNCHANGED <<vars, queue, feeding, committed, cancelled, task, commandVars, projectVars>>

Abandon(w) == /\ task' = [task EXCEPT ![w] = None]
              /\ UNCHANGED <<queue, feeding, committed>>

(* A package received after a failure gets an empty result.                  *)
Drop(w) ==
  /\ Move(w, "received", "free")
  /\ cancelled
  /\ Abandon(w)
  /\ UNCHANGED <<vars, cancelled, commandVars, projectVars>>

(* populateOneStorePackage: a package that is there needs nothing, and jsr   *)
(* and git are no case of its switch.                                        *)
Skip(w) ==
  /\ Move(w, "received", "free")
  /\ ~cancelled
  /\ \/ SourceOf[task[w]] \in {"jsr", "git"}
     \/ Verified(plan[task[w]])
  /\ Abandon(w)
  /\ UNCHANGED <<vars, cancelled, commandVars, projectVars>>

Miss(w) ==
  /\ Move(w, "received", "fetch")
  /\ ~cancelled
  /\ SourceOf[task[w]] \in {"npm", "local"}
  /\ ~Verified(plan[task[w]])
  /\ UNCHANGED <<vars, queue, feeding, committed, cancelled, task, commandVars, projectVars>>

(* What the bytes of a package must be, and whether they are: the hash that  *)
(* PutArtifact computes is compared with the one asked for, first of all.    *)
Wanted(p) == IF command = "update" THEN plan[p] ELSE lock[p]
Mismatch(p) == p \in From("local") /\ content[p] # Wanted(p)

Fetch(w) ==
  /\ Move(w, "fetch", "put")
  /\ ~Mismatch(task[w])
  /\ SourceOf[task[w]] # "git"
  /\ BeginPut(w, [artifact |-> Wanted(task[w]), identity |-> IdentityFor[task[w]]])
  /\ UNCHANGED <<queue, feeding, committed, cancelled, task, commandVars, projectVars>>

(* A failure of one package stops the pool; sync goes on with the next.      *)
FetchFails(w) ==
  /\ Move(w, "fetch", "free")
  /\ \/ Unreliable
     \/ cancelled /\ phase = "populate" /\ task[w] \in Registry
     \/ Mismatch(task[w])
     \/ SourceOf[task[w]] = "git"
  /\ failed' = TRUE
  /\ cancelled' = TRUE
  /\ Abandon(w)
  /\ UNCHANGED <<vars, command, phase, plan, result, commands, projectVars>>

(* PutArtifact returns; sync verifies what it has put.                       *)
PutFailed(w) ==
  \/ outcome[w] = "failed"
  \/ command = "sync" /\ ~Verified(lock[task[w]])

FinishPut(w) ==
  /\ Move(w, "put", "free")
  /\ Release(w)
  /\ failed' = (failed \/ PutFailed(w))
  /\ cancelled' = (cancelled \/ PutFailed(w))
  /\ Abandon(w)
  /\ UNCHANGED <<command, phase, plan, result, commands, projectVars>>

(* A copy is not what was hashed only if somebody edited its directory.      *)
StoreStep(w) ==
  /\ Acquire(w) \/ Work(w)
  /\ Artifact(w) \in misread' \ misread =>
       task[w] \in From("local") /\ content[task[w]] # Artifact(w)
  /\ UNCHANGED <<poolVars, commandVars, projectVars>>

PoolWork(w) ==
  \/ Exit(w) \/ Drop(w) \/ Skip(w) \/ Miss(w) \/ Fetch(w) \/ FetchFails(w)
  \/ FinishPut(w)
  \/ StoreStep(w)

-----------------------------------------------------------------------------
(* update *)

End(verdict) ==
  /\ phase' = "ready"
  /\ result' = verdict
  /\ plan' = NoHashes
  /\ failed' = FALSE
  /\ EndPool
  /\ UNCHANGED <<command, commands>>

(* Everything before the resolver's first download.  An unreadable lockfile  *)
(* is an error that the command reports when it has resolved.                *)
StartUpdate ==
  /\ phase = "ready" /\ commands < MaxCommands
  /\ command' = "update" /\ phase' = "capture" /\ result' = "none"
  /\ commands' = commands + 1
  /\ plan' = [p \in Packages |-> IF p \in From("local") THEN content[p] ELSE Resolved[p]]
  /\ failed' = (lockFile = "torn")
  /\ StartPool(Places(Registry))
  /\ UNCHANGED <<vars, projectVars>>

PoolIsDone == ~feeding /\ \A w \in Workers : pool[w] = "exited"

(* packagesNeedingStorePopulation; a git package has no Hash to look for.    *)
Missing == {p \in Packages : SourceOf[p] = "git" \/ ~Verified(plan[p])}

EndCapture ==
  /\ phase = "capture" /\ PoolIsDone
  /\ IF failed
       THEN End("failed")
       ELSE /\ phase' = "populate"
            /\ StartPool(Places(Missing))
            /\ UNCHANGED <<command, plan, failed, result, commands>>
  /\ UNCHANGED <<vars, projectVars>>

EndPopulate_Regardless ==
  /\ phase = "populate" /\ PoolIsDone
  /\ phase' = "open"
  /\ UNCHANGED <<vars, poolVars, command, plan, failed, result, commands, projectVars>>

EndPopulate ==
  /\ phase = "populate" /\ PoolIsDone
  /\ IF failed THEN End("failed")
               ELSE /\ phase' = "open"
                    /\ UNCHANGED <<poolVars, command, plan, failed, result, commands>>
  /\ UNCHANGED <<vars, projectVars>>

(* os.WriteFile truncates the file, then writes it. *)
OpenLock ==
  /\ phase = "open"
  /\ phase' = "fill"
  /\ lockFile' = "torn"
  /\ UNCHANGED <<vars, poolVars, command, plan, failed, result, commands, content, lock>>

FillLock ==
  /\ phase = "fill"
  /\ End("ok")
  /\ lockFile' = "whole"
  /\ lock' = plan
  /\ UNCHANGED <<vars, content>>

LockFails ==
  /\ phase \in {"open", "fill"}
  /\ "write" \in Faults
  /\ End("failed")
  /\ UNCHANGED <<vars, projectVars>>

-----------------------------------------------------------------------------
(* sync: ensureStoreArtifactsForLock, on one goroutine *)

Main == CHOOSE w \in Workers : TRUE

StartSync ==
  /\ phase = "ready" /\ commands < MaxCommands
  /\ lockFile = "whole"
  /\ command' = "sync" /\ phase' = "hydrate" /\ result' = "none"
  /\ commands' = commands + 1
  /\ failed' = FALSE
  /\ StartPool(Places({p \in Packages : ~Verified(lock[p])}))
  /\ UNCHANGED <<vars, plan, projectVars>>

Hydrate ==
  /\ phase = "hydrate" /\ queue # {}
  /\ Move(Main, "free", "fetch")
  /\ HandOut(Main)
  /\ UNCHANGED <<vars, feeding, committed, cancelled, commandVars, projectVars>>

EndSync ==
  /\ phase = "hydrate" /\ queue = {} /\ pool[Main] = "free"
  /\ End(IF failed THEN "failed" ELSE "ok")
  /\ UNCHANGED <<vars, projectVars>>

-----------------------------------------------------------------------------
(* Around the commands *)

Die ==
  /\ phase # "ready"
  /\ Crash
  /\ End("failed")
  /\ UNCHANGED projectVars

(* Somebody edits a directory, at any time. *)
Edit(p) ==
  /\ content[p] # Edited[p]
  /\ content' = [content EXCEPT ![p] = Edited[p]]
  /\ UNCHANGED <<vars, poolVars, commandVars, lockFile, lock>>

(* Somebody damages a tree while no command runs. *)
DamageTree(a) ==
  /\ phase = "ready"
  /\ Damage(a)
  /\ UNCHANGED <<poolVars, commandVars, projectVars>>

(* No command is started any more. *)
Quiet == /\ phase = "ready" /\ commands = MaxCommands
         /\ UNCHANGED allVars

Control == \/ CommitHead \/ StopFeeding \/ EndCapture \/ EndPopulate
           \/ OpenLock \/ FillLock \/ LockFails \/ Hydrate \/ EndSync

PNext ==
  \/ StartUpdate \/ StartSync \/ Control
  \/ \E w \in Workers : Feed(w) \/ PoolWork(w)
  \/ Die \/ \E p \in From("local") : Edit(p)
  \/ \E a \in Artifacts : DamageTree(a)
  \/ Quiet

PSpec == PInit /\ [][PNext]_allVars

(* Every goroutine that can run does; downloads end.  A worker that waits to *)
(* receive is served when the producer is ready to send.                     *)
PFairness ==
  /\ WF_allVars(Control)
  /\ WF_allVars(\E w \in Workers : Feed(w))
  /\ \A w \in Workers : WF_allVars(PoolWork(w))
FairPSpec == PSpec /\ PFairness

-----------------------------------------------------------------------------
(* Properties *)

(* Every variable of the commands has its type (storePopulateJob,            *)
(* storePopulateWorkerResult and Result of internal/project).                *)
PTypeOK ==
  /\ command \in {"none", "update", "sync"} /\ phase \in Phase
  /\ plan \in [Packages -> Artifacts \cup {None}]
  /\ queue \subseteq DOMAIN Order
  /\ feeding \in BOOLEAN /\ committed \in BOOLEAN /\ cancelled \in BOOLEAN
  /\ pool \in [Workers -> Place]
  /\ task \in [Workers -> Packages \cup {None}]
  /\ \A w \in Workers : pool[w] = "put" <=> pc[w] # "idle"
  /\ failed \in BOOLEAN /\ result \in {"none", "ok", "failed"}
  /\ commands \in 0..MaxCommands
  /\ content \in [From("local") -> Artifacts]
  /\ lockFile \in {"missing", "torn", "whole"}
  /\ lock \in [Packages -> Artifacts \cup {None}]

(* "writes deterministic ts-lock.toml only after required store population   *)
(* succeeds" (docs/commands.md:39): whatever is locked is in the store and   *)
(* verifies, from then on, through later commands and crashes, until         *)
(* somebody else changes its tree.  Git packages are left out: update does   *)
(* not store them.  So is a directory that was edited between computeHash    *)
(* and copyTree: the put records what it copied under the hash of what was   *)
(* there before, and update locks that hash without another look.            *)
LockedIsStored ==
  lockFile = "whole" =>
    \A p \in Packages \ From("git") : lock[p] \notin Unsound => Verified(lock[p])

(* Nothing else is published wrong: the copy that is not what its hash says  *)
(* is that of a directory which is no longer what it was (store.go:114-140).  *)
OnlyEditsAreMisread ==
  \A a \in misread : a \in Trees /\ \E p \in From("local") : content[p] = Edited[p] /\ Edited[p] # a

(* The pool of the populating command keeps its types, and the lock on disk is *)
(* backed by the store but for directories that were edited while they were  *)
(* stored.                                                                   *)
LockIsBacked == PTypeOK /\ LockedIsStored /\ OnlyEditsAreMisread

(* Every command returns: neither the producer, nor a worker, nor the loop   *)
(* that collects results is left waiting when a package fails                *)
(* (populateStoreParallel, prepareGroups).                                   *)
CommandsEnd == phase # "ready" ~> phase = "ready"
=============================================================================
