--------------------------- MODULE Targets_proofs ---------------------------
(***************************************************************************)
(* Proofs about the targets of a project: the builds of one, again and again   *)
(* (TargetBuilds), the processes that a run of one starts (RunSessions), what   *)
(* its sources import and who compiles them (ImportBoundaries), and how what it *)
(* built is handed from one job of a workflow to another (Packing).             *)
(***************************************************************************)
EXTENDS RunSessions, TargetBuilds, TLAPS, FiniteSetTheorems, WellFoundedInduction

-----------------------------------------------------------------------------
(* Why a build is fresh.  What a compiler has promised to write is not there     *)
(* before it runs, so that what is there afterwards is its work, of contents the *)
(* sources had meanwhile; where no edit came between fingerprint and compiler it *)
(* is of the contents fingerprinted, and stays beside their record; and nothing  *)
(* torn is ever renamed to the artifact.                                       *)
IsWhole(contents) == contents = Absent \/ contents \in Contents

Ordered ==
  /\ phase \in {"lookup", "replace", "install", "record", "recorded"} => Cached
  /\ phase = "clean" => target.tool = "bundler"
  /\ phase = "lookup" \/ (phase \in {"project", "copy", "succeeded"} /\ made = "nothing") => Cached
  /\ phase = "lookup" => made = "nothing"
  /\ Cached => IsWhole(file["output"]) /\ IsWhole(file["previous"])
  /\ Cached /\ phase \in {"lookup", "compile"} => file["staging"] = Absent
  /\ target.tool = "bundler" /\ phase = "compile" => file["output"] = Absent
  /\ phase = "check" => file[Written] = Absent \/ (file[Written] \in since /\ made # "nothing")
  /\ phase \in {"replace", "install"} => file["staging"] \in since /\ made # "nothing"
  /\ phase \in {"check", "replace", "install"} /\ Cached /\ made = "fingerprinted" => file["staging"] \in {Absent, began}
  /\ phase = "install" /\ file["previous"] # Absent /\ file["record"] # Absent /\ match = "same" =>
       file["previous"] = file["record"]
  /\ phase \in {"record", "recorded"} => made # "nothing" /\ (made = "fingerprinted" => file["output"] = began)
  /\ phase \in {"record", "recorded", "project", "copy", "succeeded"} =>
       /\ file["output"] \in Contents
       /\ file["output"] \in since \/ (Cached /\ made = "nothing" /\ match = "apart")
  /\ phase = "succeeded" => file["projected"] = file["output"]

BuildInvariant == BuildTypeOK /\ RecordedIsBuilt /\ Ordered

(* A build starts without artifacts (cliBuildTargetExecutor). *)
LEMMA HeldByFiles ==
  /\ Absent \in Held /\ Torn \in Held /\ Contents \subseteq Held
  /\ {"output", "staging", "previous", "record", "result", "projected"} \subseteq Files
BY DEF Held, Files

LEMMA InvariantInitially == ASSUME BuildInit PROVE BuildInvariant
<1> USE TargetAssumption DEF BuildInit, Phases, Resting
<1>1. BuildTypeOK
  BY HeldByFiles DEF BuildTypeOK
<1>2. RecordedIsBuilt
  BY DEF RecordedIsBuilt, Files
<1>3. Ordered
  BY DEF Ordered, IsWhole, Files, Cached
<1> QED BY <1>1, <1>2, <1>3 DEF BuildInvariant

LEMMA GotoKeepsTypes ==
  ASSUME BuildTypeOK, NEW next \in Phases, Goto(next), file' \in [Files -> Held]
  PROVE  BuildTypeOK'
BY DEF BuildTypeOK, Goto, Onwards

LEMMA FaultKeepsTypes ==
  ASSUME BuildTypeOK, NEW next \in Phases, Fault(next), file' \in [Files -> Held]
  PROVE  BuildTypeOK'
BY TargetAssumption DEF BuildTypeOK, Fault, history

(* No step of a build, of a compiler or of a fault leaves the types.            *)
LEMMA TypesAreKept ==
  ASSUME BuildTypeOK, [BuildNext]_buildVars
  PROVE  BuildTypeOK'
<1> USE TargetAssumption, HeldByFiles DEF BuildTypeOK, Phases, Resting
<1>1. CASE Edit
  BY <1>1 DEF Edit
<1>2. CASE Delete
  BY <1>2 DEF Delete, Goto, Onwards
<1>3. CASE BeginTsc \/ BeginTscl \/ BeginBundler
  BY <1>3 DEF BeginTsc, BeginTscl, BeginBundler, Refused, Begun, Goto, Onwards
<1>4. CASE BeginScriptC \/ BeginPerry
  BY <1>4 DEF BeginScriptC, BeginPerry, Unstaged, Begun, Goto, Onwards
<1>5. CASE Lookup
  BY <1>5 DEF Lookup, Goto, Onwards
<1>6. CASE Clean
  <2>1. file' \in [Files -> Held] /\ (Goto("compile") \/ Fault("failed"))
    BY <1>6 DEF Clean
  <2> QED BY <2>1, GotoKeepsTypes, FaultKeepsTypes
<1>7. CASE CompileSucceeds \/ CompileSilently
  BY <1>7 DEF CompileSucceeds, CompileSilently, Written, Cached, Goto, Onwards
<1>8. CASE CompileFails
  BY <1>8 DEF CompileFails, AfterFailure, Written, Cached, Goto, Onwards
<1>9. CASE Check \/ CheckTscl \/ BrowserFails
  <2>1. /\ file' \in [Files -> Held]
        /\ \E next \in {"project", "replace", "failed"} : Goto(next) \/ Fault(next)
    BY <1>9 DEF Check, CheckTscl, BrowserFails, AfterFailure
  <2> QED BY <2>1, GotoKeepsTypes, FaultKeepsTypes
<1>10. CASE Replace
  <2>1. file' \in [Files -> Held] /\ (Goto("install") \/ Fault("failed"))
    BY <1>10 DEF Replace
  <2> QED BY <2>1, GotoKeepsTypes, FaultKeepsTypes
<1>11. CASE Install
  <2>1. CASE Fault("failed")
    <3>1. file' \in [Files -> Held]
      BY <1>11 DEF Install
    <3> QED BY <2>1, <3>1, FaultKeepsTypes
  <2>2. CASE ~Fault("failed")
    BY <1>11, <2>2 DEF Install, Onwards
  <2> QED BY <2>1, <2>2
<1>12. CASE Unrecord
  <2>1. file' \in [Files -> Held] /\ (Goto("recorded") \/ Fault("failed"))
    BY <1>12 DEF Unrecord
  <2> QED BY <2>1, GotoKeepsTypes, FaultKeepsTypes
<1>13. CASE Record
  BY <1>13 DEF Record, Onwards
<1>14. CASE Unproject \/ Project
  <2>1. /\ file' \in [Files -> Held]
        /\ Goto("copy") \/ Goto("succeeded") \/ Fault("unprojected")
    BY <1>14 DEF Unproject, Project
  <2> QED BY <2>1, GotoKeepsTypes, FaultKeepsTypes
<1>15. CASE Killed
  BY <1>15 DEF Killed, Fault, history, Written, Cached
<1>16. CASE UNCHANGED buildVars
  BY <1>16 DEF buildVars, history
<1> QED
  BY <1>1, <1>2, <1>3, <1>4, <1>5, <1>6, <1>7, <1>8, <1>9, <1>10, <1>11, <1>12, <1>13, <1>14, <1>15, <1>16 DEF BuildNext

(* Nor does one put an artifact beside a record it was not made for.           *)
LEMMA RecordIsKept ==
  ASSUME BuildInvariant, [BuildNext]_buildVars
  PROVE  RecordedIsBuilt'
<1> USE TargetAssumption, HeldByFiles DEF BuildInvariant, BuildTypeOK, RecordedIsBuilt, Ordered, Absent, Cached
<1> USE DEF Goto, Onwards, Fault, history, Phases, Resting
<1>1. CASE Edit
  BY <1>1 DEF Edit
<1>2. CASE Delete
  BY <1>2 DEF Delete
<1>3. CASE BeginTsc \/ BeginTscl \/ BeginBundler
  BY <1>3 DEF BeginTsc, BeginTscl, BeginBundler, Refused, Begun
<1>4. CASE BeginScriptC \/ BeginPerry
  BY <1>4 DEF BeginScriptC, BeginPerry, Unstaged, Begun
<1>5. CASE Lookup
  BY <1>5 DEF Lookup
<1>6. CASE Clean
  BY <1>6 DEF Clean
<1>7. CASE CompileSucceeds \/ CompileSilently
  BY <1>7 DEF CompileSucceeds, CompileSilently, Written
<1>8. CASE CompileFails
  BY <1>8 DEF CompileFails, AfterFailure, Written
<1>9. CASE Check \/ CheckTscl \/ BrowserFails
  BY <1>9 DEF Check, CheckTscl, BrowserFails, AfterFailure
<1>10. CASE Replace
  BY <1>10 DEF Replace
<1>11. CASE Install
  BY <1>11 DEF Install
<1>12. CASE Unrecord \/ Record
  BY <1>12 DEF Unrecord, Record
<1>13. CASE Unproject \/ Project
  BY <1>13 DEF Unproject, Project
<1>14. CASE Killed
  BY <1>14 DEF Killed, Written
<1>15. CASE UNCHANGED buildVars
  BY <1>15 DEF buildVars
<1> QED
  BY <1>1, <1>2, <1>3, <1>4, <1>5, <1>6, <1>7, <1>8, <1>9, <1>10, <1>11, <1>12, <1>13, <1>14, <1>15 DEF BuildNext

(* Nor does one disturb the order of a build.                                  *)
LEMMA OrderIsKept ==
  ASSUME BuildInvariant, [BuildNext]_buildVars
  PROVE  Ordered'
<1> USE TargetAssumption, HeldByFiles DEF BuildInvariant, BuildTypeOK, RecordedIsBuilt, Ordered, IsWhole, Absent
<1> USE DEF Goto, Onwards, Fault, history, Phases, Resting, Cached, Written
<1>1. CASE Edit
  BY <1>1 DEF Edit
<1>2. CASE Delete
  BY <1>2 DEF Delete
<1>3. CASE BeginTsc \/ BeginTscl \/ BeginBundler
  BY <1>3 DEF BeginTsc, BeginTscl, BeginBundler, Refused, Begun
<1>4. CASE BeginScriptC \/ BeginPerry
  BY <1>4 DEF BeginScriptC, BeginPerry, Unstaged, Begun
<1>5. CASE Lookup
  BY <1>5 DEF Lookup, CacheHit
<1>6. CASE Clean
  BY <1>6 DEF Clean
<1>7. CASE CompileSucceeds \/ CompileSilently
  <2>1. CASE CompileSucceeds /\ Cached
    BY <1>7, <2>1 DEF CompileSucceeds
  <2>2. CASE CompileSucceeds /\ ~Cached
    BY <1>7, <2>2 DEF CompileSucceeds
  <2>3. CASE CompileSilently
    BY <1>7, <2>3 DEF CompileSilently
  <2> QED BY <1>7, <2>1, <2>2, <2>3
<1>8. CASE CompileFails
  BY <1>8 DEF CompileFails, AfterFailure
<1>9. CASE Check \/ CheckTscl \/ BrowserFails
  <2>1. CASE Check /\ Cached
    BY <2>1 DEF Check, AfterFailure
  <2>2. CASE (Check /\ ~Cached) \/ CheckTscl
    <3>1. /\ phase = "check" /\ ~Cached
          /\ UNCHANGED <<target, source, edits, began, faults, since, made, match>>
      BY <2>2 DEF Check, CheckTscl
    <3>2. CASE phase' = "failed"
      BY <3>1, <3>2
    <3>3. CASE phase' = "project" /\ file["output"] # Absent /\ UNCHANGED file
      BY <3>1, <3>3
    <3> QED BY <2>2, <3>1, <3>2, <3>3 DEF Check, CheckTscl
  <2>3. CASE BrowserFails
    BY <2>3 DEF BrowserFails, AfterFailure
  <2> QED BY <1>9, <2>1, <2>2, <2>3
<1>10. CASE Replace
  BY <1>10 DEF Replace
<1>11. CASE Install
  BY <1>11 DEF Install
<1>12. CASE Unrecord \/ Record
  BY <1>12 DEF Unrecord, Record
<1>13. CASE Unproject \/ Project
  BY <1>13 DEF Unproject, Project
<1>14. CASE Killed
  BY <1>14 DEF Killed
<1>15. CASE UNCHANGED buildVars
  BY <1>15 DEF buildVars
<1> QED
  BY <1>1, <1>2, <1>3, <1>4, <1>5, <1>6, <1>7, <1>8, <1>9, <1>10, <1>11, <1>12, <1>13, <1>14, <1>15 DEF BuildNext

LEMMA InvariantIsKept ==
  ASSUME BuildInvariant, [BuildNext]_buildVars
  PROVE  BuildInvariant'
BY TypesAreKept, RecordIsKept, OrderIsKept DEF BuildInvariant

(* For any number of edits and faults: a build that reports success reports an *)
(* artifact that is whole, fresh and the one in node_modules, or one from the    *)
(* cache that is apart from its record.                                       *)
THEOREM BuildsAreFresh == BuildSpec => []SuccessIsFresh
<1>1. BuildInit => BuildInvariant
  BY InvariantInitially
<1>2. BuildInvariant /\ [BuildNext]_buildVars => BuildInvariant'
  BY InvariantIsKept
<1>3. BuildInvariant => SuccessIsFresh
  BY DEF BuildInvariant, Ordered, SuccessIsFresh
<1> QED
  BY <1>1, <1>2, <1>3, PTL DEF BuildSpec
-----------------------------------------------------------------------------
(* Why the target is stopped.  A session is alive only after its launch, and   *)
(* until then the command is at it or at the one before; a SIGKILL is never    *)
(* taken back.                                                             *)
StopInvariant ==
  /\ root \in [Sessions -> {"none", "running"} \cup Ended]
  /\ helpers \in [Sessions -> BOOLEAN]
  /\ sent \in [Sessions -> {"none", "term", "kill"}]
  /\ at \in Sessions
  /\ pc = "launch" => ~Alive(at)
  /\ at = "backend" => ~Alive("target")
  /\ pc \in Killing => sent[at] = "kill"
  /\ TargetIsStopped

(* The processes of the sessions start nothing that is stopped already.      *)
LEMMA ProcessesKeepIt ==
  ASSUME StopInvariant, NEW s \in Sessions, Show(s) \/ Exit(s) \/ HelpersExit(s) \/ Observe(s) \/ Reap(s)
  PROVE  StopInvariant'
<1> USE DEF StopInvariant, TargetIsStopped, Survives, Alive, Sessions, Ended
<1>1. CASE Show(s) \/ Observe(s) \/ Reap(s)
  BY <1>1 DEF Show, Observe, Reap
<1>2. CASE Exit(s)
  BY <1>2 DEF Exit
<1>3. CASE HelpersExit(s)
  BY <1>3 DEF HelpersExit
<1> QED
  BY <1>1, <1>2, <1>3

(* Launching, waiting to be ready and waiting for the exit keep it
   (launchRunTargetInDir, waitReady, Wait).                                 *)
LEMMA LaunchingKeepsIt ==
  ASSUME StopInvariant, Launch \/ BecomesReady \/ ExitsEarly \/ ReadyTimesOut \/ TargetExited \/ Interrupt
  PROVE  StopInvariant'
<1> USE DEF StopInvariant, TargetIsStopped, Survives, Alive, Sessions, Ended, Killing
<1>1. CASE Launch
  BY <1>1 DEF Launch, Return, Proceed, groupVars
<1>2. CASE BecomesReady
  BY <1>2 DEF BecomesReady, Proceed, groupVars
<1>3. CASE ExitsEarly
  BY <1>3 DEF ExitsEarly, Close, Signal, Return
<1>4. CASE ReadyTimesOut
  BY <1>4 DEF ReadyTimesOut, Proceed, groupVars
<1>5. CASE TargetExited
  BY <1>5 DEF TargetExited, Close, Signal, Return
<1>6. CASE Interrupt
  BY <1>6 DEF Interrupt, groupVars
<1> QED
  BY <1>1, <1>2, <1>3, <1>4, <1>5, <1>6

(* So does Stop, of the command or of the goroutine that has the Ctrl+C, which *)
(* runs only while the command does.                                        *)
LEMMA StoppingKeepsIt ==
  ASSUME StopInvariant, NEW here \in {"command", "stopper"}, here = "stopper" => ~Over,
         Begins(here) \/ Escalates(here) \/ StopEnds(here) \/ StopTimesOut(here)
  PROVE  StopInvariant'
<1> USE DEF StopInvariant, TargetIsStopped, Survives, Alive, Sessions, Ended, Killing, Terminating, Over, Phase
<1>1. CASE Begins(here)
  BY <1>1 DEF Begins, Signal, Enter, Proceed
<1>2. CASE Escalates(here)
  BY <1>2 DEF Escalates, Signal, Enter, Proceed, After
<1>3. CASE StopEnds(here)
  BY <1>3 DEF StopEnds, Close, Signal, Return
<1>4. CASE StopTimesOut(here)
  BY <1>4 DEF StopTimesOut, Return, groupVars
<1> QED
  BY <1>1, <1>2, <1>3, <1>4

(* For any requests: no path of the command returns while a process of its     *)
(* target lives that was not sent SIGKILL.                                  *)
THEOREM TargetsAreStopped == SessionSpec => []TargetIsStopped
<1>1. SessionInit => StopInvariant
  BY DEF SessionInit, StopInvariant, TargetIsStopped, Alive, Sessions, Killing
<1>2. StopInvariant /\ [SessionNext]_sessionVars => StopInvariant'
  <2> SUFFICES ASSUME StopInvariant, [SessionNext]_sessionVars PROVE StopInvariant'
    OBVIOUS
  <2>1. CASE UNCHANGED sessionVars
    BY <2>1 DEF sessionVars, groupVars, StopInvariant, TargetIsStopped, Survives, Alive
  <2>2. CASE SessionNext
    BY <2>2, ProcessesKeepIt, LaunchingKeepsIt, StoppingKeepsIt DEF SessionNext, Command, Stopper
  <2> QED
    BY <2>1, <2>2
<1>3. StopInvariant => TargetIsStopped
  BY DEF StopInvariant
<1> QED
  BY <1>1, <1>2, <1>3, PTL DEF SessionSpec

-----------------------------------------------------------------------------
(* Induction, from the order of the naturals.                                 *)
LEMMA Least ==
  ASSUME NEW T \in SUBSET Nat, T # {}
  PROVE  \E x \in T : \A y \in T : x <= y
<1>1. PICK x \in T : \A y \in T : ~(<<y, x>> \in OpToRel(<, Nat))
  BY WFMin, NatLessThanWellFounded, Zenon
<1>2. \A y \in T : ~(y < x)
  BY <1>1 DEF OpToRel
<1> QED BY <1>2

LEMMA SetInduction ==
  ASSUME NEW S \in SUBSET Nat, 0 \in S, \A n \in S : n + 1 \in S
  PROVE  S = Nat
<1> SUFFICES ASSUME S # Nat PROVE FALSE
  OBVIOUS
<1>1. PICK x \in Nat \ S : \A y \in Nat \ S : x <= y
  BY Least
<1>2. x # 0 /\ x - 1 \in Nat
  OBVIOUS
<1>3. x - 1 \in S
  BY <1>1, <1>2
<1> QED BY <1>1, <1>3

(* The files after one more step along the edges, and the waves of a walk.        *)
Along(edges, files) == files \cup {e[2] : e \in {x \in edges : x[1] \in files}}
Closed(edges, files) == \A e \in edges : e[1] \in files => e[2] \in files

Walks(wave, N, start, edges) ==
  wave = [n \in 0 .. N |-> IF n = 0 THEN start ELSE Along(edges, wave[n - 1])]

LEMMA WalkExists ==
  ASSUME NEW N \in Nat, NEW start, NEW edges
  PROVE  \E wave : Walks(wave, N, start, edges)
<1> DEFINE T == {m \in Nat : \E wave : Walks(wave, m, start, edges)}
<1>1. 0 \in T
  <2>1. Walks([n \in 0 .. 0 |-> start], 0, start, edges)
    BY DEF Walks
  <2> QED BY <2>1
<1>2. ASSUME NEW m \in T PROVE m + 1 \in T
  <2>1. PICK g : Walks(g, m, start, edges)
    OBVIOUS
  <2>2. m \in Nat /\ \A n \in 0 .. m : g[n] = IF n = 0 THEN start ELSE Along(edges, g[n - 1])
    BY <2>1 DEF Walks
  <2> DEFINE h == [n \in 0 .. m + 1 |-> IF n <= m THEN g[n] ELSE Along(edges, g[m])]
  <2>3. ASSUME NEW n \in 0 .. m + 1 PROVE h[n] = IF n = 0 THEN start ELSE Along(edges, h[n - 1])
    <3>1. CASE n = 0
      BY <2>2, <3>1
    <3>2. CASE n # 0 /\ n <= m
      BY <2>2, <3>2
    <3>3. CASE n = m + 1
      BY <2>2, <3>3
    <3> QED BY <2>2, <3>1, <3>2, <3>3
  <2>4. DOMAIN h = 0 .. m + 1 /\ h = [n \in DOMAIN h |-> h[n]]
    OBVIOUS
  <2> HIDE DEF h
  <2>5. Walks(h, m + 1, start, edges)
    BY <2>3, <2>4 DEF Walks
  <2> QED BY <2>2, <2>5
<1>3. T = Nat
  <2> HIDE DEF T
  <2>1. T \in SUBSET Nat
    BY DEF T
  <2> QED BY <1>1, <1>2, <2>1, SetInduction
<1> QED BY <1>3

(* As long as a wave is not closed, the next one has a file more.               *)
LEMMA WalkCloses ==
  ASSUME NEW D, IsFiniteSet(D), NEW N \in Nat, Cardinality(D) <= N, NEW start, NEW edges,
         \A e \in edges : e[2] \in D, NEW wave, Walks(wave, N, start, edges)
  PROVE  /\ start \subseteq wave[N] /\ wave[N] \subseteq start \cup D
         /\ Closed(edges, wave[N])
<1>1. \A n \in 0 .. N : wave[n] = IF n = 0 THEN start ELSE Along(edges, wave[n - 1])
  BY DEF Walks
<1> DEFINE Grown(n) ==
             /\ start \subseteq wave[n] /\ wave[n] \subseteq start \cup D
             /\ Closed(edges, wave[n]) \/ Cardinality(wave[n] \ start) >= n
           T == {n \in Nat : n <= N => Grown(n)}
<1>2. \A X : X \subseteq start \cup D =>
        /\ X \ start \subseteq D /\ IsFiniteSet(X \ start)
        /\ Cardinality(X \ start) \in Nat /\ Cardinality(X \ start) <= Cardinality(D)
        /\ Cardinality(X \ start) = Cardinality(D) => X \ start = D
  <2> SUFFICES ASSUME NEW X, X \subseteq start \cup D
               PROVE  /\ X \ start \subseteq D /\ IsFiniteSet(X \ start)
                      /\ Cardinality(X \ start) \in Nat /\ Cardinality(X \ start) <= Cardinality(D)
                      /\ Cardinality(X \ start) = Cardinality(D) => X \ start = D
    OBVIOUS
  <2>1. X \ start \in SUBSET D
    OBVIOUS
  <2> DEFINE Y == X \ start
  <2> HIDE DEF Y
  <2>2. Y \in SUBSET D
    BY <2>1 DEF Y
  <2>3. IsFiniteSet(Y) /\ Cardinality(Y) <= Cardinality(D) /\ (Cardinality(D) = Cardinality(Y) => D = Y)
    BY <2>2, FS_Subset
  <2>4. Cardinality(Y) \in Nat
    BY <2>3, FS_CardinalityType
  <2> QED BY <2>2, <2>3, <2>4 DEF Y
<1>3. 0 \in T
  <2>1. wave[0] = start
    BY <1>1
  <2>2. start \ start = {} /\ Cardinality({}) = 0
    BY FS_EmptySet
  <2>3. Cardinality(wave[0] \ start) >= 0
    BY <2>1, <2>2
  <2> QED BY <2>1, <2>3
<1>4. ASSUME NEW n \in T PROVE n + 1 \in T
  <2> SUFFICES ASSUME n + 1 <= N PROVE Grown(n + 1)
    OBVIOUS
  <2>1. n \in 0 .. N /\ n + 1 \in 0 .. N /\ n \in Nat /\ Grown(n)
    OBVIOUS
  <2>2. wave[n + 1] = Along(edges, wave[n])
    BY <1>1, <2>1
  <2>3. wave[n] \subseteq wave[n + 1] /\ wave[n + 1] \subseteq start \cup D
    BY <2>1, <2>2 DEF Along
  <2>4. CASE Closed(edges, wave[n])
    <3>1. wave[n + 1] = wave[n]
      BY <2>2, <2>4 DEF Along, Closed
    <3> QED BY <2>1, <2>4, <3>1
  <2>5. CASE ~Closed(edges, wave[n])
    <3>1. PICK e \in edges : e[1] \in wave[n] /\ e[2] \notin wave[n]
      BY <2>5 DEF Closed
    <3>2. e[2] \in wave[n + 1]
      BY <2>2, <3>1 DEF Along
    <3> DEFINE X == wave[n] \ start
               Y == wave[n + 1] \ start
    <3>3. X \subseteq Y /\ e[2] \in Y /\ e[2] \notin X
      BY <2>1, <2>3, <3>1, <3>2
    <3>4. IsFiniteSet(X) /\ IsFiniteSet(Y) /\ Cardinality(X) \in Nat /\ Cardinality(Y) \in Nat /\ Cardinality(X) >= n
      BY <1>2, <2>1, <2>3, <2>5
    <3> HIDE DEF X, Y
    <3>5. Cardinality(X) <= Cardinality(Y) /\ Cardinality(X) # Cardinality(Y)
      BY <3>3, <3>4, FS_Subset
    <3>6. Cardinality(Y) >= n + 1
      BY <2>1, <3>4, <3>5
    <3> USE DEF Y
    <3> QED BY <2>1, <2>3, <3>6
  <2> QED BY <2>4, <2>5
<1>5. T = Nat
  <2> HIDE DEF T
  <2>1. T \in SUBSET Nat
    BY DEF T
  <2> QED BY <1>3, <1>4, <2>1, SetInduction
<1>6. Grown(N)
  <2> HIDE DEF Grown
  <2>1. N \in T
    BY <1>5
  <2> QED BY <2>1
<1>7. Closed(edges, wave[N])
  <2> SUFFICES ASSUME Cardinality(wave[N] \ start) >= N PROVE Closed(edges, wave[N])
    BY <1>6
  <2>1. Cardinality(D) \in Nat
    BY FS_CardinalityType
  <2>2. wave[N] \ start = D
    <3>1. wave[N] \subseteq start \cup D
      BY <1>6
    <3>2. /\ Cardinality(wave[N] \ start) \in Nat /\ Cardinality(wave[N] \ start) <= Cardinality(D)
          /\ Cardinality(wave[N] \ start) = Cardinality(D) => wave[N] \ start = D
      BY <1>2, <3>1
    <3> QED BY <2>1, <3>2
  <2> QED BY <1>6, <2>2 DEF Closed
<1> QED BY <1>6, <1>7

(* And the last wave is within every closed set that the first one is within.   *)
LEMMA WalkIsLeast ==
  ASSUME NEW N \in Nat, NEW start, NEW edges, NEW wave, Walks(wave, N, start, edges),
         NEW S, start \subseteq S, Closed(edges, S)
  PROVE  wave[N] \subseteq S
<1> DEFINE T == {n \in Nat : n <= N => wave[n] \subseteq S}
<1>1. \A n \in 0 .. N : wave[n] = IF n = 0 THEN start ELSE Along(edges, wave[n - 1])
  BY DEF Walks
<1>2. 0 \in T
  BY <1>1
<1>3. ASSUME NEW n \in T PROVE n + 1 \in T
  <2> SUFFICES ASSUME n + 1 <= N PROVE wave[n + 1] \subseteq S
    OBVIOUS
  <2>1. n + 1 \in 0 .. N /\ wave[n] \subseteq S
    OBVIOUS
  <2>2. wave[n + 1] = Along(edges, wave[n])
    BY <1>1, <2>1
  <2> QED BY <2>1, <2>2 DEF Along, Closed
<1>4. T = Nat
  <2> HIDE DEF T
  <2>1. T \in SUBSET Nat
    BY DEF T
  <2> QED BY <1>2, <1>3, <2>1, SetInduction
<1> QED BY <1>4

-----------------------------------------------------------------------------
(* What a target may import, and which compiler its sources belong to.         *)
Imports == INSTANCE ImportBoundaries

LEMMA SameCardinality == \A S : Imports!Cardinality(S) = Cardinality(S)
BY DEF Imports!Cardinality, Cardinality

EdgesOf(kinds, imports) == {<<i.at, i.to>> : i \in {j \in imports : j.kind \in kinds}}

LEMMA TargetsAreFinite ==
  ASSUME NEW imports, IsFiniteSet(imports), NEW f, f = [i \in imports |-> i.to]
  PROVE  LET D == {f[i] : i \in imports}
         IN IsFiniteSet(D) /\ Cardinality(D) <= Cardinality(imports)
<1> DEFINE D == {f[i] : i \in imports}
<1>1. f \in Surjection(imports, D)
  BY DEF Surjection
<1> HIDE DEF D
<1>2. IsFiniteSet(D) /\ Cardinality(D) <= Cardinality(imports)
  BY <1>1, FS_Surjection
<1> QED BY <1>2 DEF D

(* The files visited are those that every closed set with the start has.        *)
LEMMA VisitedAreLedTo ==
  ASSUME NEW imports, IsFiniteSet(imports), NEW start, NEW kinds, NEW path
  PROVE  path \in Imports!Visited(start, kinds, imports) <=> Imports!Leads(start, kinds, imports, path)
<1> DEFINE N == Cardinality(imports)
           edges == EdgesOf(kinds, imports)
           Next(files) == files \cup {i.to : i \in {j \in imports : j.kind \in kinds /\ j.at \in files}}
           Is(w) == w = [n \in 0 .. N |-> IF n = 0 THEN {start} ELSE Next(w[n - 1])]
           wave == CHOOSE w : Is(w)
           to == [i \in imports |-> i.to]
           D == {to[i] : i \in imports}
<1>1. N \in Nat
  BY FS_CardinalityType
<1>2. \A files : Next(files) = Along(edges, files)
  <2> SUFFICES ASSUME NEW files PROVE Next(files) = Along(edges, files)
    OBVIOUS
  <2>1. ASSUME NEW i \in imports, i.kind \in kinds, i.at \in files PROVE i.to \in Along(edges, files)
    <3>1. <<i.at, i.to>> \in edges
      BY <2>1 DEF EdgesOf
    <3> QED BY <2>1, <3>1 DEF Along
  <2>2. ASSUME NEW e \in edges, e[1] \in files PROVE e[2] \in Next(files)
    <3>1. PICK i \in imports : i.kind \in kinds /\ e = <<i.at, i.to>>
      BY DEF EdgesOf
    <3> QED BY <2>2, <3>1
  <2> QED BY <2>1, <2>2 DEF Along
<1>3. Imports!Visited(start, kinds, imports) = wave[N]
  BY SameCardinality DEF Imports!Visited
<1>4. Walks(wave, N, {start}, edges)
  <2>1. \A w : Walks(w, N, {start}, edges) <=> Is(w)
    <3> HIDE DEF N, edges, Next
    <3> QED BY <1>2 DEF Walks
  <2>2. \E w : Walks(w, N, {start}, edges)
    BY <1>1, WalkExists
  <2> HIDE DEF Is, N, edges
  <2> QED BY <2>1, <2>2
<1>5. IsFiniteSet(D) /\ Cardinality(D) <= N
  <2> HIDE DEF to
  <2>1. to = [i \in imports |-> i.to]
    BY DEF to
  <2> QED BY <2>1, TargetsAreFinite
<1>6. \A e \in edges : e[2] \in D
  BY DEF EdgesOf
<1> HIDE DEF wave, N, edges, D
<1>7. /\ {start} \subseteq wave[N] /\ wave[N] \subseteq {start} \cup D
      /\ Closed(edges, wave[N])
  BY <1>1, <1>4, <1>5, <1>6, WalkCloses
<1> DEFINE files == {i.at : i \in imports} \cup {i.to : i \in imports} \cup {start, path}
<1>8. ASSUME path \in wave[N] PROVE Imports!Leads(start, kinds, imports, path)
  <2> SUFFICES ASSUME NEW S \in SUBSET files, start \in S,
                      \A i \in imports : i.kind \in kinds /\ i.at \in S => i.to \in S
               PROVE  path \in S
    BY DEF Imports!Leads
  <2>1. Closed(edges, S)
    BY DEF Closed, EdgesOf, edges
  <2>2. wave[N] \subseteq S
    BY <1>1, <1>4, <2>1, WalkIsLeast
  <2> QED BY <1>8, <2>2
<1>9. ASSUME Imports!Leads(start, kinds, imports, path) PROVE path \in wave[N]
  <2>1. wave[N] \in SUBSET files
    BY <1>7 DEF D
  <2>2. ASSUME NEW i \in imports, i.kind \in kinds, i.at \in wave[N] PROVE i.to \in wave[N]
    <3>1. <<i.at, i.to>> \in edges
      BY <2>2 DEF EdgesOf, edges
    <3> QED BY <1>7, <2>2, <3>1 DEF Closed
  <2>3. start \in wave[N]
    BY <1>7
  <2> HIDE DEF files
  <2> QED BY <1>9, <2>1, <2>2, <2>3 DEF Imports!Leads, files
<1> QED BY <1>3, <1>8, <1>9

(* Every finite set of imports, whatever the package, its targets and its rules:*)
(* a check that reports nothing means that each import is declared, and neither *)
(* denied nor left out by a rule (boundary.Check).                            *)
THEOREM CleanChecksAreSound ==
  ASSUME NEW p, NEW imports, IsFiniteSet(imports), NEW uses
  PROVE  Imports!CleanCheckIsSound(p, imports, uses)
<1> SUFFICES ASSUME Imports!Check(p, imports, uses) = {}
             PROVE  Imports!Respects(p, imports, uses)
  BY DEF Imports!CleanCheckIsSound
<1> SUFFICES ASSUME NEW t \in p.targets, NEW u \in uses
             PROVE  /\ u.kind = "runtime" /\ Imports!Leads(t.entry, {"runtime"}, imports, u.at) =>
                         /\ \/ u.package = p.name
                            \/ u.package \in Imports!Referenced(p, t.deps) /\ Imports!KindOf(p, u.package) # "type"
                            \/ u.package \in Imports!Referenced(p, t.peers) /\ Imports!KindOf(p, u.package) = "peer"
                         /\ \A i \in DOMAIN p.rules : Imports!Applies(p.rules[i], {"runtime"}, imports, u.at) =>
                              /\ u.package \notin p.rules[i].deny
                              /\ p.rules[i].allowOnly # Imports!Unspecified => u.package \in p.rules[i].allowOnly
                    /\ u.kind = "type" /\ Imports!Leads(t.entry, {"runtime", "type"}, imports, u.at) =>
                         \A i \in DOMAIN p.rules :
                           Imports!Applies(p.rules[i], {"runtime", "type"}, imports, u.at) => u.package \notin p.rules[i].denyTypes
  BY DEF Imports!Respects
<1>1. Imports!CheckTarget(p, t, imports, uses) = {}
  BY DEF Imports!Check
<1> DEFINE pkg == u.package
           Applying(kinds) == Imports!FromMatches(p.rules, u.at)
                              \cup Imports!TransitiveRuleMatches(p.rules, u.at, kinds, imports)
<1>2. \A kinds : Applying(kinds) = {i \in DOMAIN p.rules : Imports!Applies(p.rules[i], kinds, imports, u.at)}
  BY VisitedAreLedTo DEF Imports!FromMatches, Imports!TransitiveRuleMatches, Imports!Applies
<1> HIDE DEF Applying
<1>3. ASSUME u.kind = "runtime", Imports!Leads(t.entry, {"runtime"}, imports, u.at)
      PROVE  /\ \/ pkg = p.name
                \/ pkg \in Imports!Referenced(p, t.deps) /\ Imports!KindOf(p, pkg) # "type"
                \/ pkg \in Imports!Referenced(p, t.peers) /\ Imports!KindOf(p, pkg) = "peer"
             /\ \A i \in Applying({"runtime"}) :
                  /\ pkg \notin p.rules[i].deny
                  /\ p.rules[i].allowOnly # Imports!Unspecified => pkg \in p.rules[i].allowOnly
  <2>1. u.at \in Imports!Visited(t.entry, {"runtime"}, imports)
    BY <1>3, VisitedAreLedTo
  <2>2. Imports!ValidateExternal(p, t, u.at, pkg, imports) = {}
    BY <1>1, <1>3, <2>1 DEF Imports!CheckTarget
  <2>3. Imports!ScopeViolation(p, t, pkg) = {}
    BY <2>2 DEF Imports!ValidateExternal
  <2>4. \A i \in Applying({"runtime"}) : pkg \notin p.rules[i].deny
    BY <2>2 DEF Imports!ValidateExternal, Imports!ReportIf, Applying
  <2>5. ~Imports!AllowOnlyViolation(p.rules, Applying({"runtime"}), pkg)
    BY <2>2, <2>4 DEF Imports!ValidateExternal, Imports!ReportIf, Applying
  <2>6. /\ Imports!AllowsExternalPackageName(p, t, pkg)
        /\ ~(pkg \in Imports!RuntimeDeps(p, t) /\ Imports!KindOf(p, pkg) = "type")
    BY <2>3 DEF Imports!ScopeViolation, Imports!ReportIf
  <2>7. \/ pkg = p.name
        \/ pkg \in Imports!Referenced(p, t.deps) /\ Imports!KindOf(p, pkg) # "type"
        \/ pkg \in Imports!Referenced(p, t.peers) /\ Imports!KindOf(p, pkg) = "peer"
    BY <2>6 DEF Imports!AllowsExternalPackageName, Imports!RuntimeDeps, Imports!BuildDeps, Imports!PeerDeps
  <2> QED BY <2>4, <2>5, <2>7 DEF Imports!AllowOnlyViolation
<1>4. ASSUME u.kind = "type", Imports!Leads(t.entry, {"runtime", "type"}, imports, u.at)
      PROVE  \A i \in Applying({"runtime", "type"}) : pkg \notin p.rules[i].denyTypes
  <2>1. u.at \in Imports!Visited(t.entry, {"runtime", "type"}, imports)
    BY <1>4, VisitedAreLedTo
  <2>2. Imports!ValidateTypeExternal(p, u.at, pkg, imports) = {}
    BY <1>1, <1>4, <2>1 DEF Imports!CheckTarget
  <2> QED BY <2>2 DEF Imports!ValidateTypeExternal, Imports!ReportIf, Applying
<1> QED BY <1>2, <1>3, <1>4

(* And of a package that does not depend on itself under its own name and has no *)
(* allow lists, nothing else is reported.                                      *)
THEOREM ChecksAreExact ==
  ASSUME NEW p, p.name \notin DOMAIN p.deps, NEW imports, IsFiniteSet(imports), NEW uses
  PROVE  Imports!CheckIsExact(p, imports, uses)
<1> SUFFICES ASSUME \A i \in DOMAIN p.rules : p.rules[i].allow = {}, Imports!Respects(p, imports, uses)
             PROVE  Imports!Check(p, imports, uses) = {}
  BY DEF Imports!CheckIsExact
<1> SUFFICES ASSUME NEW t \in p.targets PROVE Imports!CheckTarget(p, t, imports, uses) = {}
  BY DEF Imports!Check
<1> DEFINE Applying(path, kinds) == Imports!FromMatches(p.rules, path)
                                    \cup Imports!TransitiveRuleMatches(p.rules, path, kinds, imports)
<1>1. \A path, kinds : Applying(path, kinds) = {i \in DOMAIN p.rules : Imports!Applies(p.rules[i], kinds, imports, path)}
  BY VisitedAreLedTo DEF Imports!FromMatches, Imports!TransitiveRuleMatches, Imports!Applies
<1> HIDE DEF Applying
<1>2. ASSUME NEW u \in uses, u.kind = "runtime", u.at \in Imports!Visited(t.entry, {"runtime"}, imports)
      PROVE  Imports!ValidateExternal(p, t, u.at, u.package, imports) = {}
  <2> DEFINE pkg == u.package
  <2>1. Imports!Leads(t.entry, {"runtime"}, imports, u.at)
    BY <1>2, VisitedAreLedTo
  <2>2. /\ \/ pkg = p.name
           \/ pkg \in Imports!Referenced(p, t.deps) /\ Imports!KindOf(p, pkg) # "type"
           \/ pkg \in Imports!Referenced(p, t.peers) /\ Imports!KindOf(p, pkg) = "peer"
        /\ \A i \in Applying(u.at, {"runtime"}) :
             /\ pkg \notin p.rules[i].deny
             /\ p.rules[i].allowOnly # Imports!Unspecified => pkg \in p.rules[i].allowOnly
    BY <1>1, <1>2, <2>1 DEF Imports!Respects
  <2> HIDE DEF pkg
  <2>3. ~(pkg \in Imports!ToolDependencies(p) /\ pkg \notin Imports!BuildDeps(p, t))
    BY <2>2 DEF Imports!ToolDependencies, Imports!BuildDeps, Imports!Referenced
  <2>4. Imports!AllowsExternalPackageName(p, t, pkg)
    BY <2>2 DEF Imports!AllowsExternalPackageName, Imports!RuntimeDeps, Imports!BuildDeps, Imports!PeerDeps
  <2>5. ~(pkg \in Imports!RuntimeDeps(p, t) /\ Imports!KindOf(p, pkg) = "type")
    BY <2>2 DEF Imports!RuntimeDeps, Imports!Referenced
  <2>6. Imports!ScopeViolation(p, t, pkg) = {}
    BY <2>4, <2>5 DEF Imports!ScopeViolation, Imports!ReportIf
  <2>7. /\ Imports!FromMatches(p.rules, u.at) \subseteq DOMAIN p.rules
        /\ Imports!TransitiveRuleMatches(p.rules, u.at, {"runtime"}, imports) \subseteq DOMAIN p.rules
    BY DEF Imports!FromMatches, Imports!TransitiveRuleMatches
  <2>8. /\ ~Imports!AllowViolation(p.rules, Imports!FromMatches(p.rules, u.at), pkg)
        /\ ~Imports!AllowViolation(p.rules, Imports!TransitiveRuleMatches(p.rules, u.at, {"runtime"}, imports), pkg)
    BY <2>7 DEF Imports!AllowViolation
  <2>9. ~\E i \in Applying(u.at, {"runtime"}) : pkg \in p.rules[i].deny
    BY <2>2
  <2>10. ~Imports!AllowOnlyViolation(p.rules, Applying(u.at, {"runtime"}), pkg)
    BY <2>2 DEF Imports!AllowOnlyViolation
  <2>11. Imports!ValidateExternal(p, t, u.at, pkg, imports) = {}
    BY <2>3, <2>6, <2>8, <2>9, <2>10 DEF Imports!ValidateExternal, Imports!ReportIf, Applying
  <2> QED BY <2>11 DEF pkg
<1>3. ASSUME NEW u \in uses, u.kind = "type", u.at \in Imports!Visited(t.entry, {"runtime", "type"}, imports)
      PROVE  Imports!ValidateTypeExternal(p, u.at, u.package, imports) = {}
  <2>1. Imports!Leads(t.entry, {"runtime", "type"}, imports, u.at)
    BY <1>3, VisitedAreLedTo
  <2>2. \A i \in Applying(u.at, {"runtime", "type"}) : u.package \notin p.rules[i].denyTypes
    BY <1>1, <1>3, <2>1 DEF Imports!Respects
  <2> QED BY <2>2 DEF Imports!ValidateTypeExternal, Imports!ReportIf, Applying
<1> QED BY <1>2, <1>3 DEF Imports!CheckTarget

-----------------------------------------------------------------------------
(* The targets of a package: those of the native compilers declare their inputs *)
(* (validateTargetCompiler, ir.go 923-941).                                     *)
Compilers == {"tsc", "tscl", "scriptc", "perry"}

BuildTargetsOf(targets, Paths) ==
  /\ targets \in Seq([compiler : Compilers, inputs : (SUBSET Paths) \cup {Imports!NoInputs}])
  /\ \A i \in DOMAIN targets : targets[i].compiler \in {"scriptc", "perry"} => Imports!Declares(targets, i)

(* The owner of a file has the compiler of the target i.                        *)
Owned(targets, sources, i, f) ==
  LET owner == Imports!Owner(targets, sources, f)
  IN owner \in DOMAIN targets /\ targets[owner].compiler = targets[i].compiler

LEMMA OwnersAre ==
  ASSUME NEW Paths, NEW targets, BuildTargetsOf(targets, Paths), NEW sources, NEW f,
         Imports!Owner(targets, sources, f) # Imports!NoOwner
  PROVE  LET owner == Imports!Owner(targets, sources, f)
             declared == {i \in DOMAIN targets : Imports!Declares(targets, i) /\ f \in targets[i].inputs}
         IN /\ owner \in DOMAIN targets
            /\ declared # {} => owner \in declared
            /\ declared = {} => f \in sources /\ owner \in Imports!DefaultOwners(targets)
<1> DEFINE owner == Imports!Owner(targets, sources, f)
           declared == {i \in DOMAIN targets : Imports!Declares(targets, i) /\ f \in targets[i].inputs}
           default == IF Imports!Cardinality(Imports!DefaultOwners(targets)) = 1 /\ f \in sources
                      THEN Imports!DefaultOwners(targets) ELSE {}
           owners == IF declared # {} THEN declared ELSE default
<1>1. owner = IF owners = {} THEN Imports!NoOwner ELSE CHOOSE i \in owners : TRUE
  BY DEF Imports!Owner
<1> HIDE DEF owner, declared
<1>2. owners # {} /\ owner \in owners
  BY <1>1 DEF owner
<1>3. declared \subseteq DOMAIN targets /\ Imports!DefaultOwners(targets) \subseteq DOMAIN targets
  BY DEF declared, Imports!DefaultOwners
<1>4. CASE declared # {}
  BY <1>2, <1>3, <1>4 DEF owner, declared
<1>5. CASE declared = {}
  BY <1>2, <1>3, <1>5 DEF owner, declared
<1> QED BY <1>4, <1>5

(* A compiler is given only files that a target of its own kind owns.           *)
LEMMA GivenAreOwned ==
  ASSUME NEW Paths, NEW targets, BuildTargetsOf(targets, Paths), NEW sources, NEW i \in DOMAIN targets,
         ~Imports!Overlapping(targets), targets[i].compiler # "tscl", NEW f \in Imports!Given(targets, sources, i),
         f \in sources => Imports!Owner(targets, sources, f) # Imports!NoOwner
  PROVE  Owned(targets, sources, i, f)
<1> DEFINE owner == Imports!Owner(targets, sources, f)
           declared == {j \in DOMAIN targets : Imports!Declares(targets, j) /\ f \in targets[j].inputs}
<1>0. /\ targets[i].compiler \in {"tsc", "scriptc", "perry"}
      /\ \A j \in DOMAIN targets : j \in Nat \ {0} /\ targets[j].compiler \in Compilers
      /\ Imports!NoOwner = 0
  <2> DEFINE Row == [compiler : Compilers, inputs : (SUBSET Paths) \cup {Imports!NoInputs}]
  <2>1. targets \in Seq(Row)
    BY DEF BuildTargetsOf
  <2>2. \A r \in Row : r.compiler \in Compilers
    OBVIOUS
  <2> HIDE DEF Row
  <2>3. \A j \in DOMAIN targets : j \in Nat \ {0} /\ targets[j] \in Row
    BY <2>1
  <2> QED BY <2>2, <2>3 DEF Compilers, Imports!NoOwner
<1>1. CASE Imports!Declares(targets, i)
  <2>1. f \in targets[i].inputs
    BY <1>0, <1>1 DEF Imports!Given, Imports!CollectTSCInputs
  <2>2. declared = {i}
    BY <1>1, <2>1 DEF Imports!Overlapping
  <2>3. owner # Imports!NoOwner
    <3>1. owner = CHOOSE j \in {i} : TRUE
      BY <2>2 DEF Imports!Owner
    <3> HIDE DEF owner
    <3> QED BY <1>0, <3>1
  <2>4. owner \in declared
    BY <2>2, <2>3, OwnersAre
  <2> QED BY <2>2, <2>4 DEF Owned
<1>2. CASE ~Imports!Declares(targets, i)
  <2>1. targets[i].compiler = "tsc"
    BY <1>0, <1>2 DEF BuildTargetsOf
  <2>2. f \in sources /\ f \notin Imports!OthersInputs(targets, i)
    BY <1>2, <2>1 DEF Imports!Given, Imports!CollectTSCInputs
  <2>3. /\ owner \in DOMAIN targets
        /\ declared # {} => owner \in declared
        /\ declared = {} => owner \in Imports!DefaultOwners(targets)
    BY <2>2, OwnersAre
  <2> HIDE DEF owner
  <2>4. ASSUME owner \in declared PROVE targets[owner].compiler = "tsc"
    <3>1. owner # i
      BY <1>2, <2>4
    <3> QED BY <2>2, <2>4, <3>1 DEF Imports!OthersInputs
  <2>5. targets[owner].compiler = "tsc"
    BY <2>3, <2>4 DEF Imports!DefaultOwners
  <2> QED BY <2>1, <2>3, <2>5 DEF Owned, owner
<1> QED BY <1>1, <1>2

(* Compiled is a walk too, and stays with the owner's compiler.                  *)
LEMMA CompiledIs ==
  ASSUME NEW targets, NEW sources, NEW imports, IsFiniteSet(imports), NEW i, NEW S,
         Imports!Given(targets, sources, i) \subseteq S, Closed(imports, S)
  PROVE  /\ Imports!Given(targets, sources, i) \subseteq Imports!Compiled(targets, sources, imports, i)
         /\ Imports!Compiled(targets, sources, imports, i) \subseteq S
<1> DEFINE N == Cardinality(imports)
           given == Imports!Given(targets, sources, i)
           Next(files) == files \cup {e[2] : e \in {e \in imports : e[1] \in files}}
           Is(w) == w = [n \in 0 .. N |-> IF n = 0 THEN given ELSE Next(w[n - 1])]
           wave == CHOOSE w : Is(w)
           to == [e \in imports |-> e[2]]
           D == {to[e] : e \in imports}
<1>1. N \in Nat
  BY FS_CardinalityType
<1>2. \A files : Next(files) = Along(imports, files)
  BY DEF Along
<1>3. Imports!Compiled(targets, sources, imports, i) = wave[N]
  BY SameCardinality DEF Imports!Compiled
<1>4. Walks(wave, N, given, imports)
  <2>1. \A w : Walks(w, N, given, imports) <=> Is(w)
    <3> HIDE DEF N, given, Next
    <3> QED BY <1>2 DEF Walks
  <2>2. \E w : Walks(w, N, given, imports)
    BY <1>1, WalkExists
  <2> HIDE DEF Is, N, given
  <2> QED BY <2>1, <2>2
<1>5. IsFiniteSet(D) /\ Cardinality(D) <= N
  <2>1. to \in Surjection(imports, D)
    BY DEF Surjection
  <2> HIDE DEF D, to
  <2> QED BY <2>1, FS_Surjection
<1>6. \A e \in imports : e[2] \in D
  OBVIOUS
<1> HIDE DEF wave, N, given, D
<1>7. given \subseteq wave[N]
  BY <1>1, <1>4, <1>5, <1>6, WalkCloses
<1>8. wave[N] \subseteq S
  BY <1>1, <1>4, WalkIsLeast DEF given
<1> QED BY <1>3, <1>7, <1>8 DEF given

(* Every package whose targets the manifest accepts, its sources and imports:   *)
(* what validateCompilerSourceOwnership lets pass has no file that two compilers *)
(* compile, and each source is compiled for the target that owns it.            *)
THEOREM SourcesHaveOneCompiler ==
  ASSUME NEW Paths, NEW targets, BuildTargetsOf(targets, Paths), NEW sources, NEW imports, IsFiniteSet(imports)
  PROVE  Imports!OneCompilerPerSource(targets, sources, imports)
<1> SUFFICES ASSUME Imports!ValidateCompilerSourceOwnership(targets, sources, imports),
                    \A i \in DOMAIN targets : targets[i].compiler # "tscl",
                    \A f \in sources \cup UNION {{e[1], e[2]} : e \in imports} :
                      Imports!Owner(targets, sources, f) # Imports!NoOwner
             PROVE  /\ \A i, j \in DOMAIN targets :
                         targets[i].compiler # targets[j].compiler =>
                           Imports!Compiled(targets, sources, imports, i)
                             \cap Imports!Compiled(targets, sources, imports, j) = {}
                    /\ \A f \in sources : \E i \in DOMAIN targets :
                         /\ Imports!Owner(targets, sources, f) = i
                         /\ f \in Imports!Compiled(targets, sources, imports, i)
  BY DEF Imports!OneCompilerPerSource
<1>1. ~Imports!Overlapping(targets) /\ Imports!CrossImports(targets, sources, imports) = {}
  BY DEF Imports!ValidateCompilerSourceOwnership
<1> DEFINE OwnedBy(i) == {f \in Imports!Given(targets, sources, i) \cup UNION {{e[1], e[2]} : e \in imports} :
                            Owned(targets, sources, i, f)}
<1>2. ASSUME NEW i \in DOMAIN targets PROVE Imports!Given(targets, sources, i) \subseteq OwnedBy(i)
  BY <1>1, GivenAreOwned
<1>3. ASSUME NEW i \in DOMAIN targets PROVE Closed(imports, OwnedBy(i))
  <2> SUFFICES ASSUME NEW e \in imports, Owned(targets, sources, i, e[1]) PROVE e[2] \in OwnedBy(i)
    BY DEF Closed
  <2>1. Imports!Owner(targets, sources, e[2]) # Imports!NoOwner /\ Imports!Owner(targets, sources, e[1]) # Imports!NoOwner
    OBVIOUS
  <2>2. Imports!MayImport(targets, Imports!Owner(targets, sources, e[1]), Imports!Owner(targets, sources, e[2]))
    BY <1>1, <2>1 DEF Imports!CrossImports
  <2>3. Imports!Owner(targets, sources, e[2]) \in DOMAIN targets
    BY <2>1, OwnersAre
  <2>4. Owned(targets, sources, i, e[2])
    BY <2>2, <2>3 DEF Owned, Imports!MayImport
  <2> QED BY <2>4
<1>4. ASSUME NEW i \in DOMAIN targets
      PROVE  /\ Imports!Given(targets, sources, i) \subseteq Imports!Compiled(targets, sources, imports, i)
             /\ Imports!Compiled(targets, sources, imports, i) \subseteq OwnedBy(i)
  <2> HIDE DEF OwnedBy
  <2> QED BY <1>2, <1>3, CompiledIs
<1>5. ASSUME NEW i \in DOMAIN targets, NEW j \in DOMAIN targets, targets[i].compiler # targets[j].compiler
      PROVE  Imports!Compiled(targets, sources, imports, i) \cap Imports!Compiled(targets, sources, imports, j) = {}
  <2>1. OwnedBy(i) \cap OwnedBy(j) = {}
    BY <1>5 DEF Owned
  <2> HIDE DEF OwnedBy
  <2> QED BY <1>4, <2>1
<1>6. ASSUME NEW f \in sources
      PROVE  \E i \in DOMAIN targets :
               Imports!Owner(targets, sources, f) = i /\ f \in Imports!Compiled(targets, sources, imports, i)
  <2> DEFINE owner == Imports!Owner(targets, sources, f)
             declared == {i \in DOMAIN targets : Imports!Declares(targets, i) /\ f \in targets[i].inputs}
  <2>1. /\ owner \in DOMAIN targets
        /\ declared # {} => owner \in declared
        /\ declared = {} => owner \in Imports!DefaultOwners(targets)
    BY OwnersAre
  <2> HIDE DEF owner
  <2>2. CASE declared # {}
    <3>1. Imports!Declares(targets, owner) /\ f \in targets[owner].inputs /\ targets[owner].compiler # "tscl"
      BY <2>1, <2>2
    <3> QED BY <1>4, <2>1, <3>1 DEF Imports!Given, Imports!CollectTSCInputs, owner
  <2>3. CASE declared = {}
    <3>1. ~Imports!Declares(targets, owner) /\ targets[owner].compiler = "tsc"
      BY <2>1, <2>3 DEF Imports!DefaultOwners
    <3>2. f \notin Imports!OthersInputs(targets, owner)
      BY <2>3 DEF Imports!OthersInputs
    <3> QED BY <1>4, <2>1, <3>1, <3>2 DEF Imports!Given, Imports!CollectTSCInputs, owner
  <2> QED BY <2>2, <2>3
<1> QED BY <1>5, <1>6

-----------------------------------------------------------------------------
(* A transfer: each artifact is hashed, copied and hashed again, in order.       *)

Packed == INSTANCE Packing

(* What is known of a transfer after its first m artifacts.                      *)
Places(run, m) == {Packed!Place(run.target, run.sources[i], i) : i \in 1 .. m}
Changed(run) == {Packed!Place(run.target, run.sources[i], i) :
                   i \in {k \in DOMAIN run.sources : run.sources[k].copied # run.sources[k].bytes}}
Whole(area) == {place \in DOMAIN area : area[place] = place[2]}

IsTransfer(done) == DOMAIN done = {"area", "artifacts", "failed"} /\ done = [x \in DOMAIN done |-> done[x]]

Transported(run, done, m) ==
  /\ IsTransfer(done)
  /\ DOMAIN done.area \subseteq DOMAIN run.area \cup Places(run, m)
  /\ Whole(run.area) \ Changed(run) \subseteq Whole(done.area)
  /\ ~done.failed =>
       /\ done.artifacts = [i \in 1 .. m |-> Packed!Place(run.target, run.sources[i], i)]
       /\ \A i \in 1 .. m : /\ done.artifacts[i] \in DOMAIN done.area
                            /\ done.area[done.artifacts[i]] = run.sources[i].bytes

LEMMA PlacesDiffer ==
  ASSUME NEW run, NEW i, NEW j, i # j
  PROVE  Packed!Place(run.target, run.sources[i], i) # Packed!Place(run.target, run.sources[j], j)
BY DEF Packed!Place

LEMMA CopyIs ==
  ASSUME NEW run, NEW i \in DOMAIN run.sources, NEW done, IsTransfer(done)
  PROVE  LET place == Packed!Place(run.target, run.sources[i], i)
             copied == Packed!CopyArtifact(run, done, i)
         IN /\ IsTransfer(copied) /\ copied.artifacts = done.artifacts
            /\ DOMAIN done.area \subseteq DOMAIN copied.area
            /\ DOMAIN copied.area \subseteq DOMAIN done.area \cup {place}
            /\ \A p \in DOMAIN done.area : p # place => copied.area[p] = done.area[p]
            /\ place \in DOMAIN done.area => copied.area[place] \in {done.area[place], run.sources[i].copied}
            /\ ~copied.failed => place \in DOMAIN copied.area
<1> DEFINE place == Packed!Place(run.target, run.sources[i], i)
           copied == Packed!CopyArtifact(run, done, i)
           put == Packed!Put(done.area, place, run.sources[i].copied)
<1>1. /\ DOMAIN put = DOMAIN done.area \cup {place} /\ put[place] = run.sources[i].copied
      /\ \A p \in DOMAIN done.area : p # place => put[p] = done.area[p]
  BY DEF Packed!Put
<1> HIDE DEF put
<1>2. \/ copied = [done EXCEPT !.failed = TRUE]
      \/ copied = [done EXCEPT !.failed = place \notin DOMAIN done.area]
      \/ copied = [done EXCEPT !.area = put]
  BY DEF Packed!CopyArtifact, put
<1> HIDE DEF place, copied
<1>3. CASE copied = [done EXCEPT !.failed = TRUE]
  BY <1>3 DEF IsTransfer, place, copied
<1>4. CASE copied = [done EXCEPT !.failed = place \notin DOMAIN done.area]
  <2>1. /\ IsTransfer(copied) /\ copied.artifacts = done.artifacts /\ copied.area = done.area
        /\ copied.failed = (place \notin DOMAIN done.area)
    BY <1>4 DEF IsTransfer
  <2> QED BY <2>1 DEF place, copied
<1>5. CASE copied = [done EXCEPT !.area = put]
  <2>1. IsTransfer(copied) /\ copied.artifacts = done.artifacts /\ copied.area = put
    BY <1>5 DEF IsTransfer
  <2> QED BY <1>1, <2>1 DEF place, copied
<1> QED BY <1>2, <1>3, <1>4, <1>5

LEMMA ArtifactsAreTransported ==
  ASSUME NEW run, NEW m \in Nat, m + 1 \in DOMAIN run.sources, NEW done, Transported(run, done, m), ~done.failed
  PROVE  Transported(run, Packed!TransportArtifact(run, done, m + 1), m + 1)
<1> DEFINE i == m + 1
           place == Packed!Place(run.target, run.sources[i], i)
           copied == Packed!CopyArtifact(run, done, i)
           ends == Packed!TransportArtifact(run, done, i)
<1>1. /\ IsTransfer(done)
      /\ DOMAIN done.area \subseteq DOMAIN run.area \cup Places(run, m)
      /\ Whole(run.area) \ Changed(run) \subseteq Whole(done.area)
      /\ done.artifacts = [k \in 1 .. m |-> Packed!Place(run.target, run.sources[k], k)]
      /\ \A k \in 1 .. m : /\ done.artifacts[k] \in DOMAIN done.area
                           /\ done.area[done.artifacts[k]] = run.sources[k].bytes
  BY DEF Transported
<1>2. /\ IsTransfer(copied) /\ copied.artifacts = done.artifacts
      /\ DOMAIN done.area \subseteq DOMAIN copied.area
      /\ DOMAIN copied.area \subseteq DOMAIN done.area \cup {place}
      /\ \A p \in DOMAIN done.area : p # place => copied.area[p] = done.area[p]
      /\ place \in DOMAIN done.area => copied.area[place] \in {done.area[place], run.sources[i].copied}
      /\ ~copied.failed => place \in DOMAIN copied.area
  BY <1>1, CopyIs
<1>3. /\ place[2] = run.sources[i].bytes
      /\ run.sources[i].copied = run.sources[i].bytes \/ place \in Changed(run)
      /\ Places(run, i) = Places(run, m) \cup {place}
  <2>1. place[2] = run.sources[i].bytes
    BY DEF Packed!Place
  <2>2. run.sources[i].copied = run.sources[i].bytes \/ place \in Changed(run)
    BY DEF Changed
  <2>3. 1 .. i = 1 .. m \cup {i}
    OBVIOUS
  <2>4. Places(run, i) = Places(run, m) \cup {place}
    BY <2>3 DEF Places
  <2> QED BY <2>1, <2>2, <2>4
<1>4. /\ DOMAIN copied.area \subseteq DOMAIN run.area \cup Places(run, i)
      /\ Whole(run.area) \ Changed(run) \subseteq Whole(copied.area)
  BY <1>1, <1>2, <1>3 DEF Whole
<1>5. \/ ends = [done EXCEPT !.failed = TRUE]
      \/ ends = [copied EXCEPT !.failed = TRUE]
      \/ ends = copied /\ copied.failed
      \/ /\ ~copied.failed /\ copied.area[place] = run.sources[i].bytes
         /\ ends = [copied EXCEPT !.artifacts = Append(@, place)]
  BY DEF Packed!TransportArtifact
<1> HIDE DEF place, copied, ends
<1>6. CASE ends = [done EXCEPT !.failed = TRUE]
  <2>1. IsTransfer(ends) /\ ends.area = done.area /\ ends.failed
    BY <1>1, <1>6 DEF IsTransfer
  <2> QED BY <1>1, <1>3, <2>1 DEF Transported, ends
<1>7. CASE ends = [copied EXCEPT !.failed = TRUE] \/ (ends = copied /\ copied.failed)
  <2>1. IsTransfer(ends) /\ ends.area = copied.area /\ ends.failed
    BY <1>2, <1>7 DEF IsTransfer
  <2> QED BY <1>4, <2>1 DEF Transported, ends
<1>8. CASE /\ ~copied.failed /\ copied.area[place] = run.sources[i].bytes
           /\ ends = [copied EXCEPT !.artifacts = Append(@, place)]
  <2>1. IsTransfer(ends) /\ ends.area = copied.area /\ ends.artifacts = Append(done.artifacts, place)
    BY <1>2, <1>8 DEF IsTransfer
  <2>2. ends.artifacts = [k \in 1 .. i |-> Packed!Place(run.target, run.sources[k], k)]
    <3> DEFINE q == [k \in 1 .. m |-> Packed!Place(run.target, run.sources[k], k)]
               V == {q[k] : k \in 1 .. m} \cup {place}
    <3>1. \A k \in 1 .. m : q[k] = Packed!Place(run.target, run.sources[k], k)
      OBVIOUS
    <3>2. q \in [1 .. m -> V]
      OBVIOUS
    <3> HIDE DEF q, V
    <3>3. q \in Seq(V) /\ Len(q) = m /\ place \in V
      BY <3>2 DEF V
    <3>4. /\ Append(q, place) \in Seq(V) /\ Len(Append(q, place)) = m + 1
          /\ \A k \in 1 .. m + 1 : Append(q, place)[k] = IF k <= m THEN q[k] ELSE place
      BY <3>3
    <3>5. Append(q, place) = [k \in 1 .. i |-> Append(q, place)[k]]
      <4> DEFINE longer == Append(q, place)
      <4>1. longer \in Seq(V) /\ Len(longer) = i
        BY <3>4
      <4> HIDE DEF longer
      <4>2. longer = [k \in 1 .. i |-> longer[k]]
        BY <4>1
      <4> QED BY <4>2 DEF longer
    <3>6. \A k \in 1 .. i : Append(q, place)[k] = Packed!Place(run.target, run.sources[k], k)
      BY <3>1, <3>4 DEF place
    <3>7. done.artifacts = q
      BY <1>1 DEF q
    <3> QED BY <2>1, <3>5, <3>6, <3>7
  <2>3. ASSUME NEW k \in 1 .. i
        PROVE  ends.artifacts[k] \in DOMAIN ends.area /\ ends.area[ends.artifacts[k]] = run.sources[k].bytes
    <3>1. CASE k = i
      BY <1>2, <1>8, <2>1, <2>2, <3>1 DEF place
    <3>2. CASE k # i
      <4>1. k \in 1 .. m
        BY <3>2
      <4>2. ends.artifacts[k] = Packed!Place(run.target, run.sources[k], k)
        BY <2>2
      <4>3. done.artifacts[k] = Packed!Place(run.target, run.sources[k], k)
        BY <1>1, <4>1
      <4>4. Packed!Place(run.target, run.sources[k], k) # place
        BY <3>2, PlacesDiffer DEF place
      <4> QED BY <1>1, <1>2, <2>1, <4>1, <4>2, <4>3, <4>4
    <3> QED BY <3>1, <3>2
  <2> QED BY <1>4, <2>1, <2>2, <2>3 DEF Transported, ends
<1> QED BY <1>5, <1>6, <1>7, <1>8

(* Any number of artifacts, whichever of their steps fails: a transfer that        *)
(* succeeds hands on each one with the bytes of its identity, in their order, and  *)
(* what was sound in the area stays so, but for the places of sources that change   *)
(* while they are copied (runArtifactTransfer).                               *)
THEOREM TransfersAreWhole ==
  ASSUME NEW run, NEW Sources, run.sources \in Seq(Sources)
  PROVE  Packed!TransferIsWhole(run)
<1> DEFINE N == Len(run.sources)
           start == [area |-> run.area, artifacts |-> <<>>, failed |-> N \notin 1 .. Packed!MaxTransferArtifacts]
           Step(done, i) == IF done.failed THEN done ELSE Packed!TransportArtifact(run, done, i)
           Is(u) == u = [i \in 0 .. N |-> IF i = 0 THEN start ELSE Step(u[i - 1], i)]
           after == CHOOSE u : Is(u)
<1>0. N \in Nat /\ DOMAIN run.sources = 1 .. N
  OBVIOUS
<1>1. Packed!RunArtifactTransfer(run) = after[N]
  BY DEF Packed!RunArtifactTransfer
<1> HIDE DEF N, start, Step
<1>2. \E u : Is(u)
  <2> DEFINE T == {m \in Nat : \E u : u = [i \in 0 .. m |-> IF i = 0 THEN start ELSE Step(u[i - 1], i)]}
  <2>1. 0 \in T
    <3> DEFINE u == [i \in 0 .. 0 |-> start]
    <3>1. u = [i \in 0 .. 0 |-> IF i = 0 THEN start ELSE Step(u[i - 1], i)]
      OBVIOUS
    <3> QED BY <3>1
  <2>2. ASSUME NEW m \in T PROVE m + 1 \in T
    <3>1. PICK u : u = [i \in 0 .. m |-> IF i = 0 THEN start ELSE Step(u[i - 1], i)]
      OBVIOUS
    <3>2. m \in Nat /\ \A i \in 0 .. m : u[i] = IF i = 0 THEN start ELSE Step(u[i - 1], i)
      BY <3>1
    <3> DEFINE w == [i \in 0 .. m + 1 |-> IF i <= m THEN u[i] ELSE Step(u[m], m + 1)]
    <3>3. ASSUME NEW i \in 0 .. m + 1 PROVE w[i] = IF i = 0 THEN start ELSE Step(w[i - 1], i)
      <4>1. CASE i = 0
        BY <3>2, <4>1
      <4>2. CASE i # 0 /\ i <= m
        BY <3>2, <4>2
      <4>3. CASE i = m + 1
        BY <3>2, <4>3
      <4> QED BY <3>2, <4>1, <4>2, <4>3
    <3>4. w = [i \in 0 .. m + 1 |-> w[i]]
      OBVIOUS
    <3> HIDE DEF w
    <3>5. w = [i \in 0 .. m + 1 |-> IF i = 0 THEN start ELSE Step(w[i - 1], i)]
      BY <3>3, <3>4
    <3> QED BY <3>2, <3>5
  <2>3. T = Nat
    <3> HIDE DEF T
    <3>1. T \in SUBSET Nat
      BY DEF T
    <3> QED BY <2>1, <2>2, <3>1, SetInduction
  <2> QED BY <1>0, <2>3
<1>3. Is(after)
  BY <1>2
<1> HIDE DEF after
<1>4. \A i \in 0 .. N : after[i] = IF i = 0 THEN start ELSE Step(after[i - 1], i)
  BY <1>3
<1> HIDE DEF Is
<1>5. Transported(run, start, 0)
  <2>1. IsTransfer(start) /\ start.area = run.area /\ start.artifacts = <<>>
    BY DEF start, IsTransfer
  <2>2. 1 .. 0 = {}
    OBVIOUS
  <2> QED BY <2>1, <2>2 DEF Transported
<1>6. Transported(run, after[N], N)
  <2> DEFINE T == {m \in Nat : m <= N => Transported(run, after[m], m)}
  <2>1. 0 \in T
    BY <1>0, <1>4, <1>5
  <2>2. ASSUME NEW m \in T PROVE m + 1 \in T
    <3> SUFFICES ASSUME m + 1 <= N PROVE Transported(run, after[m + 1], m + 1)
      OBVIOUS
    <3>1. /\ m \in Nat /\ m + 1 \in DOMAIN run.sources
          /\ Transported(run, after[m], m) /\ after[m + 1] = Step(after[m], m + 1)
      <4>1. m + 1 \in 0 .. N /\ m + 1 # 0 /\ m + 1 - 1 = m /\ m + 1 \in 1 .. N
        BY <1>0
      <4> QED BY <1>0, <1>4, <4>1
    <3> HIDE DEF T
    <3>2. CASE after[m].failed
      <4>1. after[m + 1] = after[m]
        BY <3>1, <3>2 DEF Step
      <4>2. Places(run, m) \subseteq Places(run, m + 1)
        BY <3>1 DEF Places
      <4> QED BY <3>1, <3>2, <4>1, <4>2 DEF Transported
    <3>3. CASE ~after[m].failed
      <4>1. after[m + 1] = Packed!TransportArtifact(run, after[m], m + 1)
        BY <3>1, <3>3 DEF Step
      <4> QED BY <3>1, <3>3, <4>1, ArtifactsAreTransported
    <3> QED BY <3>2, <3>3
  <2>3. T = Nat
    <3>1. T \in SUBSET Nat
      OBVIOUS
    <3> HIDE DEF T
    <3> QED BY <2>1, <2>2, <3>1, SetInduction
  <2> QED BY <1>0, <2>3
<1> DEFINE result == Packed!RunArtifactTransfer(run)
<1>7. Transported(run, result, N)
  BY <1>1, <1>6
<1> HIDE DEF result
<1>8. ~result.failed =>
        /\ result.artifacts = [i \in DOMAIN run.sources |-> Packed!Place(run.target, run.sources[i], i)]
        /\ \A i \in DOMAIN run.sources : result.area[result.artifacts[i]] = run.sources[i].bytes
  BY <1>0, <1>7 DEF Transported
<1>9. /\ Whole(run.area) \ Changed(run) \subseteq Whole(result.area)
      /\ DOMAIN result.area \subseteq DOMAIN run.area \cup Places(run, N)
  BY <1>7 DEF Transported
<1> QED BY <1>0, <1>8, <1>9 DEF Packed!TransferIsWhole, Whole, Changed, Places, result
-----------------------------------------------------------------------------
(* An init from a template: the plan, and its application file by file.          *)

(* What is computed from left to right, of a set that each step stays in.        *)
Steps(D, N) == [1 .. N -> [D -> D]]
Iterations(D, N, start, step) ==
  {u \in [0 .. N -> D] : u[0] = start /\ \A i \in 1 .. N : u[i] = step[i][u[i - 1]]}

LEMMA Iterates ==
  ASSUME NEW D, NEW N \in Nat, NEW start \in D, NEW step \in Steps(D, N)
  PROVE  \E u : u \in Iterations(D, N, start, step)
<1> DEFINE Is(u, m) == \A i \in 0 .. m : u[i] = IF i = 0 THEN start ELSE step[i][u[i - 1]]
           T == {m \in Nat : m <= N => \E u \in [0 .. m -> D] : Is(u, m)}
<1>0. step \in [1 .. N -> [D -> D]]
  BY DEF Steps
<1>1. 0 \in T
  <2> DEFINE u == [i \in 0 .. 0 |-> start]
  <2>1. u \in [0 .. 0 -> D] /\ Is(u, 0)
    OBVIOUS
  <2> QED BY <2>1
<1>2. ASSUME NEW m \in T PROVE m + 1 \in T
  <2> SUFFICES ASSUME m + 1 <= N PROVE \E u \in [0 .. m + 1 -> D] : Is(u, m + 1)
    OBVIOUS
  <2>1. m \in Nat /\ \E u \in [0 .. m -> D] : Is(u, m)
    OBVIOUS
  <2>2. PICK u \in [0 .. m -> D] : Is(u, m)
    BY <2>1
  <2> HIDE DEF T
  <2> DEFINE w == [i \in 0 .. m + 1 |-> IF i <= m THEN u[i] ELSE step[m + 1][u[m]]]
  <2>3. u[m] \in D /\ m + 1 \in 1 .. N
    BY <2>1
  <2>4. step[m + 1][u[m]] \in D
    BY <1>0, <2>3
  <2>5. w \in [0 .. m + 1 -> D]
    BY <2>1, <2>4
  <2>6. /\ \A i \in 0 .. m : w[i] = u[i]
        /\ w[m + 1] = step[m + 1][u[m]]
        /\ \A i \in 0 .. m : u[i] = IF i = 0 THEN start ELSE step[i][u[i - 1]]
    BY <2>1, <2>2
  <2> HIDE DEF w
  <2>7. ASSUME NEW i \in 0 .. m + 1 PROVE w[i] = IF i = 0 THEN start ELSE step[i][w[i - 1]]
    <3>1. CASE i = m + 1
      <4>1. m + 1 - 1 = m /\ m \in 0 .. m /\ m + 1 # 0
        BY <2>1
      <4> QED BY <2>6, <3>1, <4>1
    <3>2. CASE i # m + 1
      <4>1. i \in 0 .. m /\ (i # 0 => i - 1 \in 0 .. m)
        BY <2>1, <3>2
      <4> QED BY <2>6, <4>1
    <3> QED BY <3>1, <3>2
  <2> QED BY <2>5, <2>7
<1>3. T = Nat
  <2>1. T \in SUBSET Nat
    OBVIOUS
  <2> HIDE DEF T
  <2> QED BY <1>1, <1>2, <2>1, SetInduction
<1>4. N \in T
  <2> HIDE DEF T
  <2> QED BY <1>3
<1>5. PICK u \in [0 .. N -> D] : Is(u, N)
  BY <1>4
<1>6. u[0] = start /\ \A i \in 1 .. N : u[i] = step[i][u[i - 1]]
  BY <1>5
<1> QED BY <1>6 DEF Iterations

(* FlattenSeq appends one sequence after the other.                              *)
Flattened(seqs, flatten) ==
  \A i \in 1 .. Len(seqs) : flatten[i] = IF i = 1 THEN seqs[i] ELSE flatten[i - 1] \o seqs[i]

LEMMA FlattenAppends ==
  ASSUME NEW F, NEW seqs \in Seq(Seq(F)), Len(seqs) # 0
  PROVE  \E flatten : Packed!FlattenSeq(seqs) = flatten[Len(seqs)] /\ Flattened(seqs, flatten)
<1> DEFINE N == Len(seqs)
           Is(f) == f = [i \in 1 .. N |-> IF i = 1 THEN seqs[i] ELSE f[i - 1] \o seqs[i]]
           flatten == CHOOSE f : Is(f)
<1>0. N \in Nat /\ \A i \in 1 .. N : seqs[i] \in Seq(F)
  OBVIOUS
<1>1. Packed!FlattenSeq(seqs) = IF N = 0 THEN seqs ELSE flatten[N]
  BY DEF Packed!FlattenSeq
<1>2. N # 0
  OBVIOUS
<1>3. \A i \in 1 .. N : flatten[i] = IF i = 1 THEN seqs[i] ELSE flatten[i - 1] \o seqs[i]
  <2> HIDE DEF N
  <2> DEFINE D == Seq(F)
             step == [i \in 1 .. N |-> [q \in D |-> q \o seqs[i]]]
             none == << >>
  <2>1. /\ none \in D /\ \A q \in D : none \o q = q
        /\ \A p, q \in D : p \o q \in D /\ \A i \in 1 .. N : seqs[i] \in D
    BY <1>0
  <2> HIDE DEF D, none
  <2>2. step \in Steps(D, N)
    BY <2>1 DEF Steps
  <2>3. \A i \in 1 .. N, q \in D : step[i][q] = q \o seqs[i]
    OBVIOUS
  <2> HIDE DEF step
  <2>4. \E u : u \in Iterations(D, N, none, step)
    <3>1. N \in Nat /\ none \in D
      BY <1>0, <2>1
    <3> QED BY <2>2, <3>1, Iterates
  <2>5. PICK u \in [0 .. N -> D] : u[0] = none /\ \A i \in 1 .. N : u[i] = step[i][u[i - 1]]
    BY <2>4 DEF Iterations
  <2>6. ASSUME NEW i \in 1 .. N PROVE u[i] = u[i - 1] \o seqs[i]
    <3>1. i - 1 \in 0 .. N
      BY <1>0
    <3> QED BY <2>3, <2>5, <3>1
  <2>7. u[0] = none
    BY <2>5
  <2> DEFINE f == [i \in 1 .. N |-> u[i]]
  <2>8. ASSUME NEW i \in 1 .. N PROVE f[i] = IF i = 1 THEN seqs[i] ELSE f[i - 1] \o seqs[i]
    <3>1. CASE i = 1
      <4>1. u[1] = none \o seqs[1]
        <5>1. 1 \in 1 .. N /\ 1 - 1 = 0
          BY <3>1
        <5>2. u[1] = u[1 - 1] \o seqs[1]
          BY <2>6, <5>1
        <5> QED BY <2>7, <5>1, <5>2
      <4> QED BY <2>1, <3>1, <4>1
    <3>2. CASE i # 1
      <4>1. i - 1 \in 1 .. N
        BY <1>0, <3>2
      <4> QED BY <2>6, <3>2, <4>1
    <3> QED BY <3>1, <3>2
  <2>9. f = [i \in 1 .. N |-> f[i]]
    OBVIOUS
  <2> HIDE DEF f
  <2>10. Is(f)
    BY <2>8, <2>9
  <2>11. Is(flatten)
    BY <2>10
  <2> HIDE DEF flatten
  <2> QED BY <2>11
<1> HIDE DEF flatten
<1> QED BY <1>1, <1>2, <1>3 DEF Flattened

(* It is a sequence of what is in the sequences, and has all that is in them.      *)
LEMMA FlattenHolds ==
  ASSUME NEW F, NEW seqs \in Seq(Seq(F))
  PROVE  /\ Packed!FlattenSeq(seqs) \in Seq(F)
         /\ \A i \in DOMAIN seqs : \A k \in DOMAIN seqs[i] : seqs[i][k] \in Packed!ToSet(Packed!FlattenSeq(seqs))
<1> DEFINE N == Len(seqs)
           D == Seq(F)
           Has(q, m) == \A i \in 1 .. m : \A k \in DOMAIN seqs[i] : seqs[i][k] \in Packed!ToSet(q)
<1>0. N \in Nat /\ DOMAIN seqs = 1 .. N /\ \A i \in 1 .. N : seqs[i] \in D
  OBVIOUS
<1>1. CASE N = 0
  <2>1. seqs = << >> /\ Packed!FlattenSeq(seqs) = seqs
    BY <1>1 DEF Packed!FlattenSeq
  <2>2. << >> \in Seq(F) /\ DOMAIN seqs = {}
    BY <1>0, <1>1
  <2> QED BY <2>1, <2>2
<1>2. CASE N # 0
  <2>1. PICK flatten : Packed!FlattenSeq(seqs) = flatten[N] /\ Flattened(seqs, flatten)
    BY <1>2, FlattenAppends
  <2>2. \A i \in 1 .. N : flatten[i] = IF i = 1 THEN seqs[i] ELSE flatten[i - 1] \o seqs[i]
    BY <2>1 DEF Flattened
  <2>3. ASSUME NEW p \in D, NEW q \in D
        PROVE  /\ p \o q \in D
               /\ Packed!ToSet(p) \subseteq Packed!ToSet(p \o q)
               /\ \A k \in DOMAIN q : q[k] \in Packed!ToSet(p \o q)
    <3>1. /\ p \o q \in D /\ Len(p) \in Nat /\ Len(q) \in Nat /\ DOMAIN p = 1 .. Len(p) /\ DOMAIN q = 1 .. Len(q)
          /\ DOMAIN (p \o q) = 1 .. Len(p) + Len(q)
          /\ \A k \in 1 .. Len(p) : (p \o q)[k] = p[k]
          /\ \A k \in 1 .. Len(q) : (p \o q)[Len(p) + k] = q[k]
      OBVIOUS
    <3>2. \A k \in 1 .. Len(p) : k \in DOMAIN (p \o q)
      BY <3>1
    <3>3. \A k \in 1 .. Len(q) : Len(p) + k \in DOMAIN (p \o q)
      BY <3>1
    <3> HIDE DEF D
    <3> QED BY <3>1, <3>2, <3>3 DEF Packed!ToSet
  <2> DEFINE T == {m \in Nat : m + 1 <= N => flatten[m + 1] \in D /\ Has(flatten[m + 1], m + 1)}
  <2>4. 0 \in T
    <3>1. 1 \in 1 .. N /\ 0 + 1 = 1
      BY <1>0, <1>2
    <3>2. flatten[1] = seqs[1] /\ seqs[1] \in D
      BY <1>0, <2>2, <3>1
    <3>3. \A i \in 1 .. 1 : i = 1
      OBVIOUS
    <3>4. Has(flatten[1], 1)
      BY <3>2, <3>3 DEF Packed!ToSet
    <3> HIDE DEF Has, D, N
    <3> QED BY <3>1, <3>2, <3>4
  <2>5. ASSUME NEW m \in T PROVE m + 1 \in T
    <3> SUFFICES ASSUME m + 1 + 1 <= N PROVE flatten[m + 1 + 1] \in D /\ Has(flatten[m + 1 + 1], m + 1 + 1)
      OBVIOUS
    <3>1. /\ m \in Nat /\ m + 1 + 1 \in 1 .. N /\ m + 1 + 1 # 1 /\ m + 1 + 1 - 1 = m + 1
          /\ flatten[m + 1] \in D /\ Has(flatten[m + 1], m + 1)
      BY <1>0
    <3> HIDE DEF T
    <3>2. flatten[m + 1 + 1] = flatten[m + 1] \o seqs[m + 1 + 1]
      <4>1. PICK k \in 1 .. N : k = m + 1 + 1 /\ k # 1 /\ k - 1 = m + 1
        BY <3>1
      <4>2. flatten[k] = flatten[k - 1] \o seqs[k]
        BY <2>2, <4>1
      <4> QED BY <4>1, <4>2
    <3>3. /\ flatten[m + 1 + 1] \in D
          /\ Packed!ToSet(flatten[m + 1]) \subseteq Packed!ToSet(flatten[m + 1 + 1])
          /\ \A k \in DOMAIN seqs[m + 1 + 1] : seqs[m + 1 + 1][k] \in Packed!ToSet(flatten[m + 1 + 1])
      <4> HIDE DEF D, Has, N
      <4> QED BY <1>0, <2>3, <3>1, <3>2
    <3>4. \A i \in 1 .. m + 1 + 1 : i \in 1 .. m + 1 \/ i = m + 1 + 1
      BY <3>1
    <3> QED BY <3>1, <3>3, <3>4
  <2>6. T = Nat
    <3>1. T \in SUBSET Nat
      OBVIOUS
    <3> HIDE DEF T
    <3> QED BY <2>4, <2>5, <3>1, SetInduction
  <2>7. N - 1 \in Nat /\ N - 1 + 1 = N /\ N <= N
    BY <1>0, <1>2
  <2>8. flatten[N] \in D /\ Has(flatten[N], N)
    <3> HIDE DEF Has, D, N
    <3> QED BY <2>6, <2>7
  <2> QED BY <1>0, <2>1, <2>8
<1> QED BY <1>1, <1>2

(* The plan of a template lists destinations of the template's own.              *)
IsTemplate(template, Sources) ==
  /\ template.files \in Seq(Sources)
  /\ [i \in DOMAIN template.concepts |-> template.concepts[i].files] \in Seq(Seq(Sources))

Given(template, values, to) ==
  \/ Packed!ManifestPlan(template, values) # << >> /\ to = Packed!ManifestFile
  \/ \E f \in Packed!ToSet(template.files) \cup Packed!ToSet(Packed!ConceptFiles(template)) : to = f.to

LEMMA PlannedIsGiven ==
  ASSUME NEW Sources, NEW template, IsTemplate(template, Sources), NEW values
  PROVE  LET plan == Packed!Planned(template, values)
         IN /\ Len(plan) \in Nat /\ DOMAIN plan = 1 .. Len(plan)
            /\ \A i \in DOMAIN plan : Given(template, values, plan[i].to)
<1> DEFINE first == Packed!ManifestPlan(template, values)
           own == Packed!FilePlan(template, values)
           files == Packed!ConceptPlan(template, values)
           S == {first[i] : i \in DOMAIN first} \cup {own[i] : i \in DOMAIN own} \cup {files[i] : i \in DOMAIN files}
           D == Seq(S)
           N == Len(files)
           Is(p) == p = [i \in 0 .. N |-> IF i = 0 THEN first \o own
                                          ELSE IF files[i] \in Packed!ToSet(p[i - 1]) THEN p[i - 1]
                                          ELSE Append(p[i - 1], files[i])]
           plan == CHOOSE p : Is(p)
<1>1. Packed!Planned(template, values) = plan[N]
  BY DEF Packed!Planned
<1>2. first = << >> \/ first = <<[to |-> Packed!ManifestFile, content |-> Packed!Generated(template, values)]>>
  BY DEF Packed!ManifestPlan
<1>3. Packed!ConceptFiles(template) \in Seq(Sources)
  BY FlattenHolds DEF IsTemplate, Packed!ConceptFiles
<1>4. /\ Len(own) \in Nat /\ DOMAIN own = 1 .. Len(own) /\ own = [i \in DOMAIN own |-> own[i]]
      /\ \A i \in DOMAIN own : i \in DOMAIN template.files /\ own[i].to = template.files[i].to
  <2> DEFINE f == template.files
             Content(i) == IF f[i].to = Packed!ManifestFile /\ template.generates THEN Packed!Generated(template, values)
                           ELSE Packed!Render(f[i].from, values)
  <2>1. Len(f) \in Nat /\ DOMAIN f = 1 .. Len(f)
    BY DEF IsTemplate
  <2>2. own = [i \in DOMAIN f |-> [to |-> f[i].to, content |-> Content(i)]]
    BY DEF Packed!FilePlan
  <2> HIDE DEF own, f, Content
  <2>3. Len(own) = Len(f) /\ DOMAIN own = DOMAIN f /\ \A i \in DOMAIN f : own[i].to = f[i].to
    BY <2>1, <2>2
  <2>4. own = [i \in DOMAIN own |-> own[i]]
    BY <2>2
  <2> QED BY <2>1, <2>3, <2>4 DEF f
<1>5. /\ N \in Nat /\ DOMAIN files = 1 .. N
      /\ \A i \in DOMAIN files : /\ i \in DOMAIN Packed!ConceptFiles(template)
                                 /\ files[i].to = Packed!ConceptFiles(template)[i].to
  <2> DEFINE c == Packed!ConceptFiles(template)
  <2>1. Len(c) \in Nat /\ DOMAIN c = 1 .. Len(c)
    BY <1>3
  <2>2. files = [i \in DOMAIN c |-> [to |-> c[i].to, content |-> Packed!Render(c[i].from, values)]]
    BY DEF Packed!ConceptPlan
  <2> HIDE DEF c, files
  <2>3. Len(files) = Len(c) /\ DOMAIN files = DOMAIN c /\ \A i \in DOMAIN c : files[i].to = c[i].to
    BY <2>1, <2>2
  <2> QED BY <2>1, <2>3 DEF c
<1>6. \A x \in S : Given(template, values, x.to)
  <2>1. ASSUME NEW i \in DOMAIN first PROVE Given(template, values, first[i].to)
    BY <1>2, <2>1 DEF Given
  <2>2. ASSUME NEW i \in DOMAIN own PROVE Given(template, values, own[i].to)
    <3>1. template.files[i] \in Packed!ToSet(template.files)
      BY <1>4 DEF Packed!ToSet
    <3> QED BY <1>4, <3>1 DEF Given
  <2>3. ASSUME NEW i \in DOMAIN files PROVE Given(template, values, files[i].to)
    <3>1. Packed!ConceptFiles(template)[i] \in Packed!ToSet(Packed!ConceptFiles(template))
      BY <1>5 DEF Packed!ToSet
    <3> QED BY <1>5, <3>1 DEF Given
  <2> HIDE DEF first, own, files
  <2> QED BY <2>1, <2>2, <2>3
<1>7. first \o own \in D
  <2>1. first \in Seq(S) /\ own \in Seq(S)
    <3>1. first = << >> => first \in Seq(S)
      OBVIOUS
    <3>2. ASSUME NEW x, first = <<x>> PROVE first \in Seq(S)
      <4>1. 1 \in DOMAIN first /\ first[1] = x
        BY <3>2
      <4>2. x \in S
        BY <4>1
      <4> HIDE DEF S, first
      <4> QED BY <3>2, <4>2
    <3>3. \A i \in DOMAIN own : own[i] \in S
      OBVIOUS
    <3> HIDE DEF first, own, files, S
    <3> QED BY <1>2, <1>4, <3>1, <3>2, <3>3
  <2> HIDE DEF first, own, files, S
  <2> QED BY <2>1
<1>8. \A q \in D, i \in 1 .. N : q \in D /\ Append(q, files[i]) \in D
  <2>1. \A i \in 1 .. N : files[i] \in S
    BY <1>5
  <2> HIDE DEF S, files
  <2> QED BY <2>1
<1>9. \A q \in D : Len(q) \in Nat /\ DOMAIN q = 1 .. Len(q) /\ \A i \in DOMAIN q : q[i] \in S
  <2> HIDE DEF S
  <2> QED OBVIOUS
<1> DEFINE start == first \o own
           step == [i \in 1 .. N |-> [q \in D |-> IF files[i] \in Packed!ToSet(q) THEN q ELSE Append(q, files[i])]]
<1> HIDE DEF first, own, files, S, D, N
<1>10. PICK u \in [0 .. N -> D] : u[0] = start /\ \A i \in 1 .. N : u[i] = step[i][u[i - 1]]
  <2>1. step \in Steps(D, N)
    BY <1>8 DEF Steps
  <2>2. N \in Nat /\ start \in D
    BY <1>5, <1>7
  <2> HIDE DEF start, step
  <2>3. \E u : u \in Iterations(D, N, start, step)
    BY <2>1, <2>2, Iterates
  <2> QED BY <2>3 DEF Iterations
<1>11. Is(u)
  <2>1. u = [i \in 0 .. N |-> u[i]]
    OBVIOUS
  <2>2. ASSUME NEW i \in 0 .. N, i # 0
        PROVE  u[i] = IF files[i] \in Packed!ToSet(u[i - 1]) THEN u[i - 1] ELSE Append(u[i - 1], files[i])
    <3>1. i \in 1 .. N /\ i - 1 \in 0 .. N
      BY <1>5, <2>2
    <3> QED BY <1>10, <3>1
  <2>3. u[0] = first \o own
    BY <1>10
  <2> HIDE DEF step
  <2> QED BY <2>1, <2>2, <2>3
<1>12. Is(plan)
  BY <1>11
<1> HIDE DEF plan
<1>13. /\ plan[0] = first \o own
       /\ \A i \in 1 .. N : plan[i] = IF files[i] \in Packed!ToSet(plan[i - 1]) THEN plan[i - 1]
                                      ELSE Append(plan[i - 1], files[i])
  <2>1. \A i \in 0 .. N : plan[i] = IF i = 0 THEN first \o own
                                    ELSE IF files[i] \in Packed!ToSet(plan[i - 1]) THEN plan[i - 1]
                                    ELSE Append(plan[i - 1], files[i])
    BY <1>12
  <2> HIDE DEF Is
  <2>2. 0 \in 0 .. N /\ \A i \in 1 .. N : i \in 0 .. N /\ i # 0
    BY <1>5
  <2> QED BY <2>1, <2>2
<1> HIDE DEF Is
<1> DEFINE T == {m \in Nat : m <= N => plan[m] \in D}
<1>14. T = Nat
  <2>1. 0 \in T
    BY <1>7, <1>13
  <2>2. ASSUME NEW m \in T PROVE m + 1 \in T
    <3> SUFFICES ASSUME m + 1 <= N PROVE plan[m + 1] \in D
      OBVIOUS
    <3>1. plan[m] \in D
      BY <1>5
    <3>2. PICK k \in 1 .. N : k = m + 1 /\ k - 1 = m
      BY <1>5
    <3> HIDE DEF T
    <3>3. plan[k] = plan[m] \/ plan[k] = Append(plan[m], files[k])
      BY <1>13, <3>2
    <3> QED BY <1>8, <3>1, <3>2, <3>3
  <2>3. T \in SUBSET Nat
    OBVIOUS
  <2> HIDE DEF T
  <2> QED BY <2>1, <2>2, <2>3, SetInduction
<1>15. plan[N] \in D
  <2>1. N \in T
    <3> HIDE DEF T
    <3> QED BY <1>5, <1>14
  <2> QED BY <1>5, <2>1
<1> QED BY <1>1, <1>6, <1>9, <1>15

(* What is known of a tree once the first m files of a plan are written.         *)
Applied(plan, tree, done, m) ==
  /\ DOMAIN done = {"tree", "failed"} /\ done = [x \in DOMAIN done |-> done[x]]
  /\ DOMAIN done.tree = {"files", "dirs"} /\ done.tree = [x \in DOMAIN done.tree |-> done.tree[x]]
  /\ DOMAIN tree.files \subseteq DOMAIN done.tree.files
  /\ \A path \in DOMAIN done.tree.files :
       \/ path \in DOMAIN tree.files /\ done.tree.files[path] = tree.files[path]
       \/ \E k \in 1 .. m : plan[k].to.names = path
  /\ ~done.failed =>
       \A i \in 1 .. m : \E k \in 1 .. m :
         /\ plan[k].to.names = plan[i].to.names /\ plan[i].to.names \in DOMAIN done.tree.files
         /\ done.tree.files[plan[i].to.names] = plan[k].content

LEMMA WritesAreApplied ==
  ASSUME NEW plan, NEW tree, NEW fails, NEW m \in Nat, NEW done, Applied(plan, tree, done, m)
  PROVE  Applied(plan, tree, Packed!WriteFile(plan, fails, done, m + 1), m + 1)
<1> DEFINE n == m + 1
           path == plan[n].to.names
           written == IF n = fails THEN [text |-> "half", values |-> << >>] ELSE plan[n].content
           put == Packed!Put(done.tree.files, path, written)
           ends == Packed!WriteFile(plan, fails, done, n)
<1>1. /\ DOMAIN done = {"tree", "failed"} /\ done = [x \in DOMAIN done |-> done[x]]
      /\ DOMAIN done.tree = {"files", "dirs"} /\ done.tree = [x \in DOMAIN done.tree |-> done.tree[x]]
      /\ DOMAIN tree.files \subseteq DOMAIN done.tree.files
      /\ \A p \in DOMAIN done.tree.files :
           \/ p \in DOMAIN tree.files /\ done.tree.files[p] = tree.files[p]
           \/ \E k \in 1 .. m : plan[k].to.names = p
      /\ ~done.failed =>
           \A i \in 1 .. m : \E k \in 1 .. m :
             /\ plan[k].to.names = plan[i].to.names /\ plan[i].to.names \in DOMAIN done.tree.files
             /\ done.tree.files[plan[i].to.names] = plan[k].content
  BY DEF Applied
<1>2. /\ DOMAIN put = DOMAIN done.tree.files \cup {path} /\ put[path] = written
      /\ \A p \in DOMAIN done.tree.files : p # path => put[p] = done.tree.files[p]
  BY DEF Packed!Put
<1>3. n \in 1 .. n /\ \A k \in 1 .. m : k \in 1 .. n
  OBVIOUS
<1>4. \A k \in 1 .. n : k \in 1 .. m \/ k = n
  OBVIOUS
<1>5. \/ ends = [done EXCEPT !.failed = TRUE]
      \/ /\ ~done.failed /\ ends = [tree |-> [done.tree EXCEPT !.files = put], failed |-> n = fails]
  BY DEF Packed!WriteFile
<1>6. n # fails => written = plan[n].content
  OBVIOUS
<1> HIDE DEF n, path, written, put, ends
<1>7. CASE ends = [done EXCEPT !.failed = TRUE]
  <2>1. /\ DOMAIN ends = {"tree", "failed"} /\ ends = [x \in DOMAIN ends |-> ends[x]]
        /\ ends.tree = done.tree /\ ends.failed
    BY <1>1, <1>7
  <2> QED BY <1>1, <1>3, <2>1 DEF Applied, ends, n
<1>8. CASE ~done.failed /\ ends = [tree |-> [done.tree EXCEPT !.files = put], failed |-> n = fails]
  <2>1. /\ DOMAIN ends = {"tree", "failed"} /\ ends = [x \in DOMAIN ends |-> ends[x]]
        /\ DOMAIN ends.tree = {"files", "dirs"} /\ ends.tree = [x \in DOMAIN ends.tree |-> ends.tree[x]]
        /\ ends.tree.files = put /\ ends.failed = (n = fails)
    BY <1>1, <1>8
  <2>2. ASSUME NEW p \in DOMAIN put
        PROVE  \/ p \in DOMAIN tree.files /\ put[p] = tree.files[p]
               \/ \E k \in 1 .. n : plan[k].to.names = p
    <3>1. CASE p = path
      BY <1>3, <3>1 DEF path
    <3>2. CASE p # path
      BY <1>1, <1>2, <1>3, <3>2
    <3> QED BY <3>1, <3>2
  <2>3. ASSUME n # fails, NEW i \in 1 .. n
        PROVE  \E k \in 1 .. n :
                 /\ plan[k].to.names = plan[i].to.names /\ plan[i].to.names \in DOMAIN put
                 /\ put[plan[i].to.names] = plan[k].content
    <3>1. CASE plan[i].to.names = path
      BY <1>2, <1>3, <1>6, <2>3, <3>1 DEF path
    <3>2. CASE plan[i].to.names # path
      <4>1. i \in 1 .. m
        BY <1>4, <3>2 DEF path
      <4>2. PICK k \in 1 .. m : /\ plan[k].to.names = plan[i].to.names /\ plan[i].to.names \in DOMAIN done.tree.files
                                /\ done.tree.files[plan[i].to.names] = plan[k].content
        BY <1>1, <1>8, <4>1
      <4> QED BY <1>2, <1>3, <3>2, <4>2
    <3> QED BY <3>1, <3>2
  <2>4. Applied(plan, tree, ends, n)
    <3>1. DOMAIN tree.files \subseteq DOMAIN ends.tree.files
      BY <1>1, <1>2, <2>1
    <3>2. \A p \in DOMAIN ends.tree.files :
            \/ p \in DOMAIN tree.files /\ ends.tree.files[p] = tree.files[p]
            \/ \E k \in 1 .. n : plan[k].to.names = p
      BY <2>1, <2>2
    <3>3. ~ends.failed =>
            \A i \in 1 .. n : \E k \in 1 .. n :
              /\ plan[k].to.names = plan[i].to.names /\ plan[i].to.names \in DOMAIN ends.tree.files
              /\ ends.tree.files[plan[i].to.names] = plan[k].content
      BY <2>1, <2>3
    <3> QED BY <2>1, <3>1, <3>2, <3>3 DEF Applied
  <2> QED BY <2>4 DEF ends, n
<1> QED BY <1>5, <1>7, <1>8

LEMMA PlansAreApplied ==
  ASSUME NEW plan, Len(plan) \in Nat, NEW tree, NEW fails,
         DOMAIN tree = {"files", "dirs"}, tree = [x \in DOMAIN tree |-> tree[x]]
  PROVE  Applied(plan, tree, Packed!ApplyPlan(plan, tree, fails), Len(plan))
<1> DEFINE N == Len(plan)
           start == [tree |-> tree, failed |-> FALSE]
           Step(done, i) == Packed!WriteFile(plan, fails, done, i)
           Is(u, m) == u = [i \in 0 .. m |-> IF i = 0 THEN start ELSE Step(u[i - 1], i)]
           after == CHOOSE u : Is(u, N)
<1>1. Packed!ApplyPlan(plan, tree, fails) = after[N]
  BY DEF Packed!ApplyPlan
<1> HIDE DEF N, Step
<1>2. N \in Nat
  BY DEF N
<1>3. Applied(plan, tree, start, 0)
  BY DEF Applied
<1> HIDE DEF start
<1>4. \E u : Is(u, N)
  <2> DEFINE T == {m \in Nat : \E u : Is(u, m)}
  <2>1. 0 \in T
    <3> DEFINE u == [i \in 0 .. 0 |-> start]
    <3>1. u = [i \in 0 .. 0 |-> IF i = 0 THEN start ELSE Step(u[i - 1], i)]
      OBVIOUS
    <3> QED BY <3>1
  <2>2. ASSUME NEW m \in T PROVE m + 1 \in T
    <3>1. PICK u : u = [i \in 0 .. m |-> IF i = 0 THEN start ELSE Step(u[i - 1], i)]
      OBVIOUS
    <3>2. m \in Nat /\ \A i \in 0 .. m : u[i] = IF i = 0 THEN start ELSE Step(u[i - 1], i)
      BY <3>1
    <3> DEFINE w == [i \in 0 .. m + 1 |-> IF i <= m THEN u[i] ELSE Step(u[m], m + 1)]
    <3>3. ASSUME NEW i \in 0 .. m + 1 PROVE w[i] = IF i = 0 THEN start ELSE Step(w[i - 1], i)
      <4>1. CASE i = 0
        BY <3>2, <4>1
      <4>2. CASE i # 0 /\ i <= m
        BY <3>2, <4>2
      <4>3. CASE i = m + 1
        BY <3>2, <4>3
      <4> QED BY <3>2, <4>1, <4>2, <4>3
    <3>4. w = [i \in 0 .. m + 1 |-> w[i]]
      OBVIOUS
    <3> HIDE DEF w
    <3>5. Is(w, m + 1)
      BY <3>3, <3>4
    <3> HIDE DEF Is
    <3> QED BY <3>2, <3>5
  <2>3. T \in SUBSET Nat
    OBVIOUS
  <2>4. T = Nat
    <3> HIDE DEF T
    <3> QED BY <2>1, <2>2, <2>3, SetInduction
  <2> QED BY <1>2, <2>4
<1>5. Is(after, N)
  BY <1>4
<1> HIDE DEF after
<1>6. \A i \in 0 .. N : after[i] = IF i = 0 THEN start ELSE Step(after[i - 1], i)
  BY <1>5
<1> HIDE DEF Is
<1> DEFINE T == {m \in Nat : m <= N => Applied(plan, tree, after[m], m)}
<1>7. T = Nat
  <2>1. 0 \in T
    BY <1>2, <1>3, <1>6
  <2>2. ASSUME NEW m \in T PROVE m + 1 \in T
    <3> SUFFICES ASSUME m + 1 <= N PROVE Applied(plan, tree, after[m + 1], m + 1)
      OBVIOUS
    <3>1. m \in Nat /\ Applied(plan, tree, after[m], m)
      BY <1>2
    <3>2. after[m + 1] = Step(after[m], m + 1)
      <4>1. m + 1 \in 0 .. N /\ m + 1 # 0 /\ m + 1 - 1 = m
        BY <1>2
      <4> QED BY <1>6, <4>1
    <3> HIDE DEF T
    <3> QED BY <3>1, <3>2, WritesAreApplied DEF Step
  <2>3. T \in SUBSET Nat
    OBVIOUS
  <2> HIDE DEF T
  <2> QED BY <2>1, <2>2, <2>3, SetInduction
<1> QED BY <1>1, <1>2, <1>7 DEF N

(* Any template, values and tree, whichever write fails: an init that is not      *)
(* forced leaves every file that was there as it was, one that is forced touches   *)
(* only files of its plan, and what it reports to be created has the content it     *)
(* planned (Template.Plan, ApplyPlan).                                        *)
THEOREM InitsAreCareful ==
  ASSUME NEW Sources, NEW template, IsTemplate(template, Sources),
         NEW run, DOMAIN run.tree = {"files", "dirs"}, run.tree = [x \in DOMAIN run.tree |-> run.tree[x]]
  PROVE  Packed!InitIsCareful(run, template)
<1> DEFINE values == Packed!ResolveValues(template, run.given)
           planned == Packed!Planned(template, values)
           applied == Packed!ApplyPlan(planned, run.tree, run.fails)
           result == Packed!RunTemplateInit(run, template)
           before == run.tree.files
           stands == Packed!PlanStands(template, values, run.force, run.tree)
<1>1. /\ Len(planned) \in Nat /\ DOMAIN planned = 1 .. Len(planned)
      /\ \A i \in DOMAIN planned : Given(template, values, planned[i].to)
  BY PlannedIsGiven
<1>2. Applied(planned, run.tree, applied, Len(planned))
  BY <1>1, PlansAreApplied
<1>3. \/ result.outcome \in {"refused", "shown"} /\ result.tree = run.tree
      \/ stands /\ result.outcome = "failed" /\ result.tree = applied.tree
      \/ stands /\ result.outcome = "created" /\ result.tree = applied.tree /\ ~applied.failed
  BY DEF Packed!RunTemplateInit
<1>4. stands => /\ \A i \in DOMAIN planned : Packed!MayWrite(planned[i].to, run.force, run.tree)
                /\ \A i, k \in DOMAIN planned : planned[i].to = planned[k].to => i = k
  BY <1>1 DEF Packed!PlanStands, Given
<1>5. \A to : Packed!MayWrite(to, run.force, run.tree) /\ ~run.force => to.names \notin DOMAIN before
  BY DEF Packed!MayWrite, Packed!Exists
<1>6. Packed!ToSet(planned) = {planned[i] : i \in DOMAIN planned}
  BY DEF Packed!ToSet
<1> HIDE DEF values, planned, applied, result, before, stands
<1>7. /\ DOMAIN before \subseteq DOMAIN applied.tree.files
      /\ \A path \in DOMAIN applied.tree.files :
           \/ path \in DOMAIN before /\ applied.tree.files[path] = before[path]
           \/ \E k \in DOMAIN planned : planned[k].to.names = path
      /\ ~applied.failed =>
           \A i \in DOMAIN planned : \E k \in DOMAIN planned :
             /\ planned[k].to.names = planned[i].to.names
             /\ applied.tree.files[planned[i].to.names] = planned[k].content
  BY <1>1, <1>2 DEF Applied, before
<1>8. result.outcome \in {"refused", "shown"} => result.tree = run.tree
  BY <1>3
<1>9. ASSUME NEW path \in DOMAIN before
      PROVE  path \in DOMAIN result.tree.files /\ (~run.force => result.tree.files[path] = before[path])
  <2>1. CASE result.tree = run.tree
    BY <2>1 DEF before
  <2>2. CASE stands /\ result.tree = applied.tree
    <3>1. \A k \in DOMAIN planned : ~run.force => planned[k].to.names # path
      BY <1>4, <1>5, <2>2
    <3> QED BY <1>7, <2>2, <3>1
  <2> QED BY <1>3, <2>1, <2>2
<1>10. ASSUME NEW path \in DOMAIN result.tree.files
       PROVE  \/ path \in DOMAIN before /\ before[path] = result.tree.files[path]
              \/ \E p \in Packed!ToSet(planned) : p.to.names = path
  <2>1. CASE result.tree = run.tree
    BY <2>1 DEF before
  <2>2. CASE result.tree = applied.tree
    BY <1>6, <1>7, <2>2
  <2> QED BY <1>3, <2>1, <2>2
<1>11. ASSUME result.outcome = "created", NEW p \in Packed!ToSet(planned)
       PROVE  \/ \E q \in Packed!ToSet(planned) : q.to.names = p.to.names /\ q.to # p.to
              \/ result.tree.files[p.to.names] = p.content
  <2>1. stands /\ result.tree = applied.tree /\ ~applied.failed
    BY <1>3, <1>11
  <2>2. PICK i \in DOMAIN planned : p = planned[i]
    BY <1>6
  <2>3. PICK k \in DOMAIN planned : /\ planned[k].to.names = p.to.names
                                    /\ applied.tree.files[p.to.names] = planned[k].content
    BY <1>7, <2>1, <2>2
  <2> QED BY <1>4, <1>6, <2>1, <2>2, <2>3
<1> QED BY <1>8, <1>9, <1>10, <1>11 DEF Packed!InitIsCareful, values, planned, result, before
-----------------------------------------------------------------------------
(* A pack: the plans, the archives, and what is left of them.                    *)

(* The targets and the peers of a package are sequences.                        *)
IsPackage(package, Peers) ==
  \E n \in Nat :
    /\ DOMAIN package.targets = 1 .. n
    /\ \A i \in 1 .. n : package.targets[i].peers \in Seq(Peers)

(* Every peer of a target that comes from the registry is among those that the    *)
(* metadata of the package is made of (packageJSONPeerDependencies).            *)
LEMMA PeersAreCollected ==
  ASSUME NEW Peers, NEW package, IsPackage(package, Peers),
         NEW t \in Packed!ToSet(package.targets), NEW p \in Packed!ToSet(t.peers), p.npm
  PROVE  p \in Packed!NpmPeers(package)
<1> DEFINE seqs == [i \in DOMAIN package.targets |-> package.targets[i].peers]
<1>1. PICK n \in Nat : /\ DOMAIN package.targets = 1 .. n
                       /\ \A i \in 1 .. n : package.targets[i].peers \in Seq(Peers)
  BY DEF IsPackage
<1>2. seqs \in Seq(Seq(Peers)) /\ DOMAIN seqs = 1 .. n
  BY <1>1
<1>3. PICK i \in 1 .. n : t = package.targets[i]
  BY <1>1 DEF Packed!ToSet
<1>4. PICK k \in DOMAIN t.peers : p = t.peers[k]
  BY DEF Packed!ToSet
<1>5. seqs[i] = t.peers
  BY <1>1, <1>3
<1>6. Packed!AllPeers(package) = Packed!FlattenSeq(seqs)
  BY DEF Packed!AllPeers
<1> HIDE DEF seqs
<1>7. p \in Packed!ToSet(Packed!FlattenSeq(seqs))
  BY <1>2, <1>4, <1>5, FlattenHolds
<1> QED BY <1>6, <1>7 DEF Packed!NpmPeers

(* An archive that is verified points only to what it contains, is of the package, *)
(* and names every optional peer as optional (VerifyArchive).                   *)
LEMMA ArchivesAreVerified ==
  ASSUME NEW Peers, NEW package, IsPackage(package, Peers), NEW disk, NEW later,
         Packed!VerifyArchive(package, Packed!Archive(package, disk, later)),
         \A t \in Packed!ToSet(package.targets) : \A p \in Packed!ToSet(t.peers) : p.npm
  PROVE  LET archive == Packed!Archive(package, disk, later)
         IN /\ Packed!References(archive.json) \subseteq archive.files
            /\ archive.json.identity = package.identity
            /\ \A t \in Packed!ToSet(package.targets) :
                 /\ t.export = "." \/ Packed!Generates(package, disk) => {t.runtime, t.types} \ {<< >>} \subseteq archive.files
                 /\ \A p \in Packed!ToSet(t.peers) : p.optional => p.name \in archive.json.optional
<1> DEFINE archive == Packed!Archive(package, disk, later)
           json == archive.json
<1>1. /\ Packed!VerifyRequiredMetadata(package, json) /\ Packed!VerifyPeerMetadata(package, json)
      /\ \A path \in Packed!References(json) : path \in archive.files
  BY DEF Packed!VerifyArchive, Packed!VerifyReference
<1>2. Packed!Generates(package, disk) => json = Packed!GeneratedPackageJSON(package)
  BY DEF Packed!Archive
<1> HIDE DEF archive, json
<1>3. ASSUME NEW t \in Packed!ToSet(package.targets), t.export = "."
      PROVE  {t.runtime, t.types} \ {<< >>} \subseteq Packed!References(json)
  <2>1. t \in Packed!RootTarget(package)
    BY <1>3 DEF Packed!RootTarget
  <2>2. t.runtime \in json.main /\ (t.types # << >> => t.types \in json.types)
    BY <1>1, <2>1 DEF Packed!VerifyRequiredMetadata
  <2> QED BY <2>2 DEF Packed!References
<1>4. ASSUME NEW t \in Packed!ToSet(package.targets), Packed!Generates(package, disk)
      PROVE  {t.runtime, t.types} \subseteq Packed!References(json)
  <2>1. json.exports = {UNION {{u.runtime, u.types} : u \in Packed!ToSet(package.targets)}}
    BY <1>2, <1>4 DEF Packed!GeneratedPackageJSON
  <2> DEFINE all == UNION {{u.runtime, u.types} : u \in Packed!ToSet(package.targets)}
  <2>2. {t.runtime, t.types} \subseteq all
    OBVIOUS
  <2>3. UNION json.exports = all
    BY <2>1
  <2> HIDE DEF all
  <2> QED BY <2>2, <2>3 DEF Packed!References
<1>5. ASSUME NEW t \in Packed!ToSet(package.targets), NEW p \in Packed!ToSet(t.peers), p.optional
      PROVE  p.name \in json.optional
  <2>1. p \in Packed!NpmPeers(package)
    BY PeersAreCollected
  <2>2. p.name \in Packed!OptionalPeers(package)
    BY <1>5, <2>1 DEF Packed!OptionalPeers
  <2>3. p.name \in DOMAIN Packed!PeerRanges(package)
    BY <2>1 DEF Packed!PeerRanges, Packed!PeerDependencies
  <2>4. Packed!PeerRanges(package) # << >>
    BY <2>3
  <2> QED BY <1>1, <2>2, <2>4 DEF Packed!VerifyPeerMetadata
<1>6. Packed!References(json) \subseteq archive.files
  BY <1>1
<1>7. json.identity = package.identity
  BY <1>1 DEF Packed!VerifyRequiredMetadata
<1>8. json = archive.json
  BY DEF json
<1> QED BY <1>3, <1>4, <1>5, <1>6, <1>7, <1>8 DEF archive

(* Any packages, disks and failing step: a pack leaves an output of its own for    *)
(* every package or for none, and one that was verified leaves archives that agree  *)
(* with the manifest and contain what they point to (Pack, WritePlans,           *)
(* VerifyArchive).                                                          *)
THEOREM PacksAreWhole ==
  ASSUME NEW Peers, NEW Packages, NEW packages \in Seq(Packages), packages # << >>,
         \A i \in DOMAIN packages : IsPackage(packages[i], Peers),
         NEW run, NEW disks, NEW later
  PROVE  Packed!PacksAreWhole(run, packages, disks, later)
<1> DEFINE result == Packed!Pack(run, packages, disks, later)
           n == Len(packages)
           archive(i) == Packed!Archive(packages[i], disks[i], later[i])
           outputs == {result.outputs[i] : i \in DOMAIN packages}
           Left(left, removed) == [reported |-> FALSE, outputs |-> Packed!Outputs(run, packages, left, removed)]
           All == [reported |-> TRUE, outputs |-> Packed!Outputs(run, packages, 1 .. n, {})]
           errors == UNION {Packed!PlanErrors(packages[i], disks[i]) : i \in DOMAIN packages}
<1>1. n \in Nat /\ DOMAIN packages = 1 .. n /\ 1 \in 1 .. n
  OBVIOUS
<1>2. \/ result = Left({}, {})
      \/ result = Left(1 .. run.at - 1, 1 .. run.at - 1)
      \/ /\ result = All /\ errors = {}
         /\ run.verify => \A i \in 1 .. n : Packed!VerifyArchive(packages[i], archive(i))
  BY DEF Packed!Pack, Packed!WritePlans
<1>3. ASSUME NEW removed PROVE \A i \in DOMAIN packages : Packed!Outputs(run, packages, removed, removed)[i] # "new"
  BY DEF Packed!Outputs
<1>4. \A i \in DOMAIN packages : Packed!Outputs(run, packages, 1 .. n, {})[i] = "new"
  BY <1>1 DEF Packed!Outputs
<1>5. ASSUME ~result.reported PROVE "new" \notin outputs
  <2>1. \E removed : result.outputs = Packed!Outputs(run, packages, removed, removed)
    BY <1>2, <1>5
  <2> HIDE DEF result
  <2> QED BY <1>3, <2>1
<1>6. ASSUME result.reported
      PROVE  /\ result = All /\ errors = {}
             /\ run.verify => \A i \in 1 .. n : Packed!VerifyArchive(packages[i], archive(i))
  <2>1. \A left, removed : Left(left, removed).reported = FALSE
    OBVIOUS
  <2> HIDE DEF result, Left, All, errors, archive, n
  <2> QED BY <1>2, <1>6, <2>1
<1>7. ASSUME result.reported PROVE outputs = {"new"}
  <2>1. \A i \in DOMAIN packages : result.outputs[i] = "new"
    BY <1>4, <1>6, <1>7
  <2> HIDE DEF result
  <2> QED BY <1>1, <2>1
<1>8. ASSUME result.reported, run.verify, NEW i \in DOMAIN packages
      PROVE  /\ Packed!References(archive(i).json) \subseteq archive(i).files
             /\ archive(i).json.identity = packages[i].identity
             /\ \A t \in Packed!ToSet(packages[i].targets) :
                  /\ t.export = "." \/ Packed!Generates(packages[i], disks[i]) => {t.runtime, t.types} \ {<< >>} \subseteq archive(i).files
                  /\ \A p \in Packed!ToSet(t.peers) : p.optional => p.name \in archive(i).json.optional
  <2>1. Packed!VerifyArchive(packages[i], archive(i)) /\ Packed!PlanErrors(packages[i], disks[i]) = {}
    BY <1>1, <1>6, <1>8
  <2>2. \A t \in Packed!ToSet(packages[i].targets) : \A p \in Packed!ToSet(t.peers) : p.npm
    BY <2>1 DEF Packed!PlanErrors
  <2> QED BY <2>1, <2>2, ArchivesAreVerified
<1> HIDE DEF result
<1> QED BY <1>5, <1>7, <1>8 DEF Packed!PacksAreWhole, result
=============================================================================
