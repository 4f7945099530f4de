----------------------------- MODULE TargetBuilds -----------------------------
(***************************************************************************)
(* One build target, built again and again: by tsc, tscl, scriptc, perry or a *)
(* bundler (cliBuildTargetExecutor), while its sources are edited, its        *)
(* artifact is deleted between builds, writes fail and tspack dies.           *)
(*                                                                         *)
(* The sources have some contents, and an edit may bring back earlier ones.   *)
(* A file holds what was made of some contents, and a cache record names the   *)
(* contents that the inputs were fingerprinted with.                          *)
(***************************************************************************)
EXTENDS Integers

CONSTANTS
  BuiltTargets,  \* [tool, preserve]: the compiler, and --preserve-last-successful
  Silent,     \* the compilers that may exit with zero and write nothing
  Contents,   \* what the sources may contain
  MaxEdits,
  MaxFaults   \* failing writes and kills

Tools == {"tsc", "tscl", "scriptc", "perry", "bundler"}

ASSUME TargetAssumption ==
  /\ \A t \in BuiltTargets : t.tool \in Tools /\ t.preserve \in BOOLEAN
  /\ Silent \subseteq {"scriptc", "perry", "bundler"}
  /\ Contents \subseteq Nat \ {0}
  /\ MaxEdits \in Nat /\ MaxFaults \in Nat

VARIABLES
  target,
  source,     \* the contents of the sources
  edits,
  file,       \* what the target's files hold
  began,      \* the contents that this build took its fingerprint of
  phase,
  faults,
  \* History, which no step depends on:
  since,      \* the contents the sources had since this build began
  made,       \* whether this build compiled what it took its fingerprint of
  match       \* whether the output was made of what the record names, or is apart

history   == <<since, made, match>>
buildVars == <<target, source, edits, file, began, phase, faults, history>>

Absent == 0
Torn   == -1
Held   == Contents \cup {Absent, Torn}
Files  == {"output", "staging", "previous", "record", "result", "projected"}

(* scriptc and perry have a cache record and write to a staging path.        *)
Cached == target.tool \in {"scriptc", "perry"}
Written == IF Cached THEN "staging" ELSE "output"

Resting == {"idle", "succeeded", "refused", "failed", "unprojected"}
Phases  == Resting \cup {"lookup", "clean", "compile", "check", "replace", "install", "record",
                        "recorded", "project", "copy"}

BuildInit ==
  /\ target \in BuiltTargets
  /\ source \in Contents /\ began = source /\ edits = 0
  /\ file = [f \in Files |-> Absent]
  /\ phase = "idle"
  /\ faults = 0
  /\ since = {source} /\ made = "nothing" /\ match = "same"

Onwards(next) == phase' = next /\ UNCHANGED <<target, source, edits, began, faults, since>>
Goto(next) == Onwards(next) /\ UNCHANGED <<made, match>>

(* A step that fails to write or rename. *)
Fault(next) ==
  /\ faults < MaxFaults
  /\ faults' = faults + 1
  /\ phase' = next
  /\ UNCHANGED <<target, source, edits, began, history>>

-----------------------------------------------------------------------------
Edit ==
  /\ edits < MaxEdits
  /\ source' \in Contents \ {source}
  /\ edits' = edits + 1
  /\ since' = since \cup {source'}
  /\ UNCHANGED <<target, file, began, phase, faults, made, match>>

Delete ==
  /\ phase \in Resting /\ file["output"] # Absent
  /\ file' = [file EXCEPT !["output"] = Absent]
  /\ Goto("idle")

(* A build begins: BuildTarget has found the sources owned by one compiler     *)
(* each.  The configuration, the tool, its version, the entry and the inputs   *)
(* may all turn it away; the fingerprint is taken of them, of the compiler and *)
(* of the packages.                                                          *)
Refused == Goto("refused") /\ UNCHANGED file

Begun(next) ==
  /\ began' = source /\ since' = {source} /\ made' = "nothing"
  /\ phase' = next
  /\ UNCHANGED <<target, source, edits, faults, match>>

BeginTsc ==
  /\ phase \in Resting /\ target.tool = "tsc"
  /\ \/ Refused
     \/ Begun("compile") /\ UNCHANGED file

BeginTscl ==
  /\ phase \in Resting /\ target.tool = "tscl"
  /\ \/ Refused
     \/ Begun("compile") /\ UNCHANGED file

(* The staging path is cleared before the descriptor is written.             *)
Unstaged == [file EXCEPT !["staging"] = Absent]

BeginScriptC ==
  /\ phase \in Resting /\ target.tool = "scriptc"
  /\ \/ file' \in {file, Unstaged} /\ Goto("refused")
     \/ file' = Unstaged /\ Begun("lookup")

BeginPerry ==
  /\ phase \in Resting /\ target.tool = "perry"
  /\ \/ file' \in {file, Unstaged} /\ Goto("refused")
     \/ file' = Unstaged /\ Begun("lookup")

BeginBundler ==
  /\ phase \in Resting /\ target.tool = "bundler"
  /\ \/ Refused
     \/ Begun("clean") /\ UNCHANGED file

CacheHit_AnyRecord == file["output"] # Absent /\ file["record"] # Absent

(* compilerCacheHit: the fingerprint is of contents, whenever they were made.   *)
CacheHit == file["output"] # Absent /\ file["record"] = began

Lookup ==
  /\ phase = "lookup"
  /\ Goto(IF CacheHit THEN "project" ELSE "compile")
  /\ UNCHANGED file

(* cleanDeclaredBundlerArtifacts. *)
Clean ==
  /\ phase = "clean"
  /\ \/ file' = [file EXCEPT !["output"] = Absent] /\ Goto("compile")
     \/ UNCHANGED file /\ Fault("failed")

-----------------------------------------------------------------------------
(* The compiler, which reads the sources as they are now.                    *)
CompileSucceeds ==
  /\ phase = "compile"
  /\ file' = [file EXCEPT ![Written] = source,
                          !["result"] = IF target.tool = "tscl" THEN source ELSE @]
  /\ made' = IF since = {began} THEN "fingerprinted" ELSE "edited"
  /\ Onwards("check")
  /\ UNCHANGED match

CompileSilently ==
  /\ phase = "compile" /\ target.tool \in Silent
  /\ Goto("check")
  /\ UNCHANGED file

(* removeStaleTsclEntry, and the staging path after a failure.                *)
AfterFailure(files) ==
  IF target.tool = "tscl" /\ ~target.preserve THEN [files EXCEPT !["output"] = Absent]
  ELSE IF Cached THEN [files EXCEPT !["staging"] = Absent]
  ELSE files

(* A compiler that fails may have written; for scriptc the static coverage    *)
(* may have failed before.                                                   *)
CompileFails ==
  /\ phase = "compile"
  /\ \E left \in {file[Written], source, Torn}, result \in {file["result"], Absent} :
       file' = AfterFailure([file EXCEPT ![Written] = left,
                                         !["result"] = IF target.tool = "tscl" THEN result ELSE @])
  /\ Goto("failed")

(* The others have to have written what they promised; tscl has to have       *)
(* declared it too.                                                          *)
Check ==
  /\ phase = "check" /\ target.tool # "tscl"
  /\ IF file[Written] # Absent
     THEN UNCHANGED file /\ Goto(IF Cached THEN "replace" ELSE "project")
     ELSE file' = AfterFailure(file) /\ Goto("failed")

CheckTscl ==
  /\ phase = "check" /\ target.tool = "tscl"
  /\ IF file["output"] # Absent /\ file["result"] # Absent
     THEN UNCHANGED file /\ Goto("project")
     ELSE file' = AfterFailure(file) /\ Goto("failed")

(* The graph and host of a browser target. *)
BrowserFails ==
  /\ phase = "check" /\ target.tool = "tscl"
  /\ file' = AfterFailure(file)
  /\ Fault("failed")

-----------------------------------------------------------------------------
(* replaceArtifactAtomically, a rename at a time.                            *)
Replace ==
  /\ phase = "replace"
  /\ \/ /\ file' = [file EXCEPT !["previous"] = file["output"], !["output"] = Absent]
        /\ Goto("install")
     \/ file' = [file EXCEPT !["previous"] = Absent] /\ file["output"] # Absent /\ Fault("failed")

Install ==
  /\ phase = "install"
  /\ \/ /\ file' = [file EXCEPT !["output"] = file["staging"], !["staging"] = Absent]
        /\ match' = "apart" /\ Onwards("record") /\ UNCHANGED made
     \/ file' = [file EXCEPT !["output"] = file["previous"], !["previous"] = Absent] /\ Fault("failed")

(* The cache record replaces the old one in the same way.                     *)
Unrecord ==
  /\ phase = "record"
  /\ \/ file' = [file EXCEPT !["previous"] = Absent, !["record"] = Absent] /\ Goto("recorded")
     \/ file' = [file EXCEPT !["previous"] = Absent] /\ Fault("failed")

Record ==
  /\ phase = "recorded"
  /\ file' = [file EXCEPT !["record"] = began]
  /\ match' = (IF made = "edited" THEN "apart" ELSE "same") /\ Onwards("project") /\ UNCHANGED made

(* ProjectWorkspaceBuildArtifacts: the copy in node_modules goes before the    *)
(* new one comes.                                                            *)
Unproject ==
  /\ phase = "project"
  /\ \/ file' = [file EXCEPT !["projected"] = Absent] /\ Goto("copy")
     \/ UNCHANGED file /\ Fault("unprojected")

Project ==
  /\ phase = "copy"
  /\ \/ file' = [file EXCEPT !["projected"] = file["output"]] /\ Goto("succeeded")
     \/ file' \in {file, [file EXCEPT !["projected"] = Torn]} /\ Fault("unprojected")

Killed ==
  /\ phase \notin Resting
  /\ \/ UNCHANGED file
     \/ phase = "compile" /\ \E left \in {Torn, source} : file' = [file EXCEPT ![Written] = left]
     \/ phase = "copy" /\ file' = [file EXCEPT !["projected"] = Torn]
  /\ Fault("idle")

BuildNext ==
  \/ Edit \/ Delete \/ BeginTsc \/ BeginTscl \/ BeginScriptC \/ BeginPerry \/ BeginBundler
  \/ Lookup \/ Clean \/ CompileSucceeds \/ CompileSilently \/ CompileFails
  \/ Check \/ CheckTscl \/ BrowserFails
  \/ Replace \/ Install \/ Unrecord \/ Record \/ Unproject \/ Project \/ Killed

BuildSpec == BuildInit /\ [][BuildNext]_buildVars

-----------------------------------------------------------------------------
BuildTypeOK ==
  /\ target \in BuiltTargets
  /\ source \in Contents /\ began \in Contents /\ edits \in 0 .. MaxEdits
  /\ since \subseteq Contents /\ source \in since /\ began \in since
  /\ made \in {"nothing", "fingerprinted", "edited"} /\ match \in {"same", "apart"}
  /\ file \in [Files -> Held]
  /\ phase \in Phases
  /\ faults \in 0 .. MaxFaults

(* The artifact was made of the contents the record beside it names, whatever    *)
(* failed and whenever tspack died, unless they are apart.                     *)
RecordedIsBuilt ==
  Cached /\ file["output"] # Absent /\ file["record"] # Absent /\ match = "same" => file["output"] = file["record"]

(* A build that reports success, compiled or cached, reports an artifact that  *)
(* is whole, was made of contents its sources had since it began, and is what   *)
(* node_modules has a copy of.  The exception is the cache (compilerCacheHit):  *)
(* where the artifact and its record are apart, because the sources were edited *)
(* between fingerprint and compiler or the build ended between artifact and     *)
(* record, sources that return to what the record names get that artifact.     *)
SuccessIsFresh ==
  phase = "succeeded" =>
    /\ file["output"] \in Contents
    /\ file["output"] \in since \/ (Cached /\ made = "nothing" /\ match = "apart")
    /\ file["projected"] = file["output"]

=============================================================================
