-------------------------------- MODULE Skyrim --------------------------------
(***************************************************************************)
(* tspack run skyrim, again and again: a plan of what to deploy to the game,   *)
(* the deployment with its rollback, the managed controller and the game, and  *)
(* the restoration of what a local overlay changed, while writes fail and      *)
(* tspack is killed.  A deployed item holds one of a few contents.  dll stands  *)
(* for the bridge and the DLL; the committed configuration is safe, and an      *)
(* overlay is what the host profile or a flag makes of it.                     *)
(*                                                                         *)
(* And tspack skyrim fixture create: a save of the game, an .ess file with an   *)
(* SKSE sidecar or without, is discovered, copied beside the pair, committed    *)
(* as a pair with a rollback, verified and recorded in the host profile, while  *)
(* the game may save again and writes may fail.  A file is the number of the    *)
(* save that wrote it, 0 where there is none.                                *)
(***************************************************************************)
EXTENDS Naturals, Sequences, SequencesExt

CONSTANTS
  Overlays,   \* [config, ini, controller]: whether a run overlays the configuration and the INI, and
              \* needs the managed controller
  MaxMishaps  \* failing steps in one run

Places ==
  [dll : {"absent", "old", "new", "odd"}, config : {"absent", "other", "safe", "overlay", "odd"},
   ini : {"plain", "active", "odd"}, plugins : {"foreign", "managed"}]

SessionAssumption ==
  /\ Overlays \subseteq [config : BOOLEAN, ini : BOOLEAN, controller : BOOLEAN]
  /\ MaxMishaps \in Nat

VARIABLES
  overlay,     \* of this run
  place,       \* what is deployed
  backup,      \* the rollback directory of the plan
  origin,      \* what was deployed when the run planned
  items,        \* what is still to deploy
  applied,     \* the items deployed, with whether there was one before
  phase,
  game,        \* none, starting, ready or over
  sampled,     \* whether findSkyrimRuntimeProcess has found the game
  controller,  \* none, running, broken (it failed), finished or reaped
  trouble,     \* the errors of the run: launch, restoration
  mishaps

skyrimVars == <<overlay, place, backup, origin, items, applied, phase, game, sampled, controller, trouble, mishaps>>

AtRest == {"idle", "refused", "undeployed", "abandoned", "ended"}

SessionInit ==
  /\ overlay \in Overlays
  /\ place \in {p \in Places : p.dll \in {"absent", "old"} /\ p.config \in {"absent", "other"} /\ p.ini # "odd"}
  /\ backup = [ini |-> "absent", dll |-> "absent", config |-> "absent", plugins |-> "absent"]
  /\ origin = place /\ items = <<>> /\ applied = <<>>
  /\ phase = "idle" /\ game = "none" /\ sampled = FALSE /\ controller = "none"
  /\ trouble = {} /\ mishaps = 0

Mishap == mishaps < MaxMishaps /\ mishaps' = mishaps + 1
NoMishap == UNCHANGED mishaps

(* What changes besides what a step names: the four groups of variables.      *)
PlanKept == UNCHANGED <<overlay, origin>>
DeploymentKept == UNCHANGED <<place, backup, items, applied>>
LaunchKept == UNCHANGED <<game, sampled, controller>>

-----------------------------------------------------------------------------
(* buildSkyrimPlan.  An item whose content is already the wanted one is not     *)
(* deployed; the INI is an item only when it is overlaid.                     *)
Wanted(item) ==
  CASE item = "dll" -> "new"
    [] item = "config" -> IF overlay.config THEN "overlay" ELSE "safe"
    [] item = "ini" -> IF overlay.ini THEN "active" ELSE place["ini"]
    [] item = "plugins" -> "managed"

Due(item) == IF place[item] # Wanted(item) THEN <<item>> ELSE <<>>

RestoresConfig == overlay.config
(* Only an INI that the overlay would change is to be restored.               *)
RestoresINI == overlay.ini /\ origin["ini"] # "active"

(* A preflight plan with blockers refuses the run; --dry-run only shows it.    *)
Preflight ==
  /\ phase \in AtRest /\ game \in {"none", "over"}
  /\ overlay' \in Overlays
  /\ items' = <<>> /\ applied' = <<>> /\ game' = "none" /\ sampled' = FALSE /\ controller' = "none"
  /\ trouble' = {} /\ mishaps' = 0
  /\ phase' \in {"build", "refused"}
  /\ UNCHANGED <<origin, place, backup>>

(* The native builds and tests, the asset pack and the parity of the bridges;   *)
(* then the plan that is deployed.                                           *)
Build ==
  /\ phase = "build"
  /\ \/ /\ origin' = place
        /\ items' = Due("dll") \o Due("config") \o Due("ini") \o Due("plugins")
        /\ phase' = "deploy" /\ NoMishap
     \/ phase' = "refused" /\ UNCHANGED <<origin, items>> /\ Mishap
  /\ UNCHANGED <<overlay, place, backup, applied, trouble>> /\ LaunchKept

-----------------------------------------------------------------------------
(* materializeSkyrimPlan: an item is copied to the rollback directory, and the *)
(* new content is renamed over it and hashed.                                *)
Saved(item) == IF place[item] = "absent" THEN backup ELSE [backup EXCEPT ![item] = place[item]]

Applied_Unsaved(item) == Append(applied, [item |-> item, existed |-> FALSE])

Applied(item) == Append(applied, [item |-> item, existed |-> place[item] # "absent"])

Apply ==
  /\ phase = "deploy" /\ items # <<>>
  /\ LET item == Head(items) IN
       /\ backup' = Saved(item)
       /\ \/ /\ place' = [place EXCEPT ![item] = Wanted(item)]
             /\ applied' = Applied(item)
             /\ items' = Tail(items) /\ UNCHANGED phase /\ NoMishap
          \/ UNCHANGED <<place, applied, items>> /\ phase' = "rollback" /\ Mishap
          \/ /\ item # "plugins"  \* the hash of what was written is another
             /\ place' = [place EXCEPT ![item] = "odd"]
             /\ applied' = Applied(item)
             /\ UNCHANGED items /\ phase' = "rollback" /\ Mishap
  /\ PlanKept /\ LaunchKept /\ UNCHANGED trouble

Returned(entry) == IF entry.existed THEN backup[entry.item] ELSE "absent"

(* The items go back in reverse; what cannot be put back is left.             *)
RollBack ==
  /\ phase = "rollback"
  /\ IF applied = <<>>
     THEN phase' = "undeployed" /\ UNCHANGED <<place, applied>> /\ NoMishap
     ELSE /\ applied' = Front(applied)
          /\ \/ place' = [place EXCEPT ![Last(applied).item] = Returned(Last(applied))] /\ NoMishap
             \/ UNCHANGED place /\ Mishap
          /\ UNCHANGED phase
  /\ UNCHANGED <<backup, items, trouble>> /\ PlanKept /\ LaunchKept

(* The transport configuration is written for the controller; when that fails   *)
(* the command exits at once.                                                *)
Deployed ==
  /\ phase = "deploy" /\ items = <<>>
  /\ \/ phase' \in {"launch", "restoreConfig"} /\ NoMishap  \* the latter with --no-launch
     \/ overlay.config /\ phase' = "abandoned" /\ Mishap
  /\ PlanKept /\ DeploymentKept /\ LaunchKept /\ UNCHANGED trouble

-----------------------------------------------------------------------------
(* launchSkyrim.  Every return but the first two goes through the deferred     *)
(* kill of the controller.                                                   *)
Reaped == IF controller = "running" THEN "reaped" ELSE controller

Fails == trouble' = trouble \cup {"launch"} /\ phase' = "restoreConfig"

StartController ==
  /\ phase = "launch" /\ overlay.controller /\ controller = "none"
  /\ \/ controller' = "running" /\ UNCHANGED <<trouble, phase>> /\ NoMishap
     \/ controller' \in {"none", "broken", "finished"} /\ Fails /\ Mishap
  /\ PlanKept /\ DeploymentKept /\ UNCHANGED <<game, sampled>>

StartGame ==
  /\ phase = "launch" /\ (overlay.controller => controller # "none")
  /\ \/ game' = "starting" /\ phase' = "await" /\ UNCHANGED <<controller, trouble>> /\ NoMishap
     \/ controller' = Reaped /\ Fails /\ UNCHANGED game /\ Mishap
  /\ PlanKept /\ DeploymentKept /\ UNCHANGED sampled

(* A turn of the loop looks for the process first and for the marker then.     *)
Sample ==
  /\ phase = "await"
  /\ sampled' = (sampled \/ game \in {"starting", "ready"})
  /\ phase' = "read"
  /\ PlanKept /\ DeploymentKept /\ UNCHANGED <<game, controller, trouble, mishaps>>

ReadLog ==
  /\ phase = "read"
  /\ phase' = IF game \in {"ready", "over"} THEN "play" ELSE "await"
  /\ PlanKept /\ DeploymentKept /\ LaunchKept /\ UNCHANGED <<trouble, mishaps>>

(* Thirty seconds without the marker.                                        *)
NotReady ==
  /\ phase = "await"
  /\ controller' = Reaped /\ Fails /\ Mishap
  /\ PlanKept /\ DeploymentKept /\ UNCHANGED <<game, sampled>>

(* The launcher has exited, and so has the game if its process was ever found. *)
(* A controller that failed is an error, one that still runs is killed.       *)
Played ==
  /\ phase = "play" /\ (sampled => game = "over")
  /\ controller' = Reaped
  /\ IF controller = "broken" THEN Fails ELSE phase' = "restoreConfig" /\ UNCHANGED trouble
  /\ NoMishap
  /\ PlanKept /\ DeploymentKept /\ UNCHANGED <<game, sampled>>

(* The game and the controller.                                              *)
GameStep ==
  /\ \/ game = "starting" /\ game' \in {"ready", "over"}
     \/ game = "ready" /\ game' = "over"
  /\ UNCHANGED <<sampled, controller, phase, trouble, mishaps>> /\ PlanKept /\ DeploymentKept

ControllerStep ==
  /\ controller = "running" /\ phase \notin AtRest
  /\ controller' \in {"broken", "finished"}
  /\ UNCHANGED <<game, sampled, phase, trouble, mishaps>> /\ PlanKept /\ DeploymentKept

-----------------------------------------------------------------------------
RestoresNow_AfterSuccess == RestoresConfig /\ trouble = {}

RestoresNow == RestoresConfig

(* restoreSkyrimRuntimeConfig deploys the committed configuration, with a       *)
(* rollback of its own.                                                      *)
RestoreConfig ==
  /\ phase = "restoreConfig" /\ phase' = "restoreINI"
  /\ IF ~RestoresNow THEN UNCHANGED <<place, trouble>> /\ NoMishap
     ELSE \/ place' = [place EXCEPT !["config"] = "safe"] /\ UNCHANGED trouble /\ NoMishap
          \/ UNCHANGED place /\ trouble' = trouble \cup {"restoration"} /\ Mishap
  /\ PlanKept /\ UNCHANGED <<backup, items, applied>> /\ LaunchKept

(* restoreSkyrimINI copies the backup and compares it with the plan's source.  *)
RestoreINI ==
  /\ phase = "restoreINI" /\ phase' = "ended"
  /\ IF ~RestoresINI THEN UNCHANGED <<place, trouble>> /\ NoMishap
     ELSE \/ /\ place' = [place EXCEPT !["ini"] = backup["ini"]]
             /\ trouble' = IF backup["ini"] = origin["ini"] THEN trouble ELSE trouble \cup {"restoration"}
             /\ NoMishap
          \/ UNCHANGED place /\ trouble' = trouble \cup {"restoration"} /\ Mishap
  /\ PlanKept /\ UNCHANGED <<backup, items, applied>> /\ LaunchKept

(* Nothing handles a signal.                                                 *)
Killed ==
  /\ phase \notin AtRest
  /\ phase' = "idle" /\ Mishap
  /\ PlanKept /\ DeploymentKept /\ LaunchKept /\ UNCHANGED trouble

SessionNext ==
  \/ Preflight \/ Build \/ Apply \/ RollBack \/ Deployed
  \/ StartController \/ StartGame \/ Sample \/ ReadLog \/ NotReady \/ Played
  \/ GameStep \/ ControllerStep \/ RestoreConfig \/ RestoreINI \/ Killed

SessionSpec == SessionInit /\ [][SessionNext]_skyrimVars

-----------------------------------------------------------------------------
(* A deployment that fails leaves what it found, unless its rollback fails too *)
(* (materializeSkyrimPlan).                                                  *)
DeploymentIsAtomic == phase = "undeployed" /\ mishaps = 1 => place = origin

(* A run that comes to its end, whatever failed and whatever earlier runs that  *)
(* were killed have left, has put the committed configuration in the place of   *)
(* the overlay and the INI back as it found it, or says that it could not; and  *)
(* no controller outlives it (runSkyrimCommand).                             *)
OverlayIsTemporary ==
  phase = "ended" =>
    /\ "restoration" \notin trouble => place["config"] = "safe" /\ place["ini"] = origin["ini"]
    /\ controller # "running"

(* Both: no trace of an overlay stays but one that is reported.               *)
OverlayLeavesNoTrace == DeploymentIsAtomic /\ OverlayIsTemporary

-----------------------------------------------------------------------------
(* The creation of a fixture.                                                *)

CONSTANTS
  MaxSaves,   \* how often the game saves
  MaxFaults   \* failing writes in one command

Files == [ess : 0..MaxSaves, skse : 0..MaxSaves]

ASSUME FixtureAssumption == MaxSaves \in Nat \ {0} /\ MaxFaults \in Nat

VARIABLES
  save,       \* the save in the save directory
  pair,       \* the pair of the fixture
  mapping,    \* the entry of the host profile: testSaves.<id>, [ess |-> 0, ...] where there is none
  candidate,  \* the save as it was discovered
  copies,     \* the staged files
  before,     \* the save when the creation began
  found,      \* the fixture when it was planned
  existed,    \* those files of it that were there when they were replaced
  act,        \* the action of the plan
  step,
  faults

fixtureVars == <<save, pair, mapping, candidate, copies, before, found, existed, act, step, faults>>

NoFiles == [ess |-> 0, skse |-> 0]
Done == {"idle", "refused", "planned", "uncommitted", "unverified", "unrecorded", "moved", "created"}

FixtureInit ==
  /\ save = [ess |-> 1, skse |-> 0] /\ pair = NoFiles /\ mapping = NoFiles
  /\ candidate = NoFiles /\ copies = NoFiles /\ before = NoFiles /\ found = NoFiles
  /\ existed = {} /\ act = "create" /\ step = "idle" /\ faults = 0

Fault == faults < MaxFaults /\ faults' = faults + 1

(* The game: a save, and SKSE's sidecar of it when a plugin has one.           *)
SaveAgain ==
  /\ \/ save.ess < MaxSaves /\ save' = [save EXCEPT !.ess = @ + 1]
     \/ save.skse < save.ess /\ save' = [save EXCEPT !.skse = save.ess]
     \/ save.skse # 0 /\ save' = [save EXCEPT !.skse = 0]
  /\ UNCHANGED <<pair, mapping, candidate, copies, before, found, existed, act, step, faults>>

-----------------------------------------------------------------------------
(* discoverSkyrimSaveCandidates hashes the .ess first and its sidecar then.    *)
DiscoverSave ==
  /\ step \in Done
  /\ candidate' = [ess |-> save.ess, skse |-> 0] /\ step' = "sidecar" /\ faults' = 0
  /\ copies' = NoFiles /\ existed' = {}
  /\ UNCHANGED <<save, pair, mapping, before, found, act>>

DiscoverSidecar ==
  /\ step = "sidecar"
  /\ candidate' = [candidate EXCEPT !.skse = save.skse] /\ step' = "plan"
  /\ UNCHANGED <<save, pair, mapping, copies, before, found, existed, act, faults>>

HasSidecar == candidate.skse # 0

(* planSkyrimFixture.                                                        *)
Action ==
  IF pair = candidate THEN "unchanged"
  ELSE IF pair # NoFiles \/ mapping # NoFiles THEN "replace"
  ELSE "create"

(* The candidate named by --from may be gone or changed; replacing needs       *)
(* --replace, and --dry-run only shows the plan.                              *)
PlanFixture ==
  /\ step = "plan"
  /\ act' = Action /\ found' = pair
  /\ step' \in {"refused", "planned", "begin"}
  /\ UNCHANGED <<save, pair, mapping, candidate, copies, before, existed, faults>>

(* createSkyrimFixture: a save that changed after discovery is refused.      *)
Begin ==
  /\ step = "begin"
  /\ before' = IF HasSidecar THEN save ELSE [save EXCEPT !.skse = 0]
  /\ step' = IF before' = candidate THEN "stage" ELSE "refused"
  /\ UNCHANGED <<save, pair, mapping, candidate, copies, found, existed, act, faults>>

(* stageSkyrimFixtureFile copies and hashes the copy.                         *)
Staged(file) ==
  step' = IF save[file] # candidate[file] THEN "refused"
          ELSE IF file = "ess" /\ HasSidecar THEN "stageSidecar"
          ELSE IF act = "unchanged" THEN "verify" ELSE "commit"

Stage(file) ==
  /\ step = (IF file = "ess" THEN "stage" ELSE "stageSidecar")
  /\ \/ /\ copies' = [copies EXCEPT ![file] = save[file]]
        /\ Staged(file) /\ UNCHANGED faults
     \/ step' = "refused" /\ Fault /\ UNCHANGED copies
  /\ UNCHANGED <<save, pair, mapping, candidate, before, found, existed, act>>

(* commitSkyrimFixturePair: one file and then the other, each with a backup.   *)
Existed(file) == IF pair[file] # 0 THEN existed \cup {file} ELSE existed

Commit(file) ==
  /\ step = (IF file = "ess" THEN "commit" ELSE "commitSidecar")
  /\ \/ /\ pair' = [pair EXCEPT ![file] = copies[file]]
        /\ existed' = Existed(file)
        /\ step' = IF file = "ess" /\ HasSidecar THEN "commitSidecar" ELSE "verify"
        /\ UNCHANGED faults
     \/ step' = (IF file = "ess" THEN "uncommitted" ELSE "rollback") /\ Fault /\ UNCHANGED <<pair, existed>>
  /\ UNCHANGED <<save, mapping, candidate, copies, before, found, act>>

Former_Kept == IF "ess" \in existed THEN found.ess ELSE pair.ess

(* The backup of the .ess, or nothing where there was none.                    *)
Former == IF "ess" \in existed THEN found.ess ELSE 0

(* The sidecar was not replaced; putting the .ess back may fail unnoticed.     *)
RollBackPair ==
  /\ step = "rollback" /\ step' = "uncommitted"
  /\ \/ pair' = [pair EXCEPT !.ess = Former] /\ UNCHANGED faults
     \/ Fault /\ UNCHANGED pair
  /\ UNCHANGED <<save, mapping, candidate, copies, before, found, existed, act>>

(* A sidecar that the fixture had and the save lacks is left where it is.    *)
VerifyCopies ==
  /\ step = "verify"
  /\ step' = IF pair = candidate THEN "record" ELSE "unverified"
  /\ UNCHANGED <<save, pair, mapping, candidate, copies, before, found, existed, act, faults>>

(* writeSkyrimHostProfile replaces the profile as a whole.                    *)
Record ==
  /\ step = "record"
  /\ \/ mapping' = pair /\ step' = "audit" /\ UNCHANGED faults
     \/ step' = "unrecorded" /\ Fault /\ UNCHANGED mapping
  /\ UNCHANGED <<save, pair, candidate, copies, before, found, existed, act>>

(* The save must be what it was; if it is not, the mapping stays.            *)
Audit ==
  /\ step = "audit"
  /\ step' = IF (IF HasSidecar THEN save ELSE [save EXCEPT !.skse = 0]) = before THEN "created" ELSE "moved"
  /\ UNCHANGED <<save, pair, mapping, candidate, copies, before, found, existed, act, faults>>

CreateNext ==
  \/ SaveAgain
  \/ DiscoverSave \/ DiscoverSidecar \/ PlanFixture \/ Begin
  \/ \E file \in {"ess", "skse"} : Stage(file) \/ Commit(file)
  \/ RollBackPair \/ VerifyCopies \/ Record \/ Audit

FixtureSpec == FixtureInit /\ [][CreateNext]_fixtureVars

-----------------------------------------------------------------------------
(* inspectSkyrimFixture.                                                     *)
HashesMatch == pair.ess # 0 /\ pair = mapping

(* A creation that reports success leaves a fixture that an inspection finds   *)
(* to match its mapping, of the save that was discovered; one whose commit      *)
(* fails leaves the pair that it found, unless putting it back fails too.       *)
FixtureIsRecorded ==
  /\ step = "created" => HashesMatch /\ pair = candidate
  /\ step = "uncommitted" /\ faults = 1 => pair = found
=============================================================================
