----------------------------- MODULE RunSessions -----------------------------
(***************************************************************************)
(* `tspack run`: the processes it starts, waits for, and stops               *)
(* (RunTargetSession), for a finite target, a server target and the Vite      *)
(* development server with a backend of its own, on Unix.                     *)
(*                                                                         *)
(* Every session is a process group: its root and the processes the root has  *)
(* started.  A signal sent to a group kills it, if it is SIGKILL, or may be   *)
(* ignored.  tspack is the goroutine that runs the command and the one that   *)
(* waits for Ctrl+C.  Before it starts a process it decides what to start.     *)
(***************************************************************************)
EXTENDS Naturals, Sequences, SequencesExt, FiniteSets

-----------------------------------------------------------------------------
(***************************************************************************)
(* Before a target runs: which target `tspack run` means, where it runs, what *)
(* its environment and its readiness URL are, and which executable it is       *)
(* (internal/cli/run_command.go and the selection part of vite_dev.go).       *)
(*                                                                         *)
(* A key of an environment is <<letters, case>>; a value, like a URL, is a      *)
(* sequence of segments <<"text", x>>, <<"key", k>> for ${k}, or <<"open", k>>   *)
(* for one without its brace, and the segments of a PATH are <<"dir", d>>.       *)
(* An environment is a sequence of pairs <<key, value>>, of which the last with *)
(* a key counts.  A target is [name, runtime, command, cwd, ready, url, env,     *)
(* requires], its command a name without a directory; it declares its env as a  *)
(* sequence [key, value, required, secret], the value NoDefault or a default,   *)
(* and its requires as a sequence [reachable, optional].                      *)
(***************************************************************************)
NoDefault == << <<"no default", "">> >>
NoRoot == "no root"
Refusal(why) == [refused |-> why]
IsRefused(result) == "refused" \in DOMAIN result

ContractKey(windows, key) == IF windows THEN <<key[1], "upper">> ELSE key  \* runEnvContractKey
IsPathKey(key) == key[1] = "PATH"                                          \* in any case, on any system
Keys(env) == {entry[1] : entry \in ToSet(env)}

-----------------------------------------------------------------------------
(* Selection among the targets of all packages.                               *)
TargetRef(package, target) == [package |-> package, target |-> target]
Refs(packages) == FlattenSeq([i \in DOMAIN packages |->
                    [j \in DOMAIN packages[i].runTargets |-> TargetRef(packages[i], packages[i].runTargets[j])]])

Named(refs, name) == SelectSeq(refs, LAMBDA r : r.target.name = name)

SelectRunTargetInPackage_Alone(packages, package, target) ==
  LET refs == Refs(packages)
      own == SelectSeq(refs, LAMBDA r : r.package.name = package)
      named == Named(refs, IF target = "" THEN "dev" ELSE target)
  IN CASE own = <<>> -> Refusal("missing")
       [] own # <<>> /\ named # <<>> -> Head(named)
       [] OTHER -> IF target = "" /\ Len(own) = 1 THEN Head(own) ELSE Refusal("not found")

(* selectRunTargetInPackage: the first of that name, or dev, or the only one.   *)
SelectRunTargetInPackage(packages, package, target) ==
  LET own == SelectSeq(Refs(packages), LAMBDA r : r.package.name = package)
      named == Named(own, IF target = "" THEN "dev" ELSE target)
  IN CASE own = <<>> -> Refusal("missing")
       [] own # <<>> /\ named # <<>> -> Head(named)
       [] OTHER -> IF target = "" /\ Len(own) = 1 THEN Head(own) ELSE Refusal("not found")

SelectRunTarget(packages, package, target) ==
  LET all == Refs(packages)
      named == Named(all, IF target = "" THEN "dev" ELSE target)
  IN CASE package # "" -> SelectRunTargetInPackage(packages, package, target)
       [] package = "" /\ all = <<>> -> Refusal("missing")
       [] package = "" /\ Len(named) > 1 -> Refusal("ambiguous")
       [] package = "" /\ Len(named) = 1 -> Head(named)
       [] OTHER -> IF target = "" /\ Len(all) = 1 THEN Head(all) ELSE Refusal("not found")

(* selectCopelandViteDevProject, before any selection, for a run of dev.         *)
BrowserTargets(packages, package) ==
  UNION {{TargetRef(p, t) : t \in p.browser} :
           p \in {q \in ToSet(packages) : package \in {"", q.name} /\ q.compiler = "tscl"}}

(* What a run of the command runs, "vite" for the compiler's own development      *)
(* server: it comes before a target that is called dev.                          *)
Chosen(packages, package, target) ==
  LET vite == IF target = "dev" THEN BrowserTargets(packages, package) ELSE {}
  IN CASE vite = {} -> SelectRunTarget(packages, package, target)
       [] Cardinality(vite) = 1 -> CHOOSE ref \in vite : TRUE
       [] OTHER -> Refusal("invalid project")

(* resolvePackageRoot and resolveRunTargetCwd; the workspace is at ".".          *)
PackageRoot(packages, package, manifest) ==
  CASE package.root # "" -> package.root
    [] package.root = "" /\ Len(packages) = 1 -> IF manifest.ofPackage THEN manifest.directory ELSE "."
    [] OTHER -> NoRoot

RunTargetCwd(packages, ref, manifest) ==
  IF ref.target.cwd = "package" THEN PackageRoot(packages, ref.package, manifest) ELSE "."

ResolveRuntime(target, workspaceRuntime) ==
  CASE target.runtime # "" -> target.runtime
    [] target.runtime = "" /\ workspaceRuntime # "" -> workspaceRuntime
    [] OTHER -> "nodejs"

UsesNode(runtime) == runtime \in {"node", "nodejs"}

-----------------------------------------------------------------------------
(* The environment: the project's tools first on the PATH of a node target,      *)
(* what --env gives, and the defaults of what the target declares.               *)
ToolBinDirs(packageRoot) ==
  IF packageRoot \in {NoRoot, "."} THEN <<".">> ELSE <<packageRoot, ".">>

PrependToolBins(env, dirs) ==
  LET paths == SelectSeq(env, LAMBDA e : IsPathKey(e[1]))
      before == [i \in DOMAIN dirs |-> <<"dir", dirs[i]>>]
      path == IF paths = <<>> THEN << <<"PATH", "upper">>, before>>
              ELSE <<Last(paths)[1], before \o Last(paths)[2]>>
  IN Append(SelectSeq(env, LAMBDA e : ~IsPathKey(e[1])), path)

(* WithAssignment: the last value given for a key, at its first place.           *)
Assignments(given) ==
  LET once == FoldLeft(LAMBDA keys, e : IF Contains(keys, e[1]) THEN keys ELSE Append(keys, e[1]), <<>>, given)
  IN [i \in DOMAIN once |-> Last(SelectSeq(given, LAMBDA e : e[1] = once[i]))]

OverlayRunEnv(env, given) == SelectSeq(env, LAMBDA e : e[1] \notin Keys(given)) \o Assignments(given)

BuildRunCommandEnv(environ, runtime, packageRoot, given) ==
  OverlayRunEnv(IF UsesNode(runtime) THEN PrependToolBins(environ, ToolBinDirs(packageRoot)) ELSE environ, given)

ApplyEnvContract_Anew(windows, env, declared) ==
  env \o [i \in DOMAIN declared |-> <<declared[i].key, declared[i].value>>]

(* applyRunTargetEnvContract: a declared key that is there keeps its value.       *)
ApplyEnvContract(windows, env, declared) ==
  LET step(acc, d) ==
        IF ContractKey(windows, d.key) \in {ContractKey(windows, k) : k \in Keys(acc)} \/ d.value = NoDefault
        THEN acc ELSE Append(acc, <<d.key, d.value>>)
  IN FoldLeft(step, env, declared)

MissingEnv(windows, env, declared) ==
  {d \in ToSet(declared) :
     d.required /\ d.value = NoDefault
     /\ ContractKey(windows, d.key) \notin {ContractKey(windows, k) : k \in Keys(env)}}

(* runEnvMap: what a process started with env finds under a key.                 *)
ValueOf(windows, env, key) ==
  LET entries == SelectSeq(env, LAMBDA e : ContractKey(windows, e[1]) = ContractKey(windows, key))
  IN IF entries = <<>> THEN NoDefault ELSE Last(entries)[2]

-----------------------------------------------------------------------------
Secret(windows, target, key) ==
  \E d \in ToSet(target.env) : d.secret /\ ContractKey(windows, d.key) = ContractKey(windows, key)

(* interpolateRunReadyURL.                                                     *)
InterpolateReadyURL(windows, target, template, env) ==
  LET refusal(segment) ==
        CASE segment[1] = "open" -> "unclosed"
          [] segment[1] = "key" /\ Secret(windows, target, segment[2]) -> "secret"
          [] segment[1] = "key" /\ ~Secret(windows, target, segment[2])
             /\ ValueOf(windows, env, segment[2]) = NoDefault -> "missing"
          [] OTHER -> ""
      bad == SelectSeq(template, LAMBDA s : refusal(s) # "")
  IN IF bad # <<>> THEN Refusal(refusal(Head(bad)))
     ELSE [url |-> FlattenSeq([i \in DOMAIN template |->
                     IF template[i][1] = "key" THEN ValueOf(windows, env, template[i][2]) ELSE <<template[i]>>])]

(* prepareRunTargetForInvocation.  A machine is [windows, executables, environ],  *)
(* the executables by directory and the environment of tspack itself.            *)
Prepare(machine, target, packageRoot, given) ==
  LET base == BuildRunCommandEnv(machine.environ, target.runtime, packageRoot, given)
      env == ApplyEnvContract(machine.windows, base, target.env)
      url == IF target.ready = "http" THEN InterpolateReadyURL(machine.windows, target, target.url, env)
             ELSE [url |-> target.url]
  IN CASE MissingEnv(machine.windows, base, target.env) # {} -> Refusal("env missing")
       [] MissingEnv(machine.windows, base, target.env) = {} /\ IsRefused(url) -> url
       [] OTHER -> [env |-> env, url |-> url.url]

(* preflightRunTargetServices.                                                 *)
Preflight(target) == \A r \in ToSet(target.requires) : r.reachable \/ r.optional

(* What a shell finds along directories.                                       *)
Found(machine, dirs, name) ==
  LET having == SelectSeq(dirs, LAMBDA d : name \in machine.executables[d])
  IN IF having = <<>> THEN NoRoot ELSE Head(having)

PathOf(machine, env) ==
  LET value == ValueOf(machine.windows, env, <<"PATH", "upper">>)
  IN IF value = NoDefault THEN <<>> ELSE [i \in DOMAIN value |-> value[i][2]]

OnPath(machine, name) == Found(machine, PathOf(machine, machine.environ), name)

(* resolveRunTargetLaunchCommand and exec.Command: the tools of the project for a *)
(* node target, and otherwise the PATH of tspack itself.                         *)
Executable(target) == IF target.runtime \in {"bun", "deno"} THEN target.runtime ELSE target.command

LaunchCommand(machine, target, packageRoot) ==
  LET local == Found(machine, ToolBinDirs(packageRoot), Executable(target))
  IN IF UsesNode(target.runtime) /\ local # NoRoot THEN local ELSE OnPath(machine, Executable(target))

RuntimeIsThere(machine, target) ==
  CASE UsesNode(target.runtime) -> OnPath(machine, "node") # NoRoot
    [] target.runtime \in {"bun", "deno"} -> OnPath(machine, target.runtime) # NoRoot
    [] OTHER -> TRUE

(* launchRunTargetInDir up to cmd.Start, and what --preflight-only does.         *)
LaunchRunTarget(machine, target, packageRoot, given) ==
  LET prepared == Prepare(machine, target, packageRoot, given)
      command == LaunchCommand(machine, target, packageRoot)
  IN IF IsRefused(prepared) THEN prepared
     ELSE CASE ~RuntimeIsThere(machine, target) -> Refusal("no runtime")
            [] RuntimeIsThere(machine, target) /\ ~Preflight(target) -> Refusal("service")
            [] OTHER -> IF command = NoRoot THEN Refusal("no tool")
                        ELSE [env |-> prepared.env, url |-> prepared.url, from |-> command]

PreflightOnly(machine, target, packageRoot, given) ==
  LET prepared == Prepare(machine, target, packageRoot, given)
  IN IF ~IsRefused(prepared) /\ ~Preflight(target) THEN Refusal("service") ELSE prepared

(* runRunCommand, for a target that is not the compiler's own.                   *)
RunCommand(machine, packages, manifest, runtime, request, preflight) ==
  LET ref == SelectRunTarget(packages, request.package, request.target)
      target == [ref.target EXCEPT !.runtime = ResolveRuntime(ref.target, runtime)]
      root == PackageRoot(packages, ref.package, manifest)
  IN CASE IsRefused(ref) -> ref
       [] ~IsRefused(ref) /\ RunTargetCwd(packages, ref, manifest) = NoRoot -> Refusal("root unknown")
       [] OTHER -> IF preflight THEN PreflightOnly(machine, target, root, request.given)
                   ELSE LaunchRunTarget(machine, target, root, request.given)

(* resolveViteDevBackend: its URL is interpolated here and again when it is       *)
(* launched; a proxy route without a target goes where the URL points now.       *)
ViteDevBackend(machine, target, packageRoot, given) ==
  LET prepared == Prepare(machine, target, packageRoot, given)
  IN IF IsRefused(prepared) THEN prepared ELSE [target |-> [target EXCEPT !.url = prepared.url], proxy |-> prepared.url]

-----------------------------------------------------------------------------
(* A target named with its package is that target of that package; one named      *)
(* without it is the same one or ambiguous; and no name is never a guess: it      *)
(* means dev or the only target (docs/run.md).                                 *)
SelectionIsSound(packages) ==
  /\ \A i, j \in DOMAIN packages : packages[i].name = packages[j].name => i = j
  /\ \A i \in DOMAIN packages : \A j, k \in DOMAIN packages[i].runTargets :
       packages[i].runTargets[j].name = packages[i].runTargets[k].name => j = k
  => /\ \A ref \in ToSet(Refs(packages)) :
          LET whole == SelectRunTarget(packages, "", ref.target.name)
          IN /\ SelectRunTarget(packages, ref.package.name, ref.target.name) = ref
             /\ IF IsRefused(whole) THEN Len(Named(Refs(packages), ref.target.name)) > 1 ELSE whole = ref
     /\ \A package \in {""} \cup {p.name : p \in ToSet(packages)} :
          LET dev == Chosen(packages, package, "dev") IN ~IsRefused(dev) => package \in {"", dev.package.name}
     /\ \A package \in {""} \cup {p.name : p \in ToSet(packages)} :
          LET implied == SelectRunTarget(packages, package, "")
              asked == {r \in ToSet(Refs(packages)) : package \in {"", r.package.name}}
              devs == {r \in asked : r.target.name = "dev"}
              meant == IF devs = {} THEN asked ELSE devs
          IN IF IsRefused(implied) THEN Cardinality(meant) # 1 ELSE meant = {implied}

(* A target that passes its preflight is refused by the launch only when an       *)
(* executable is missing, one that fails it is never launched, and both see one   *)
(* environment: in it every declared key has the value the user gave, else that   *)
(* of the process, else the first default, each required one is there, and the URL       *)
(* waited for tells no secret.  With one PATH in the process and none in --env,   *)
(* the executable is the one its own PATH leads to.                              *)
FirstOf(values) ==
  LET there == SelectSeq(values, LAMBDA v : v # NoDefault)
  IN IF there = <<>> THEN NoDefault ELSE Head(there)

Defaults(windows, target, key) ==
  LET same == SelectSeq(target.env, LAMBDA d : ContractKey(windows, d.key) = ContractKey(windows, key))
  IN [i \in DOMAIN same |-> same[i].value]

LaunchKeepsPreflight(machine, packages, manifest, runtime, request) ==
  LET passed == RunCommand(machine, packages, manifest, runtime, request, TRUE)
      launched == RunCommand(machine, packages, manifest, runtime, request, FALSE)
      authored == SelectRunTarget(packages, request.package, request.target).target
      target == [authored EXCEPT !.runtime = ResolveRuntime(authored, runtime)]
      value(env, key) == ValueOf(machine.windows, env, key)
      onePath == /\ Len(SelectSeq(machine.environ, LAMBDA e : IsPathKey(e[1]))) = 1
                 /\ PathOf(machine, machine.environ) # <<>>
                 /\ ~\E k \in Keys(request.given) : IsPathKey(k)
  IN IF IsRefused(launched) THEN launched = passed \/ launched.refused \in {"no runtime", "no tool"}
     ELSE /\ ~IsRefused(passed) /\ launched.env = passed.env /\ launched.url = passed.url
          /\ \A d \in ToSet(target.env) :
               /\ d.required => value(launched.env, d.key) # NoDefault
               /\ ~IsPathKey(d.key) =>
                    value(launched.env, d.key)
                      = FirstOf(<<value(request.given, d.key), value(machine.environ, d.key)>> \o Defaults(machine.windows, target, d.key))
          /\ target.ready = "http" => ~\E s \in ToSet(target.url) : s[1] = "key" /\ Secret(machine.windows, target, s[2])
          /\ onePath => launched.from = Found(machine, PathOf(machine, launched.env), Executable(target))

(* The frontend proxies to the URL whose readiness the backend is waited for,     *)
(* when no value holds a placeholder of its own.                                *)
ProxyIsTheBackend(machine, target, packageRoot, given) ==
  LET backend == ViteDevBackend(machine, target, packageRoot, given)
      launched == LaunchRunTarget(machine, backend.target, packageRoot, given)
  IN ~IsRefused(backend) /\ (\A s \in ToSet(backend.proxy) : s[1] \notin {"key", "open"}) /\ ~IsRefused(launched) =>
       launched.url = backend.proxy

-----------------------------------------------------------------------------
(* The processes of a run. *)

CONSTANTS
  Requests,      \* [kind, ready, once, owned, foreign]: finite, server or dev;
                 \* ready by listener or output; --once; whether the project's
                 \* backend is started by tspack; whether another process
                 \* answers at the address that is polled
  MayInterrupt   \* whether Ctrl+C may be pressed

ASSUME RequestAssumption ==
  \A r \in Requests : /\ r.kind \in {"finite", "server", "dev"}
                      /\ r.ready \in {"listener", "output"}
                      /\ {r.once, r.owned, r.foreign} \subseteq BOOLEAN
                      /\ r.ready = "output" => ~r.foreign

VARIABLES
  request,
  root,       \* the root of each session
  helpers,    \* whether other processes of its group are alive
  sent,       \* the strongest signal its group was sent
  shows,      \* whether it has shown that it is ready
  matched,    \* whether the copying goroutine has seen it
  waitDone,   \* whether waitDone is closed
  pc,         \* where the command is
  at,         \* the session it is starting or stopping
  notified,   \* whether signals are delivered to the second goroutine
  signalled,  \* whether it has one
  stopper,    \* where the second goroutine is in Stop
  code        \* the exit code

groupVars == <<root, helpers, sent, shows, matched, waitDone>>
sessionVars == <<request, groupVars, pc, at, notified, signalled, stopper, code>>

Sessions == {"backend", "target"}
Ended == {"zero", "nonzero"}

SessionInit ==
  /\ request \in Requests
  /\ root = [s \in Sessions |-> "none"]
  /\ helpers = [s \in Sessions |-> FALSE]
  /\ sent = [s \in Sessions |-> "none"]
  /\ shows = [s \in Sessions |-> FALSE]
  /\ matched = [s \in Sessions |-> FALSE]
  /\ waitDone = [s \in Sessions |-> FALSE]
  /\ pc = "launch"
  /\ at = IF request.kind = "dev" /\ request.owned THEN "backend" ELSE "target"
  /\ notified = FALSE
  /\ signalled = FALSE
  /\ stopper = "idle"
  /\ code = 0

Over == pc \in {"returned", "killed"}
Alive(s) == root[s] = "running" \/ helpers[s]

Proceed(place) == pc' = place /\ UNCHANGED code
Return(status) == pc' = "returned" /\ code' = status

-----------------------------------------------------------------------------
(* The processes.                                                          *)
Show(s) ==
  /\ root[s] = "running" /\ ~shows[s]
  /\ shows' = [shows EXCEPT ![s] = TRUE]
  /\ UNCHANGED <<request, root, helpers, sent, matched, waitDone, pc, at, notified, signalled, stopper, code>>

(* The root exits by itself, or by a signal.                                 *)
Exit(s) ==
  /\ root[s] = "running"
  /\ \E status \in IF sent[s] = "kill" THEN {"nonzero"} ELSE Ended : root' = [root EXCEPT ![s] = status]
  /\ UNCHANGED <<request, helpers, sent, shows, matched, waitDone, pc, at, notified, signalled, stopper, code>>

HelpersExit(s) ==
  /\ helpers[s]
  /\ helpers' = [helpers EXCEPT ![s] = FALSE]
  /\ UNCHANGED <<request, root, sent, shows, matched, waitDone, pc, at, notified, signalled, stopper, code>>

(* copyOutputPipe and cmd.Wait, which closes the pipe: what the process had   *)
(* written and the copy had not read is never seen.                          *)
Observe(s) ==
  /\ ~Over
  /\ request.ready = "output" /\ shows[s] /\ ~waitDone[s] /\ ~matched[s]
  /\ matched' = [matched EXCEPT ![s] = TRUE]
  /\ UNCHANGED <<request, root, helpers, sent, shows, waitDone, pc, at, notified, signalled, stopper, code>>

Reap(s) ==
  /\ ~Over
  /\ root[s] \in Ended /\ ~waitDone[s]
  /\ waitDone' = [waitDone EXCEPT ![s] = TRUE]
  /\ UNCHANGED <<request, root, helpers, sent, shows, matched, pc, at, notified, signalled, stopper, code>>

Signal(s, signal) == sent' = [sent EXCEPT ![s] = IF @ = "kill" THEN @ ELSE signal]

Close_Nothing(s) == UNCHANGED sent

(* closeCleanupHandle: a second call finds the group killed.                 *)
Close(s) == Signal(s, "kill")

-----------------------------------------------------------------------------
(* launchRunTargetInDir, preflights included, and what a failed launch means  *)
(* to the command.  tryRunCopelandViteDev assigns the backend's session to a  *)
(* variable of an inner block, so that the backend it stops is none.          *)
Launch ==
  /\ pc = "launch"
  /\ \/ /\ Return(1)
        /\ UNCHANGED groupVars
     \/ /\ root' = [root EXCEPT ![at] = "running"]
        /\ \E started \in BOOLEAN : helpers' = [helpers EXCEPT ![at] = started]
        /\ Proceed(IF request.kind = "finite" THEN "wait" ELSE "ready")
        /\ UNCHANGED <<sent, shows, matched, waitDone>>
  /\ UNCHANGED <<request, at, notified, signalled, stopper>>

(* What readyCheck.ready() answers now: a listener also after its target has  *)
(* exited, if another process has the address or one of the group still has.  *)
Responds(s) ==
  IF request.ready = "output" THEN matched[s]
  ELSE request.foreign \/ (shows[s] /\ Alive(s))

(* A poll may also fail where the next one would not.                        *)
Denies(s) == request.ready = "listener" \/ ~Responds(s)

BecomesReady ==
  /\ pc = "ready" /\ Responds(at)
  /\ IF at = "backend" THEN at' = "target" /\ Proceed("launch") /\ UNCHANGED notified
     ELSE /\ Proceed(IF request.once THEN "stop" ELSE "wait")
          /\ notified' = ~request.once
          /\ UNCHANGED at
  /\ UNCHANGED <<request, groupVars, signalled, stopper>>

ExitsEarly ==
  /\ pc = "ready" /\ Denies(at) /\ waitDone[at]
  /\ Close(at)
  /\ Return(1)
  /\ UNCHANGED <<request, root, helpers, shows, matched, waitDone, at, notified, signalled, stopper>>

ReadyTimesOut ==
  /\ pc = "ready" /\ Denies(at) /\ ~waitDone[at]
  /\ Proceed("giveUp")
  /\ UNCHANGED <<request, groupVars, at, notified, signalled, stopper>>

-----------------------------------------------------------------------------
(* Stop, by the command after --once or a timeout and by the second goroutine *)
(* after Ctrl+C: SIGTERM, SIGKILL two seconds later, five more to exit.       *)
Phase(here) == IF here = "stopper" THEN stopper ELSE pc
Enter(here, phase) ==
  IF here = "stopper" THEN stopper' = phase /\ UNCHANGED <<pc, code>>
  ELSE Proceed(phase) /\ UNCHANGED stopper

Begins(here) ==
  /\ IF here = "stopper" THEN signalled /\ stopper = "idle" ELSE pc \in {"stop", "giveUp"}
  /\ Signal(at, "term")
  /\ Enter(here, IF pc = "giveUp" THEN "termGivingUp" ELSE "term")
  /\ UNCHANGED <<request, root, helpers, shows, matched, waitDone, at, notified, signalled>>

Terminating == {"term", "termGivingUp"}
Killing == {"kill", "killGivingUp"}
After(phase) == IF phase = "term" THEN "kill" ELSE "killGivingUp"

Escalates_Never(here) ==
  /\ Phase(here) \in Terminating /\ ~waitDone[at]
  /\ Enter(here, After(Phase(here)))
  /\ UNCHANGED <<request, groupVars, at, notified, signalled>>

Escalates(here) ==
  /\ Phase(here) \in Terminating /\ ~waitDone[at]
  /\ Signal(at, "kill")
  /\ Enter(here, After(Phase(here)))
  /\ UNCHANGED <<request, root, helpers, shows, matched, waitDone, at, notified, signalled>>

StopStatus(here) == IF Phase(here) \in {"termGivingUp", "killGivingUp"} THEN 1 ELSE 0

StopEnds(here) ==
  /\ Phase(here) \in Terminating \cup Killing /\ waitDone[at]
  /\ Close(at)
  /\ IF here = "stopper" THEN stopper' = "ended" /\ UNCHANGED <<pc, code>>
     ELSE Return(StopStatus(here)) /\ UNCHANGED stopper
  /\ UNCHANGED <<request, root, helpers, shows, matched, waitDone, at, notified, signalled>>

StopTimesOut(here) ==
  /\ Phase(here) \in Killing /\ ~waitDone[at]
  /\ IF here = "stopper" THEN stopper' = "ended" /\ UNCHANGED <<pc, code>>
     ELSE Return(1) /\ UNCHANGED stopper
  /\ UNCHANGED <<request, groupVars, at, notified, signalled>>

(* The command after its target has exited.                                 *)
TargetExited ==
  /\ pc = "wait" /\ waitDone["target"]
  /\ Close("target")
  /\ Return(IF root["target"] = "zero" THEN 0 ELSE 1)
  /\ UNCHANGED <<request, root, helpers, shows, matched, waitDone, at, notified, signalled, stopper>>

-----------------------------------------------------------------------------
(* Ctrl+C reaches the second goroutine, or ends tspack and leaves the groups. *)
Interrupt ==
  /\ MayInterrupt /\ ~Over /\ ~signalled
  /\ signalled' = TRUE
  /\ IF notified THEN UNCHANGED pc ELSE pc' = "killed"
  /\ UNCHANGED <<request, groupVars, at, notified, stopper, code>>

Command ==
  \/ Launch \/ BecomesReady \/ ExitsEarly \/ ReadyTimesOut \/ TargetExited
  \/ Begins("command") \/ Escalates("command") \/ StopEnds("command") \/ StopTimesOut("command")

Stopper ==
  /\ ~Over
  /\ Begins("stopper") \/ Escalates("stopper") \/ StopEnds("stopper") \/ StopTimesOut("stopper")

SessionNext ==
  \/ Command \/ Stopper \/ Interrupt
  \/ \E s \in Sessions : Show(s) \/ Exit(s) \/ HelpersExit(s) \/ Observe(s) \/ Reap(s)

(* tspack runs, a killed group dies and is reaped; no process has to show     *)
(* anything, exit by itself or heed SIGTERM.                                  *)
SessionSpec == SessionInit /\ [][SessionNext]_sessionVars
FairSpec ==
  /\ SessionSpec
  /\ WF_sessionVars(Command) /\ WF_sessionVars(Stopper)
  /\ \A s \in Sessions : WF_sessionVars(Reap(s)) /\ WF_sessionVars(sent[s] = "kill" /\ Exit(s))

-----------------------------------------------------------------------------
(* Properties.                                                             *)
SessionTypeOK ==
  /\ request \in Requests
  /\ root \in [Sessions -> {"none", "running"} \cup Ended]
  /\ {helpers[s] : s \in Sessions} \cup {shows[s] : s \in Sessions} \subseteq BOOLEAN
  /\ sent \in [Sessions -> {"none", "term", "kill"}]
  /\ at \in Sessions
  /\ stopper \in {"idle", "ended"} \cup Terminating \cup Killing
  /\ code \in {0, 1}

Survives(s) == Alive(s) /\ sent[s] # "kill"

(* However the target ends or is stopped, by whichever goroutine, and         *)
(* whatever it started itself, its whole group has been killed when the       *)
(* command returns.                                                          *)
TargetIsStopped == pc = "returned" => ~Survives("target")

(* "child cleanup | TSPack | canonical" (docs/vite-dev-m0.md:108): nothing a     *)
(* session started outlives it, the backend of a development server included.  *)
NothingSurvives == pc = "returned" => \A s \in Sessions : ~Survives(s)

(* --once ends, and so does a server after Ctrl+C.                            *)
CommandEnds == (request.once /\ request.kind # "finite") \/ signalled ~> Over

=============================================================================
