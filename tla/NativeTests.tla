----------------------------- MODULE NativeTests -----------------------------
(***************************************************************************)
(* The native test runner (manifest-frontend/src/native-test): workers claim *)
(* test files, and run the tests of a file one after another, each in a race *)
(* with its timeout and in its own activity context.                          *)
(*                                                                         *)
(* One thread runs everything; an action is what happens between two awaits. *)
(* The body of a test is the environment: it asserts, opens and completes     *)
(* expectation chains, writes its artifact and its sandbox, skips, throws,     *)
(* returns, or does nothing for ever.  The race does not stop it: a body      *)
(* that lost goes on until the process exits.                                *)
(*                                                                         *)
(* FileTests[f] is the tests of file f that the filter selects, in their      *)
(* order; a test is a record                                                 *)
(*   typed     it holds a type assertion, which may fail                     *)
(*   project   it declares a Project, keep its keepOnFailure                  *)
(*   required  it declares an artifact that is not optional                   *)
(*   acts      the most operations its body does, a bound of the model         *)
(* Callbacks are the files whose module started a callback of its own, which  *)
(* runs in no test's context.                                                *)
(***************************************************************************)
EXTENDS Integers, Sequences, FiniteSets, FiniteSetsExt

CONSTANTS FileTests, Callbacks, Parallelism, MaxWrites

Files == DOMAIN FileTests
Tests == UNION {{<<f, i>> : i \in DOMAIN FileTests[f]} : f \in Files}
TestDecl == [typed : BOOLEAN, project : BOOLEAN, keep : BOOLEAN, required : BOOLEAN, acts : Nat]

ASSUME TestAssumption == /\ FileTests \in Seq(Seq(TestDecl))
                         /\ Callbacks \subseteq Files /\ MaxWrites \in Nat

(* At most eight workers, and never more than files (a run without --batch   *)
(* has one): Parallelism is the number of processors, or 1.                   *)
ChooseBatchWorkerCount(files, available) == Min({available, 8, files})

Workers == 1 .. ChooseBatchWorkerCount(Len(FileTests), Parallelism)
NoTest == <<0, 0>>
Callback(f) == <<0, f>>      (* the strand of a callback of file f's module *)
(* What runFile returns: the tests whose type assertions failed, which come   *)
(* first, and the results of runSuite.                                       *)
NoResults == [types |-> {}, suite |-> <<>>]
NoReport == [results |-> [f \in Files |-> NoResults], exit |-> 2]

Decl(t) == FileTests[t[1]][t[2]]

VARIABLES
  worker,     (* per worker: [file, test, at, verdict] *)
  nextFile,   (* nextFileIndex *)
  ran,        (* per file: the results runSuite has so far *)
  results,    (* per file: the results it reports *)
  blocked,    (* tests with a failed type assertion *)
  broken,     (* files with TSPACK_TEST_MODULE_LOAD_FAILED *)
  body,       (* per test: unborn, live, returned, threw, skipped *)
  race,       (* per test: none, body, timeout *)
  ops,        (* per test: the operations its live body did *)
  open,       (* per test: the tokens of its pending scope *)
  credited,   (* per test: the strand whose activity its tracker counted first *)
  writing,    (* per test: artifact writes between the check and the mark *)
  written,    (* per test: artifact.written *)
  sandbox,    (* per test: none, filling, there, gone *)
  fallback,   (* fallbackTracker: a test or NoTest *)
  report      (* what the process prints and exits with *)

bodyVars == <<body, ops, open, credited, writing, written>>
vars == <<worker, nextFile, ran, results, blocked, broken, body, race, ops, open, credited,
          writing, written, sandbox, fallback, report>>

Idle == [file |-> 0, test |-> NoTest, at |-> "idle", verdict |-> ""]

Init ==
  /\ worker = [w \in Workers |-> Idle]
  /\ nextFile = 1
  /\ ran = [f \in Files |-> <<>>] /\ results = [f \in Files |-> NoResults]
  /\ blocked = {} /\ broken = {}
  /\ body = [t \in Tests |-> "unborn"]
  /\ race = [t \in Tests |-> "none"]
  /\ ops = [t \in Tests |-> 0] /\ open = [t \in Tests |-> 0]
  /\ credited = [t \in Tests |-> NoTest]
  /\ writing = [t \in Tests |-> 0] /\ written = [t \in Tests |-> FALSE]
  /\ sandbox = [t \in Tests |-> "none"]
  /\ fallback = NoTest
  /\ report = NoReport

-----------------------------------------------------------------------------
(* A worker of runNativeTestFilesInBatch; a single one is the serial loop of *)
(* runNativeTestFiles.                                                       *)
Result(t, status) == [test |-> t, status |-> status]

ClaimFile(w) ==
  /\ worker[w].at = "idle" /\ nextFile \in Files
  /\ worker' = [worker EXCEPT ![w] = [Idle EXCEPT !.file = nextFile, !.at = "loading"]]
  /\ nextFile' = nextFile + 1
  /\ UNCHANGED <<ran, results, blocked, broken, bodyVars, race, sandbox, fallback, report>>

(* The failures of the type assertions come first, and block their tests. *)
Typed(f) == {t \in Tests : t[1] = f /\ Decl(t).typed}

Loaded(w) ==
  LET f == worker[w].file IN
  /\ worker[w].at = "loading"
  /\ \E failed \in SUBSET Typed(f) :
       /\ results' = [results EXCEPT ![f] = [NoResults EXCEPT !.types = failed]]
       /\ blocked' = blocked \cup failed
  /\ worker' = [worker EXCEPT ![w].at = "suite", ![w].test = <<f, 0>>]
  /\ UNCHANGED <<nextFile, ran, broken, bodyVars, race, sandbox, fallback, report>>

Breaks(w, kept) ==
  /\ results' = [results EXCEPT ![worker[w].file] = kept]
  /\ broken' = broken \cup {worker[w].file}
  /\ worker' = [worker EXCEPT ![w] = Idle]

(* The type check, the import of the module or its top level fails. *)
LoadFails(w) ==
  /\ worker[w].at = "loading"
  /\ \E failed \in SUBSET Typed(worker[w].file) : Breaks(w, [NoResults EXCEPT !.types = failed])
  /\ UNCHANGED <<nextFile, ran, blocked, bodyVars, race, sandbox, fallback, report>>

-----------------------------------------------------------------------------
(* runSuite and runSingle. *)
Following(t) == <<t[1], t[2] + 1>>

(* shouldRun leaves a blocked test out. *)
SkipsBlocked(w) ==
  /\ worker[w].at = "suite" /\ Following(worker[w].test) \in blocked
  /\ worker' = [worker EXCEPT ![w].test = Following(@)]
  /\ UNCHANGED <<nextFile, ran, results, blocked, broken, bodyVars, race, sandbox, fallback, report>>

StartTest(w) ==
  LET t == Following(worker[w].test)
      fills == Decl(t).project
  IN /\ worker[w].at = "suite" /\ t \in Tests \ blocked
     /\ worker' = [worker EXCEPT ![w].test = t, ![w].at = IF fills THEN "filling" ELSE "racing"]
     /\ sandbox' = IF fills THEN [sandbox EXCEPT ![t] = "filling"] ELSE sandbox
     /\ body' = IF fills THEN body ELSE [body EXCEPT ![t] = "live"]
     /\ fallback' = t
     /\ UNCHANGED <<nextFile, ran, results, blocked, broken, race, ops, open, credited, writing, written, report>>

EndSuite(w) ==
  LET f == worker[w].file IN
  /\ worker[w].at = "suite" /\ Following(worker[w].test) \notin Tests
  /\ results' = [results EXCEPT ![f].suite = ran[f]]
  /\ worker' = [worker EXCEPT ![w] = Idle]
  /\ UNCHANGED <<nextFile, ran, blocked, broken, bodyVars, race, sandbox, fallback, report>>

(* The return of runSingle, and its finally. *)
Conclude(w, status) ==
  /\ ran' = [ran EXCEPT ![worker[w].file] = Append(@, Result(worker[w].test, status))]
  /\ worker' = [worker EXCEPT ![w].at = "suite", ![w].verdict = ""]
  /\ fallback' = NoTest

(* createProjectContext; rootPath is only known once the copy is whole. *)
ProjectReady(w) ==
  LET t == worker[w].test IN
  /\ worker[w].at = "filling"
  /\ sandbox' = [sandbox EXCEPT ![t] = "there"]
  /\ body' = [body EXCEPT ![t] = "live"]
  /\ worker' = [worker EXCEPT ![w].at = "racing"]
  /\ UNCHANGED <<nextFile, ran, results, blocked, broken, race, ops, open, credited, writing, written, fallback, report>>

ProjectFails(w) ==
  /\ worker[w].at = "filling"
  /\ Conclude(w, "failed")
  /\ UNCHANGED <<nextFile, results, blocked, broken, bodyVars, race, sandbox, report>>

(* The promise of the body, or the timer, settles the race (withTimeout). *)
BodyWins(w) ==
  LET t == worker[w].test IN
  /\ worker[w].at = "racing" /\ body[t] # "live"
  /\ race' = [race EXCEPT ![t] = "body"]
  /\ worker' = [worker EXCEPT ![w].at = "judging"]
  /\ UNCHANGED <<nextFile, ran, results, blocked, broken, bodyVars, sandbox, fallback, report>>

TimesOut(w) ==
  /\ worker[w].at = "racing"
  /\ race' = [race EXCEPT ![worker[w].test] = "timeout"]
  /\ worker' = [worker EXCEPT ![w].at = "judging"]
  /\ UNCHANGED <<nextFile, ran, results, blocked, broken, bodyVars, sandbox, fallback, report>>

(* What the test comes to before its sandbox is removed. *)
Earned(t) ==
  /\ open[t] = 0
  /\ Decl(t).required => written[t]
  /\ credited[t] # NoTest

Status(t) ==
  CASE race[t] = "timeout" -> "failed"
    [] race[t] = "body" /\ body[t] = "skipped" -> "skipped"
    [] race[t] = "body" /\ body[t] = "threw" -> "failed"
    [] race[t] = "body" /\ body[t] = "returned" -> IF Earned(t) THEN "passed" ELSE "failed"

Removes(t, status) == Decl(t).project /\ (status = "failed" => ~Decl(t).keep)

(* verifyNoPendingExpectations and the skip clear the scope; after a failure *)
(* nobody looks into it any more.                                            *)
Judge(w) ==
  LET t == worker[w].test
      status == Status(t)
  IN /\ worker[w].at = "judging"
     /\ open' = [open EXCEPT ![t] = 0]
     /\ IF Removes(t, status)
        THEN /\ worker' = [worker EXCEPT ![w].at = "removing", ![w].verdict = status]
             /\ UNCHANGED <<ran, fallback>>
        ELSE Conclude(w, status)
     /\ UNCHANGED <<nextFile, results, blocked, broken, body, race, ops, credited, writing, written, sandbox, report>>

Removed(w) ==
  /\ worker[w].at = "removing"
  /\ sandbox' = [sandbox EXCEPT ![worker[w].test] = "gone"]
  /\ Conclude(w, worker[w].verdict)
  /\ UNCHANGED <<nextFile, results, blocked, broken, bodyVars, race, report>>

(* rm fails: in the try, the catch takes over and may remove once more; in  *)
(* the catch, runSingle throws and takes runSuite with it.                   *)
RemoveFails(w) ==
  LET t == worker[w].test IN
  /\ worker[w].at = "removing"
  /\ IF worker[w].verdict = "passed"
     THEN /\ IF Decl(t).keep THEN Conclude(w, "failed")
             ELSE worker' = [worker EXCEPT ![w].verdict = "failed"] /\ UNCHANGED <<ran, fallback>>
          /\ UNCHANGED <<results, broken>>
     ELSE /\ Breaks(w, results[worker[w].file])
          /\ fallback' = NoTest
          /\ UNCHANGED ran
  /\ UNCHANGED <<nextFile, blocked, bodyVars, race, sandbox, report>>

-----------------------------------------------------------------------------
(* What a body does.  Its strand keeps the contexts it was started with; a   *)
(* strand without one gets the fallback (currentTracker).                    *)
CurrentTracker_Fallback(own) == fallback
CurrentTracker(own) == IF own # NoTest THEN own ELSE fallback

Credit(strand, own) ==
  credited' = LET t == CurrentTracker(own) IN
              IF t = NoTest \/ credited[t] # NoTest THEN credited
              ELSE [credited EXCEPT ![t] = strand]

Acts(t) == report = NoReport /\ body[t] = "live" /\ ops[t] < Decl(t).acts
Counted(t) == ops' = [ops EXCEPT ![t] = IF body'[t] = "live" THEN @ + 1 ELSE 0]
Around == <<worker, nextFile, ran, results, blocked, broken, race, fallback, report>>

(* assert.* is counted before it looks whether it holds, and so is because:  *)
(* one that does not is followed by the throw (Ends).                        *)
Asserts(t) ==
  /\ Acts(t) /\ Credit(t, t)
  /\ UNCHANGED <<Around, body, open, writing, written, sandbox>>
  /\ Counted(t)

Expect(t) ==
  /\ Acts(t)
  /\ open' = [open EXCEPT ![t] = @ + 1]
  /\ UNCHANGED <<Around, body, credited, writing, written, sandbox>>
  /\ Counted(t)

Because(t) ==
  /\ Acts(t) /\ Credit(t, t) /\ open[t] > 0
  /\ open' = [open EXCEPT ![t] = @ - 1]
  /\ UNCHANGED <<Around, body, writing, written, sandbox>>
  /\ Counted(t)

Skip(t) ==
  /\ Acts(t) /\ Credit(t, t)
  /\ body' = [body EXCEPT ![t] = "skipped"]
  /\ Counted(t)
  /\ UNCHANGED <<Around, open, writing, written, sandbox>>

Ends(t, how) ==
  /\ report = NoReport /\ body[t] = "live"
  /\ body' = [body EXCEPT ![t] = how]
  /\ Counted(t)
  /\ UNCHANGED <<Around, open, credited, writing, written, sandbox>>

(* writeCommon: `written` is looked at before the awaits and set after them; *)
(* a body need not wait for it.  MaxWrites bounds the writes under way; one   *)
(* to an artifact that is not declared is an Ends.                           *)
WriteArtifact(t) ==
  /\ Acts(t) /\ Decl(t).required /\ writing[t] < MaxWrites
  /\ IF written[t] THEN body' = [body EXCEPT ![t] = "threw"] /\ UNCHANGED writing
     ELSE writing' = [writing EXCEPT ![t] = @ + 1] /\ UNCHANGED body
  /\ Counted(t)
  /\ UNCHANGED <<Around, open, credited, written, sandbox>>

ArtifactWritten(t, well) ==
  /\ report = NoReport /\ writing[t] > 0
  /\ writing' = [writing EXCEPT ![t] = @ - 1]
  /\ written' = [written EXCEPT ![t] = @ \/ well]
  /\ UNCHANGED <<Around, body, ops, open, credited, sandbox>>

(* writeProjectFile makes the directories it needs. *)
WriteProjectFile(t) ==
  /\ Acts(t) /\ Decl(t).project
  /\ sandbox' = [sandbox EXCEPT ![t] = "there"]
  /\ UNCHANGED <<Around, body, open, credited, writing, written>>
  /\ Counted(t)

(* A callback the module of a file started asserts. *)
ModuleCallback(f) ==
  /\ report = NoReport /\ f \in Callbacks /\ f < nextFile /\ fallback # NoTest
  /\ Credit(Callback(f), NoTest)
  /\ UNCHANGED <<Around, body, ops, open, writing, written, sandbox>>

BodyStep(t) ==
  \/ Asserts(t) \/ Because(t) \/ Expect(t) \/ Skip(t) \/ WriteProjectFile(t)
  \/ WriteArtifact(t) \/ \E well \in BOOLEAN : ArtifactWritten(t, well)
  \/ \E how \in {"returned", "threw"} : Ends(t, how)

-----------------------------------------------------------------------------
(* The report, when every worker is over: results in the order of the files, *)
(* exit code by nativeTestExitCode; process.exit ends the bodies still alive. *)
Failed(f) == \/ results[f].types # {}
             \/ \E i \in DOMAIN results[f].suite : results[f].suite[i].status = "failed"
ExitCode == IF broken # {} \/ \E f \in Files : Failed(f) THEN 1 ELSE 0

Report ==
  /\ report = NoReport
  /\ nextFile \notin Files /\ \A w \in Workers : worker[w].at = "idle"
  /\ report' = [results |-> results, exit |-> ExitCode]
  /\ UNCHANGED <<worker, nextFile, ran, results, blocked, broken, bodyVars, race, sandbox, fallback>>

Harness(w) ==
  \/ ClaimFile(w) \/ Loaded(w) \/ LoadFails(w)
  \/ SkipsBlocked(w) \/ StartTest(w) \/ EndSuite(w)
  \/ ProjectReady(w) \/ ProjectFails(w)
  \/ BodyWins(w) \/ TimesOut(w)
  \/ Judge(w) \/ Removed(w) \/ RemoveFails(w)

Next ==
  \/ \E w \in Workers : Harness(w)
  \/ \E t \in Tests : BodyStep(t)
  \/ \E f \in Files : ModuleCallback(f)
  \/ Report

(* The event loop runs what is ready: every step of a worker, which includes *)
(* its timers, and the report.  Nothing is assumed of a body.                 *)
Fairness == WF_vars(Report) /\ \A w \in Workers : WF_vars(Harness(w))

Spec == Init /\ [][Next]_vars /\ Fairness

-----------------------------------------------------------------------------
Outcomes == UNION {{ran[f][i] : i \in DOMAIN ran[f]} : f \in Files}

(* A callback that a module started for itself runs in no test's context: what *)
(* it asserts is counted for the test that started last, of whichever file.   *)
Overheard(t) == \E f \in Callbacks : credited[t] = Callback(f)

(* A test that is reported as passed ran to its end within its time, left no *)
(* expectation without its because, wrote what it has to, and did something   *)
(* meaningful of its own: what another test does counts for it at no time,    *)
(* while both run or after the other's timeout (activity.ts, expect.ts;       *)
(* docs/native-test-harness.md, meaningful-action requirement).  Left out: a   *)
(* test that a module's callback is counted for (Overheard).                  *)
PassedIsEarned ==
  \A t \in Tests : Result(t, "passed") \in Outcomes =>
    /\ race[t] = "body" /\ body[t] = "returned" /\ open[t] = 0
    /\ Decl(t).required => written[t]
    /\ credited[t] = t \/ Overheard(t)

(* A sandbox outlives its test only where the test failed and keeps it, its  *)
(* fixture could not be copied, its removal failed and broke the file, or its *)
(* body went on after the timeout (runSingle's paths to fs.rm).               *)
SandboxIsAccountedFor ==
  \A t \in Tests : \A status \in {"passed", "skipped", "failed"} :
    Result(t, status) \in Outcomes /\ sandbox[t] \in {"filling", "there"} =>
      /\ status = "failed"
      /\ Decl(t).keep \/ body[t] = "unborn" \/ race[t] = "timeout"

(* An exit code of 0 says that every selected test is in the report once, in *)
(* the order of the files and of their tests, passed or skipped: whatever      *)
(* happens to a file, a test or a sandbox, no test goes missing silently.      *)
ReportIsComplete ==
  report.exit = 0 =>
    \A f \in Files : LET listed == report.results[f].suite IN
      /\ report.results[f].types = {}
      /\ DOMAIN listed = DOMAIN FileTests[f]
      /\ \A i \in DOMAIN listed : /\ listed[i].test = <<f, i>>
                                  /\ listed[i].status \in {"passed", "skipped"}

(* Every result in a report is one that the run can answer for.               *)
ReportIsEarned == PassedIsEarned /\ SandboxIsAccountedFor /\ ReportIsComplete

(* The run always comes to its report, whatever the bodies do. *)
Reports == <>(report # NoReport)

-----------------------------------------------------------------------------
(* tspack test --watch (internal/testcmd/watch.go): one loop polls the files  *)
(* of the root, gathers what changed until nothing did for a debounce time,    *)
(* and runs the tests, during which it does not poll.                          *)
(*                                                                         *)
(* stamp[f] stands for the modification time and size of a file, 0 when it     *)
(* does not exist; an edit always gives it a new one, of which there are       *)
(* MaxEdits.                                                                 *)

CONSTANTS WatchFiles, MaxEdits

VARIABLES
  stamp,      (* the files *)
  edits,
  previous,   (* watcher.previous *)
  pending,    (* pendingChanges *)
  armed,      (* debounceTimer # nil *)
  loop,       (* start, running, waiting, ended *)
  read,       (* files this run has read *)
  tested      (* per file: the stamp the last run that read it saw *)

wvars == <<stamp, edits, previous, pending, armed, loop, read, tested>>

Unknown == 0 - 1

WatchInit ==
  /\ stamp \in [WatchFiles -> {0, 1}]
  /\ edits = 0
  /\ previous = [f \in WatchFiles |-> Unknown]
  /\ pending = {} /\ armed = FALSE
  /\ loop = "start" /\ read = {}
  /\ tested = [f \in WatchFiles |-> Unknown]

(* Somebody saves, creates or removes a file. *)
Edit(f) ==
  /\ edits < MaxEdits
  /\ edits' = edits + 1
  /\ \/ stamp' = [stamp EXCEPT ![f] = edits + 2]
     \/ stamp[f] # 0 /\ stamp' = [stamp EXCEPT ![f] = 0]
  /\ UNCHANGED <<previous, pending, armed, loop, read, tested>>

(* NewWatcher: the baseline, before the first run. *)
Start ==
  /\ loop = "start"
  /\ previous' = stamp
  /\ loop' = "running" /\ read' = {}
  /\ UNCHANGED <<stamp, edits, pending, armed, tested>>

(* The run reads the files at its own pace. *)
RunReads(f) ==
  /\ loop = "running" /\ f \notin read
  /\ read' = read \cup {f}
  /\ tested' = [tested EXCEPT ![f] = stamp[f]]
  /\ UNCHANGED <<stamp, edits, previous, pending, armed, loop>>

Baseline_Refreshed == stamp
Baseline == previous

(* runOnce returns; diagnostics end the watch, a failing test does not. *)
RunEnds ==
  /\ loop = "running" /\ read = WatchFiles
  /\ loop' \in {"waiting", "ended"}
  /\ previous' = Baseline
  /\ UNCHANGED <<stamp, edits, pending, armed, read, tested>>

(* The ticker fires: Poll, and the debounce timer starts or starts again. *)
Changed == {f \in WatchFiles : previous[f] # stamp[f]}

(* The running timer is stopped and reset. *)
Rearmed_Stopped == ~armed
Rearmed == TRUE

Poll ==
  /\ loop = "waiting"
  /\ previous' = stamp
  /\ IF Changed = {} THEN UNCHANGED <<pending, armed>>
     ELSE pending' = pending \cup Changed /\ armed' = Rearmed
  /\ UNCHANGED <<stamp, edits, loop, read, tested>>

(* A file that vanishes under the walk is an error of the poll. *)
PollFails ==
  /\ loop = "waiting"
  /\ \E f \in WatchFiles : stamp[f] = 0 /\ previous[f] # 0
  /\ loop' = "ended"
  /\ UNCHANGED <<stamp, edits, previous, pending, armed, read, tested>>

DebounceFires ==
  /\ loop = "waiting" /\ armed
  /\ armed' = FALSE /\ pending' = {}
  /\ loop' = "running" /\ read' = {}
  /\ UNCHANGED <<stamp, edits, previous, tested>>

(* Ctrl+C, also in a run. *)
Interrupt ==
  /\ loop \in {"running", "waiting"}
  /\ loop' = "ended"
  /\ UNCHANGED <<stamp, edits, previous, pending, armed, read, tested>>

WatchNext ==
  \/ \E f \in WatchFiles : Edit(f) \/ RunReads(f)
  \/ Start \/ RunEnds \/ Poll \/ PollFails \/ DebounceFires \/ Interrupt

WatchSpec == WatchInit /\ [][WatchNext]_wvars

WatchFairness ==
  /\ WF_wvars(Start) /\ WF_wvars(RunEnds) /\ WF_wvars(Poll) /\ WF_wvars(DebounceFires)
  /\ \A f \in WatchFiles : WF_wvars(RunReads(f))

-----------------------------------------------------------------------------
(* An edit the last run did not see is never lost: the next poll will see     *)
(* it, or it is among the changes whose timer runs, or a run that has yet to   *)
(* read the file is under way (docs/test-command.md: edits during a run are    *)
(* observed by the next poll).  It is about files that exist: one that is     *)
(* created and removed again while a run reads it leaves no trace.            *)
NoEditIsForgotten ==
  \A f \in WatchFiles : loop \in {"running", "waiting"} /\ tested[f] # stamp[f] /\ stamp[f] # 0 =>
    \/ previous[f] # stamp[f]
    \/ f \in pending /\ armed
    \/ loop = "running" /\ f \notin read

(* A file that stops changing is tested as it is, unless the watch ends. *)
EveryEditIsTested ==
  \A f \in WatchFiles : []<>(tested[f] = stamp[f] \/ stamp[f] = 0 \/ loop = "ended")
=============================================================================
