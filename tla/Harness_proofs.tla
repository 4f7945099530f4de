--------------------------- MODULE Harness_proofs ---------------------------
(***************************************************************************)
(* Proofs about the native test harness (NativeTests) and the watch that runs *)
(* it, for every set of files and tests, every number of workers and every     *)
(* number of edits.                                                          *)
(***************************************************************************)
EXTENDS NativeTests, TLAPS

Status3 == {"passed", "skipped", "failed"}
ResultSet == [test : Tests, status : Status3]
Position == {"idle", "loading", "suite", "filling", "racing", "judging", "removing"}
WorkerSet == [file : Nat, test : Nat \X Nat, at : Position, verdict : Status3 \cup {""}]
FileResults == [types : SUBSET Tests, suite : Seq(ResultSet)]

(* The strands of the callbacks of modules. *)
Strands == {Callback(f) : f \in Callbacks}

HarnessTypes ==
  /\ worker \in [Workers -> WorkerSet]
  /\ nextFile \in Nat \ {0}
  /\ ran \in [Files -> Seq(ResultSet)]
  /\ results \in [Files -> FileResults]
  /\ blocked \subseteq Tests /\ broken \subseteq Files
  /\ body \in [Tests -> {"unborn", "live", "returned", "threw", "skipped"}]
  /\ race \in [Tests -> {"none", "body", "timeout"}]
  /\ ops \in [Tests -> Nat] /\ open \in [Tests -> Nat] /\ writing \in [Tests -> Nat]
  /\ credited \in [Tests -> Tests \cup {NoTest} \cup Strands]
  /\ written \in [Tests -> BOOLEAN]
  /\ sandbox \in [Tests -> {"none", "filling", "there", "gone"}]
  /\ fallback \in Tests \cup {NoTest}

Busy == {"filling", "racing", "judging", "removing"}
Engaged(w) == worker[w].at # "idle"
Has(w, f) == Engaged(w) /\ worker[w].file = f
Ran(f) == {ran[f][i] : i \in DOMAIN ran[f]}

(* A worker is where its position says. *)
Placed(w) ==
  LET f == worker[w].file
      t == worker[w].test
  IN /\ Engaged(w) => f \in Files /\ f < nextFile
     /\ worker[w].at \in Busy \cup {"suite"} => t[1] = f /\ t[2] \in 0 .. Len(FileTests[f])
     /\ worker[w].at \in Busy => t \in Tests
     /\ worker[w].at = "loading" => t = NoTest

Passes(t) ==
  /\ race[t] = "body" /\ body[t] = "returned" /\ open[t] = 0
  /\ Decl(t).required => written[t]
  /\ credited[t] # NoTest

(* What is known of the test it is at. *)
Over(t) == body[t] # "unborn" /\ race[t] # "none" /\ (race[t] = "body" => body[t] # "live")
KnowsItsTest(w) ==
  LET t == worker[w].test IN
  /\ worker[w].at = "filling" => body[t] = "unborn" /\ Decl(t).project
  /\ worker[w].at = "racing" => body[t] # "unborn"
  /\ worker[w].at \in {"judging", "removing"} => Over(t)
  /\ worker[w].at = "removing" => /\ worker[w].verdict \in Status3 /\ Decl(t).project
                                  /\ worker[w].verdict = "passed" => Passes(t)
                                  /\ race[t] = "timeout" => worker[w].verdict = "failed"

(* What a reported test can answer for, now and later. *)
Settled(t, status) ==
  /\ status = "passed" => Passes(t)
  /\ body[t] = "live" => race[t] = "timeout"
  /\ race[t] = "timeout" => status = "failed"
  /\ sandbox[t] \in {"filling", "there"} =>
       status = "failed" /\ (Decl(t).keep \/ body[t] = "unborn" \/ race[t] = "timeout")

(* A file whose module is whole and whose type assertions hold. *)
Whole(f) == results[f].types = {} /\ f \notin broken

(* How far a worker is in its file. *)
Progress(w) ==
  LET f == worker[w].file IN
  /\ Engaged(w) => f \notin broken
  /\ worker[w].at = "loading" => results[f] = NoResults /\ ran[f] = <<>>
  /\ worker[w].at \in Busy => \A r \in Ran(f) : r.test[2] < worker[w].test[2]
  /\ worker[w].at = "suite" => \A r \in Ran(f) : r.test[2] <= worker[w].test[2]
  /\ Engaged(w) => \A t \in Tests : t[1] = f /\ t[2] > worker[w].test[2] => body[t] = "unborn"
  /\ (worker[w].at = "suite" /\ Whole(f)) => Len(ran[f]) = worker[w].test[2]
  /\ (worker[w].at \in Busy /\ Whole(f)) => Len(ran[f]) = worker[w].test[2] - 1

WorkerInv(w) == Placed(w) /\ KnowsItsTest(w) /\ Progress(w)

(* A file without a failed type assertion has run its tests in their order. *)
FileInv(f) ==
  /\ \A r \in Ran(f) : r.test[1] = f /\ Settled(r.test, r.status)
  /\ f >= nextFile => /\ ran[f] = <<>> /\ results[f] = NoResults
                      /\ \A t \in Tests : t[1] = f => body[t] = "unborn"
  /\ f \in broken => f < nextFile
  /\ Whole(f) => \A i \in DOMAIN ran[f] : ran[f][i].test = <<f, i>>
  /\ (Whole(f) /\ f < nextFile /\ \A w \in Workers : ~Has(w, f)) =>
       results[f].suite = ran[f] /\ Len(ran[f]) = Len(FileTests[f])

Exclusive == \A v, w \in Workers : (Engaged(v) /\ Has(w, worker[v].file)) => v = w

TestInv ==
  /\ \A t \in Tests : credited[t] \in {NoTest, t} \cup Strands /\ (sandbox[t] # "none" => Decl(t).project)
  /\ \A t \in blocked : t \in results[t[1]].types

HarnessInv ==
  /\ HarnessTypes /\ Exclusive /\ TestInv /\ ReportIsComplete
  /\ \A w \in Workers : WorkerInv(w)
  /\ \A f \in Files : FileInv(f)

-----------------------------------------------------------------------------
(* What a test is. *)
LEMMA TestType ==
  /\ \A t \in Tests : /\ t[1] \in Files /\ t[2] \in 1 .. Len(FileTests[t[1]])
                      /\ t = <<t[1], t[2]>> /\ t \in Nat \X Nat
                      /\ Decl(t) \in TestDecl
  /\ \A f \in Files : \A i \in 1 .. Len(FileTests[f]) : <<f, i>> \in Tests
  /\ Files \subseteq Nat \ {0}
  /\ \A f \in Files : FileTests[f] \in Seq(TestDecl)
  /\ NoTest \notin Tests \cup Strands /\ Tests \cap Strands = {}
<1> USE TestAssumption DEF Tests, Files
<1>1. Files \subseteq Nat \ {0} /\ \A f \in Files : FileTests[f] \in Seq(TestDecl)
  OBVIOUS
<1>2. \A f \in Files : \A i \in 1 .. Len(FileTests[f]) : <<f, i>> \in Tests
  BY <1>1
<1>3. ASSUME NEW t \in Tests
      PROVE  /\ t[1] \in Files /\ t[2] \in 1 .. Len(FileTests[t[1]])
             /\ t = <<t[1], t[2]>> /\ t \in Nat \X Nat /\ Decl(t) \in TestDecl
  <2>1. PICK f \in Files : \E i \in DOMAIN FileTests[f] : t = <<f, i>>
    OBVIOUS
  <2>a. PICK i \in DOMAIN FileTests[f] : t = <<f, i>>
    BY <2>1
  <2>2. i \in 1 .. Len(FileTests[f]) /\ FileTests[f][i] \in TestDecl
    BY <1>1
  <2> QED
    BY <1>1, <2>a, <2>2 DEF Decl
<1>4. NoTest \notin Tests \cup Strands /\ Tests \cap Strands = {}
  <2>1. NoTest[1] = 0 /\ \A s \in Strands : s[1] = 0 /\ s # NoTest
    BY <1>1 DEF NoTest, Strands, Callback
  <2> QED
    BY <1>1, <1>3, <2>1
<1> QED
  BY <1>1, <1>2, <1>3, <1>4

LEMMA LaterIsOther == \A t, u \in Tests : u[2] > t[2] => u # t
<1>1. \A t \in Tests : t[2] \in Nat
  BY TestType
<1>2. \A m \in Nat : ~(m > m)
  OBVIOUS
<1> QED
  BY <1>1, <1>2, Zenon

(* The files are numbered from one. *)
LEMMA FilesFollow ==
  ASSUME NEW n \in Nat \ {0}, n \notin Files, NEW f \in Files
  PROVE  f < n
<1>1. FileTests \in Seq(Seq(TestDecl)) /\ Files = DOMAIN FileTests
  BY TestAssumption DEF Files
<1>2. Files = 1 .. Len(FileTests) /\ Len(FileTests) \in Nat
  BY <1>1
<1> QED
  BY <1>2

(* The results of a file are results. *)
LEMMA RanType ==
  ASSUME HarnessTypes, NEW f \in Files, NEW r \in Ran(f)
  PROVE  r.test \in Tests /\ r.status \in Status3
<1>1. PICK i \in DOMAIN ran[f] : r = ran[f][i]
  BY DEF Ran
<1>2. ran[f] \in Seq(ResultSet)
  BY DEF HarnessTypes
<1>3. ran[f][i] \in ResultSet
  BY <1>1, <1>2
<1> QED
  BY <1>1, <1>3 DEF ResultSet

(* What a body does outside its own race. *)
BodyEffect ==
  /\ UNCHANGED <<worker, nextFile, ran, results, blocked, broken, race, fallback, report>>
  /\ \A t \in Tests :
       /\ body[t] # "live" => body'[t] = body[t] /\ open'[t] = open[t] /\ sandbox'[t] = sandbox[t]
       /\ body'[t] # "unborn" <=> body[t] # "unborn"
       /\ sandbox'[t] = sandbox[t] \/ Decl(t).project
       /\ written[t] => written'[t]
       /\ credited[t] # NoTest => credited'[t] = credited[t]
       /\ credited'[t] \in {credited[t], t} \cup Strands

(* Who is credited with an assertion. *)
LEMMA CreditEffect ==
  ASSUME HarnessTypes, NEW strand, NEW own, Credit(strand, own),
         (own \in Tests /\ strand = own) \/ (own = NoTest /\ strand \in Strands)
  PROVE  /\ credited' \in [Tests -> Tests \cup {NoTest} \cup Strands]
         /\ \A t \in Tests : /\ credited[t] # NoTest => credited'[t] = credited[t]
                             /\ credited'[t] \in {credited[t], t} \cup Strands
<1> DEFINE c == CurrentTracker(own)
<1>1. c \in Tests \cup {NoTest} /\ (c = own \/ strand \in Strands)
  BY TestType DEF CurrentTracker, HarnessTypes
<1>2. credited' = credited \/ (c \in Tests /\ credited[c] = NoTest /\ credited' = [credited EXCEPT ![c] = strand])
  BY <1>1 DEF Credit
<1>3. c \in Tests => strand \in {c} \cup Strands
  BY <1>1
<1> HIDE DEF c
<1>4. CASE credited' = credited
  BY <1>4 DEF HarnessTypes
<1>5. CASE c \in Tests /\ credited[c] = NoTest /\ credited' = [credited EXCEPT ![c] = strand]
  BY <1>3, <1>5 DEF HarnessTypes
<1> QED
  BY <1>2, <1>4, <1>5

(* A body's operation changes what belongs to its test. *)
LEMMA OneTest ==
  ASSUME HarnessTypes, NEW t \in Tests, UNCHANGED Around,
         NEW b \in {"live", "returned", "threw", "skipped"}, body' = [body EXCEPT ![t] = b],
         NEW n \in Nat, open' = [open EXCEPT ![t] = n], body[t] = "live",
         NEW k \in Nat, writing' = [writing EXCEPT ![t] = k],
         ops' = [ops EXCEPT ![t] = IF body'[t] = "live" THEN @ + 1 ELSE 0],
         written' = written,
         sandbox' = sandbox \/ (Decl(t).project /\ sandbox' = [sandbox EXCEPT ![t] = "there"]),
         credited' = credited \/ Credit(t, t)
  PROVE  BodyEffect /\ HarnessTypes'
<1>1. /\ credited' \in [Tests -> Tests \cup {NoTest} \cup Strands]
      /\ \A u \in Tests : /\ credited[u] # NoTest => credited'[u] = credited[u]
                          /\ credited'[u] \in {credited[u], u} \cup Strands
  BY CreditEffect DEF HarnessTypes
<1>2. /\ body' \in [Tests -> {"unborn", "live", "returned", "threw", "skipped"}]
      /\ open' \in [Tests -> Nat] /\ writing' \in [Tests -> Nat]
      /\ sandbox' \in [Tests -> {"none", "filling", "there", "gone"}]
  BY DEF HarnessTypes
<1>3. ops' \in [Tests -> Nat]
  BY DEF HarnessTypes
<1>4. HarnessTypes'
  BY <1>1, <1>2, <1>3 DEF HarnessTypes, Around
<1>5. \A u \in Tests :
       /\ body[u] # "live" => body'[u] = body[u] /\ open'[u] = open[u] /\ sandbox'[u] = sandbox[u]
       /\ body'[u] # "unborn" <=> body[u] # "unborn"
       /\ sandbox'[u] = sandbox[u] \/ Decl(u).project
  BY DEF HarnessTypes
<1> QED
  BY <1>1, <1>4, <1>5 DEF BodyEffect, Around

(* A body's step, or that of a callback of a module, has these effects only. *)
LEMMA BodyHasEffect ==
  ASSUME HarnessTypes, (\E t \in Tests : BodyStep(t)) \/ (\E f \in Files : ModuleCallback(f))
  PROVE  BodyEffect /\ HarnessTypes'
<1>1. ASSUME NEW t \in Tests, BodyStep(t) PROVE BodyEffect /\ HarnessTypes'
  <2> USE DEF Acts, Counted
  <2>0. /\ open[t] \in Nat /\ writing[t] \in Nat
        /\ body = [body EXCEPT ![t] = body[t]] /\ open = [open EXCEPT ![t] = open[t]]
        /\ writing = [writing EXCEPT ![t] = writing[t]]
    BY DEF HarnessTypes
  <2>1. CASE Asserts(t)
    BY <2>0, <2>1, OneTest DEF Asserts
  <2>2. CASE Because(t)
    <3>1. open[t] - 1 \in Nat /\ open' = [open EXCEPT ![t] = open[t] - 1]
      BY <2>0, <2>2 DEF Because
    <3> QED
      BY <2>0, <2>2, <3>1, OneTest DEF Because
  <2>3. CASE Expect(t)
    <3>1. open[t] + 1 \in Nat /\ open' = [open EXCEPT ![t] = open[t] + 1]
      BY <2>0, <2>3 DEF Expect
    <3> QED
      BY <2>0, <2>3, <3>1, OneTest DEF Expect
  <2>4. CASE WriteProjectFile(t)
    BY <2>0, <2>4, OneTest DEF WriteProjectFile
  <2>5. CASE Skip(t)
    BY <2>0, <2>5, OneTest DEF Skip
  <2>6. CASE WriteArtifact(t)
    <3>1. CASE written[t]
      BY <2>0, <2>6, <3>1, OneTest DEF WriteArtifact
    <3>2. CASE ~written[t]
      <4>1. writing[t] + 1 \in Nat /\ writing' = [writing EXCEPT ![t] = writing[t] + 1]
        BY <2>0, <2>6, <3>2 DEF WriteArtifact
      <4> QED
        BY <2>0, <2>6, <3>2, <4>1, OneTest DEF WriteArtifact
    <3> QED
      BY <3>1, <3>2
  <2>7. ASSUME NEW well \in BOOLEAN, ArtifactWritten(t, well) PROVE BodyEffect /\ HarnessTypes'
    <3>1. writing' \in [Tests -> Nat]
      BY <2>7 DEF ArtifactWritten, HarnessTypes
    <3>2. written' \in [Tests -> BOOLEAN] /\ \A u \in Tests : written[u] => written'[u]
      BY <2>7 DEF ArtifactWritten, HarnessTypes
    <3> QED
      BY <2>7, <3>1, <3>2 DEF ArtifactWritten, Around, HarnessTypes, BodyEffect
  <2>8. ASSUME NEW how \in {"returned", "threw"}, Ends(t, how) PROVE BodyEffect /\ HarnessTypes'
    BY <2>0, <2>8, OneTest DEF Ends
  <2> QED
    BY <1>1, <2>1, <2>2, <2>3, <2>4, <2>5, <2>6, <2>7, <2>8 DEF BodyStep
<1>2. ASSUME NEW f \in Files, ModuleCallback(f) PROVE BodyEffect /\ HarnessTypes'
  <2>1. Callback(f) \in Strands
    BY <1>2 DEF ModuleCallback, Strands
  <2> QED BY <1>2, <2>1, CreditEffect DEF ModuleCallback, Around, HarnessTypes, BodyEffect
<1> QED
  BY <1>1, <1>2

LEMMA BodyKeepsInv ==
  ASSUME HarnessInv, HarnessTypes', BodyEffect
  PROVE  HarnessInv'
<1> USE DEF BodyEffect
<1>1. Exclusive' /\ ReportIsComplete' /\ TestInv'
  BY DEF HarnessInv, Exclusive, ReportIsComplete, TestInv, Engaged, Has
<1>2. \A t \in Tests : (Passes(t) => Passes(t)') /\ (Over(t) => Over(t)')
  BY DEF Passes, Over
<1>3. \A t \in Tests, s \in Status3 : Settled(t, s) => Settled(t, s)'
  BY <1>2 DEF Settled
<1>4. ASSUME NEW w \in Workers PROVE WorkerInv(w)'
  <2>1. WorkerInv(w)
    BY DEF HarnessInv
  <2>2. Placed(w)' /\ Progress(w)'
    BY <2>1 DEF WorkerInv, Placed, Progress, Engaged, Ran, Whole
  <2>3. KnowsItsTest(w)'
    BY <1>2, <2>1 DEF WorkerInv, Placed, KnowsItsTest, Busy
  <2> QED
    BY <2>2, <2>3 DEF WorkerInv
<1>5. ASSUME NEW f \in Files PROVE FileInv(f)'
  <2>1. FileInv(f) /\ Ran(f)' = Ran(f)
    BY DEF HarnessInv, Ran
  <2>2. \A r \in Ran(f) : r.test[1] = f /\ Settled(r.test, r.status)'
    <3>1. \A r \in Ran(f) : r.test \in Tests /\ r.status \in Status3
      BY RanType DEF HarnessInv
    <3> QED
      BY <1>3, <2>1, <3>1 DEF FileInv
  <2> QED
    BY <2>1, <2>2 DEF FileInv, Whole, Has, Engaged, Settled, Passes
<1> QED
  BY <1>1, <1>4, <1>5 DEF HarnessInv

-----------------------------------------------------------------------------
(* A step of a worker on its file leaves the other workers and files alone. *)
LEMMA OneWorker ==
  ASSUME HarnessInv, HarnessTypes', NEW w \in Workers, NEW f \in Files,
         Engaged(w) => worker[w].file = f,
         \A v \in Workers \ {w} : ~Has(v, f) /\ worker'[v] = worker[v],
         Engaged(w)' => worker'[w].file = f,
         \A g \in Files \ {f} : ran'[g] = ran[g] /\ results'[g] = results[g]
                               /\ (g \in broken' <=> g \in broken)
                               /\ (g < nextFile' <=> g < nextFile),
         \A t \in Tests : t[1] # f =>
           /\ body'[t] = body[t] /\ race'[t] = race[t] /\ open'[t] = open[t]
           /\ written'[t] = written[t] /\ credited'[t] = credited[t] /\ sandbox'[t] = sandbox[t],
         report' = report, WorkerInv(w)', FileInv(f)', TestInv'
  PROVE  HarnessInv'
<1>1. ReportIsComplete'
  BY DEF HarnessInv, ReportIsComplete
<1>2. Exclusive'
  BY DEF HarnessInv, Exclusive, Has, Engaged
<1>3. \A t \in Tests : t[1] # f => (Passes(t) => Passes(t)') /\ (Over(t) => Over(t)')
  BY DEF Passes, Over
<1>s. \A t \in Tests, s \in Status3 : t[1] # f => (Settled(t, s) => Settled(t, s)')
  BY <1>3 DEF Settled
<1>4. ASSUME NEW v \in Workers \ {w} PROVE WorkerInv(v)'
  <2>1. WorkerInv(v) /\ worker'[v] = worker[v]
    BY DEF HarnessInv
  <2>2. CASE ~Engaged(v)
    BY <2>1, <2>2 DEF WorkerInv, Placed, KnowsItsTest, Progress, Engaged, Busy
  <2>3. CASE Engaged(v)
    <3> DEFINE g == worker[v].file
    <3>1. g \in Files \ {f} /\ g < nextFile
      BY <2>1, <2>3 DEF WorkerInv, Placed, Has
    <3>2. ran'[g] = ran[g] /\ results'[g] = results[g] /\ (g \in broken' <=> g \in broken) /\ g < nextFile'
      BY <3>1
    <3>3. Placed(v)' /\ Progress(v)'
      BY <2>1, <3>1, <3>2 DEF WorkerInv, Placed, Progress, Engaged, Ran, Whole
    <3>4. KnowsItsTest(v)'
      <4>1. worker[v].at \in Busy => worker[v].test \in Tests /\ worker[v].test[1] # f
        BY <2>1, <3>1 DEF WorkerInv, Placed
      <4> QED
        <5>1. CASE worker[v].at \notin Busy
          BY <2>1, <5>1 DEF WorkerInv, KnowsItsTest, Busy
        <5>2. CASE worker[v].at \in Busy
          BY <1>3, <2>1, <4>1, <5>2 DEF WorkerInv, KnowsItsTest
        <5> QED
          BY <5>1, <5>2
    <3> QED
      BY <3>3, <3>4 DEF WorkerInv
  <2> QED
    BY <2>2, <2>3
<1>5. ASSUME NEW g \in Files \ {f} PROVE FileInv(g)'
  <2>0. FileInv(g) /\ nextFile \in Nat /\ nextFile' \in Nat /\ g \in Nat
    BY TestType DEF HarnessInv, HarnessTypes
  <2>1. /\ FileInv(g) /\ Ran(g)' = Ran(g) /\ ran'[g] = ran[g] /\ results'[g] = results[g]
        /\ Whole(g)' <=> Whole(g)
        /\ g < nextFile' <=> g < nextFile
        /\ g >= nextFile' <=> g >= nextFile
        /\ g \in broken' <=> g \in broken
    BY <2>0 DEF Ran, Whole
  <2>2. \A v \in Workers : Has(v, g)' <=> Has(v, g)
    BY DEF Has, Engaged
  <2>3. \A r \in Ran(g) : r.test[1] = g /\ Settled(r.test, r.status)'
    <3>1. \A r \in Ran(g) : r.test \in Tests /\ r.status \in Status3
      BY RanType DEF HarnessInv
    <3> QED
      BY <1>s, <2>1, <3>1 DEF FileInv
  <2>5. \A r \in Ran(g)' : r.test[1] = g /\ Settled(r.test, r.status)'
    BY <2>1, <2>3
  <2> HIDE DEF Ran, Whole, Has, Settled
  <2> QED
    BY <2>1, <2>2, <2>5 DEF FileInv
<1> QED
  BY <1>1, <1>2, <1>4, <1>5 DEF HarnessInv

LEMMA IdleFields == Idle.at = "idle" /\ Idle.test = NoTest /\ Idle \in WorkerSet
BY DEF Idle, NoTest, WorkerSet, Position

LEMMA WorkerFields ==
  ASSUME NEW r \in WorkerSet, NEW t \in Tests, NEW a \in Position, NEW v \in Status3 \cup {""}
  PROVE  /\ [r EXCEPT !.test = t] \in WorkerSet
         /\ [r EXCEPT !.at = a] \in WorkerSet
         /\ [r EXCEPT !.test = t, !.at = a] \in WorkerSet
         /\ [r EXCEPT !.at = a, !.verdict = v] \in WorkerSet
         /\ [r EXCEPT !.verdict = v] \in WorkerSet
<1>1. t \in Nat \X Nat
  BY TestType
<1> QED
  BY <1>1 DEF WorkerSet

LEMMA EmptySeq ==
  ASSUME NEW S, NEW q \in Seq(S), \A i \in DOMAIN q : FALSE
  PROVE  q = <<>>
<1>1. Len(q) \in Nat /\ DOMAIN q = 1 .. Len(q)
  OBVIOUS
<1>2. Len(q) = 0
  <2>1. 1 \notin DOMAIN q
    OBVIOUS
  <2> QED
    BY <1>1, <2>1
<1> QED
  BY <1>2

(* A worker that stays in its file, and touches one test of it that has no    *)
(* result yet.                                                               *)
LEMMA Moves ==
  ASSUME HarnessInv, HarnessTypes', NEW w \in Workers, NEW f \in Files, Has(w, f), Has(w, f)',
         NEW t \in Tests, t[1] = f, \A r \in Ran(f) : r.test # t,
         \A v \in Workers \ {w} : worker'[v] = worker[v],
         UNCHANGED <<nextFile, ran, results, blocked, broken, report, credited, written>>,
         \A u \in Tests \ {t} : body'[u] = body[u] /\ race'[u] = race[u]
                              /\ open'[u] = open[u] /\ sandbox'[u] = sandbox[u],
         sandbox'[t] # "none" => Decl(t).project,
         WorkerInv(w)'
  PROVE  HarnessInv'
<1>1. TestInv'
  BY DEF HarnessInv, TestInv
<1>2. \A v \in Workers \ {w} : ~Has(v, f)
  BY DEF HarnessInv, Exclusive, Has
<1>3. FileInv(f)'
  <2>1. FileInv(f) /\ Ran(f)' = Ran(f) /\ (Whole(f)' <=> Whole(f))
    BY DEF HarnessInv, Ran, Whole
  <2>a. f < nextFile /\ nextFile \in Nat /\ f \in Nat
    BY TestType DEF HarnessInv, HarnessTypes, WorkerInv, Placed, Has
  <2>2. \A u \in Tests \ {t}, s \in Status3 : Settled(u, s) => Settled(u, s)'
    BY DEF Settled, Passes
  <2>3. \A r \in Ran(f)' : r.test[1] = f /\ Settled(r.test, r.status)'
    <3>1. \A r \in Ran(f) : r.test \in Tests \ {t} /\ r.status \in Status3
      BY RanType DEF HarnessInv
    <3> QED
      BY <2>1, <2>2, <3>1 DEF FileInv
  <2> HIDE DEF Ran, Whole, Has, Settled
  <2> QED
    BY <2>1, <2>3, <2>a DEF FileInv
<1>4. \A u \in Tests : u[1] # f =>
           /\ body'[u] = body[u] /\ race'[u] = race[u] /\ open'[u] = open[u]
           /\ written'[u] = written[u] /\ credited'[u] = credited[u] /\ sandbox'[u] = sandbox[u]
  OBVIOUS
<1>5. (Engaged(w) => worker[w].file = f) /\ (Engaged(w)' => worker'[w].file = f)
  BY DEF Has
<1> QED
  BY <1>1, <1>2, <1>3, <1>4, <1>5, OneWorker

(* The result of a test is the next one of its file. *)
LEMMA Concludes ==
  ASSUME HarnessInv, NEW w \in Workers, worker[w].at \in Busy, NEW status \in Status3,
         Conclude(w, status),
         UNCHANGED <<nextFile, results, blocked, broken, body, race, ops, credited, writing,
                     written, report>>,
         open' \in [Tests -> Nat], sandbox' \in [Tests -> {"none", "filling", "there", "gone"}],
         \A u \in Tests \ {worker[w].test} : open'[u] = open[u] /\ sandbox'[u] = sandbox[u],
         \A u \in Tests : u = worker[w].test => (sandbox'[u] # "none" => Decl(u).project),
         \A u \in Tests : u = worker[w].test => Settled(u, status)'
  PROVE  HarnessInv'
<1>0. WorkerInv(w) /\ HarnessTypes /\ Engaged(w) /\ worker[w].file \in Files /\ worker[w].test \in Tests
  BY DEF HarnessInv, Engaged, Busy, WorkerInv, Placed
<1>a. PICK f \in Files, t \in Tests : worker[w].file = f /\ worker[w].test = t
  BY <1>0
<1>1. /\ worker[w].file = f /\ worker[w].test = t /\ t[1] = f
      /\ t = <<f, t[2]>> /\ t[2] \in 1 .. Len(FileTests[f]) /\ worker[w] \in WorkerSet
      /\ ran[f] \in Seq(ResultSet) /\ Result(t, status) \in ResultSet /\ f < nextFile
      /\ \A r \in Ran(f) : r.test[2] < t[2]
      /\ Has(w, f) /\ f \notin broken
      /\ Whole(f) => Len(ran[f]) = t[2] - 1
  <2>2. t[1] = f /\ f < nextFile
    BY <1>0, <1>a DEF WorkerInv, Placed
  <2>3. worker[w] \in WorkerSet /\ ran[f] \in Seq(ResultSet) /\ Result(t, status) \in ResultSet
    BY <1>0, <2>2 DEF HarnessTypes, ResultSet, Result
  <2>4. /\ \A r \in Ran(f) : r.test[2] < t[2]
        /\ f \notin broken
        /\ Whole(f) => Len(ran[f]) = t[2] - 1
    BY <1>0, <1>a DEF WorkerInv, Progress
  <2> QED
    BY <1>0, <1>a, <2>2, <2>3, <2>4, TestType DEF Has
<1>2. /\ ran' = [ran EXCEPT ![f] = Append(@, Result(t, status))]
      /\ worker' = [worker EXCEPT ![w].at = "suite", ![w].verdict = ""]
      /\ fallback' = NoTest
  BY <1>a DEF Conclude
<1>3. /\ ran'[f] = Append(ran[f], Result(t, status)) /\ \A g \in Files \ {f} : ran'[g] = ran[g]
      /\ ran' \in [Files -> Seq(ResultSet)]
      /\ \A r \in Ran(f)' : r \in Ran(f) \/ r = Result(t, status)
  <2>1. /\ ran'[f] = Append(ran[f], Result(t, status)) /\ \A g \in Files \ {f} : ran'[g] = ran[g]
        /\ ran' \in [Files -> Seq(ResultSet)]
    <3>1. Append(ran[f], Result(t, status)) \in Seq(ResultSet) /\ ran \in [Files -> Seq(ResultSet)]
      BY <1>0, <1>1 DEF HarnessTypes
    <3> QED
      BY <1>2, <3>1
  <2> QED
    BY <1>1, <2>1 DEF Ran
<1>4. /\ \A v \in Workers \ {w} : worker'[v] = worker[v]
      /\ worker'[w].file = f /\ worker'[w].test = t /\ worker'[w].at = "suite"
      /\ worker' \in [Workers -> WorkerSet]
  BY <1>1, <1>2 DEF HarnessInv, HarnessTypes, WorkerSet, Position
<1>5. HarnessTypes'
  BY <1>2, <1>3, <1>4 DEF HarnessInv, HarnessTypes
<1>6. TestInv'
  BY <1>1 DEF HarnessInv, TestInv
<1>7. \A v \in Workers \ {w} : ~Has(v, f)
  BY <1>1 DEF HarnessInv, Exclusive, Has
<1>8. Len(ran'[f]) = Len(ran[f]) + 1 /\ (Whole(f)' <=> Whole(f))
  BY <1>1, <1>3 DEF Whole
<1>9. WorkerInv(w)'
  <2>1. Placed(w)'
    BY <1>1, <1>4 DEF Placed, Engaged, Busy
  <2>2. KnowsItsTest(w)'
    BY <1>4 DEF KnowsItsTest
  <2>3. \A r \in Ran(f)' : r.test[2] <= t[2]
    <3>1. \A r \in Ran(f) : r.test[2] \in Nat /\ t[2] \in Nat
      BY <1>1, RanType, TestType DEF HarnessInv
    <3>2. t[2] \in Nat
      BY <1>1, TestType
    <3> QED
      BY <1>1, <1>3, <3>1, <3>2 DEF Result
  <2>4. Progress(w)'
    <3>1. Whole(f)' => Len(ran'[f]) = t[2]
      BY <1>1, <1>8
    <3>2. worker'[w].at # "idle" /\ worker'[w].at # "loading" /\ worker'[w].at \notin Busy /\ f \notin broken'
      BY <1>1, <1>4 DEF Busy
    <3>3. \A u \in Tests : u[1] = f /\ u[2] > t[2] => body'[u] = "unborn"
      BY <1>0, <1>1 DEF WorkerInv, Progress
    <3> HIDE DEF Whole, Ran
    <3> QED
      BY <1>4, <2>3, <3>1, <3>2, <3>3 DEF Progress, Engaged
  <2> QED
    BY <2>1, <2>2, <2>4 DEF WorkerInv
<1>10. FileInv(f)'
  <2>1. FileInv(f) /\ Has(w, f)'
    BY <1>1, <1>4 DEF HarnessInv, Has, Engaged
  <2>2. \A u \in Tests \ {t}, s \in Status3 : Settled(u, s) => Settled(u, s)'
    BY <1>1 DEF Settled, Passes
  <2>3. \A r \in Ran(f)' : r.test[1] = f /\ Settled(r.test, r.status)'
    <3>1. ASSUME NEW r \in Ran(f) PROVE r.test[1] = f /\ Settled(r.test, r.status)'
      <4>1. r.test \in Tests /\ r.status \in Status3
        BY <1>1, RanType DEF HarnessInv
      <4>2. r.test # t
        BY <1>1, <4>1, TestType
      <4> QED
        BY <2>1, <2>2, <4>1, <4>2 DEF FileInv
    <3>2. ASSUME NEW r, r = Result(t, status) PROVE r.test[1] = f /\ Settled(r.test, r.status)'
      <4>1. r.test = t /\ r.status = status
        BY <3>2 DEF Result
      <4> QED
        BY <1>1, <4>1
    <3> QED
      BY <1>3, <3>1, <3>2
  <2>4. Whole(f)' => \A i \in DOMAIN ran'[f] : ran'[f][i].test = <<f, i>>
    BY <1>1, <1>3, <1>8, <2>1 DEF FileInv, Result
  <2>5. f < nextFile' /\ ~(f >= nextFile')
    BY <1>1, TestType DEF HarnessInv, HarnessTypes
  <2> HIDE DEF Ran, Whole, Has, Settled
  <2> QED
    BY <2>1, <2>3, <2>4, <2>5 DEF FileInv
<1>11. /\ (Engaged(w) => worker[w].file = f) /\ (Engaged(w)' => worker'[w].file = f)
       /\ \A u \in Tests : u[1] # f =>
           /\ body'[u] = body[u] /\ race'[u] = race[u] /\ open'[u] = open[u]
           /\ written'[u] = written[u] /\ credited'[u] = credited[u] /\ sandbox'[u] = sandbox[u]
  BY <1>1, <1>4
<1> QED
  BY <1>1, <1>3, <1>4, <1>5, <1>6, <1>7, <1>9, <1>10, <1>11, OneWorker

(* A file breaks and its worker goes on to the next one. *)
LEMMA BreaksInv ==
  ASSUME HarnessInv, NEW w \in Workers, Engaged(w), NEW kept \in FileResults, Breaks(w, kept),
         \A t \in blocked : t[1] = worker[w].file => t \in kept.types,
         UNCHANGED <<nextFile, ran, blocked, bodyVars, race, sandbox, report>>,
         fallback' \in Tests \cup {NoTest}
  PROVE  HarnessInv'
<1>0. WorkerInv(w) /\ HarnessTypes /\ worker[w].file \in Files
  BY DEF HarnessInv, WorkerInv, Placed
<1>a. PICK f \in Files : worker[w].file = f
  BY <1>0
<1>1. /\ f < nextFile /\ Has(w, f) /\ worker' = [worker EXCEPT ![w] = Idle]
      /\ results' = [results EXCEPT ![f] = kept] /\ broken' = broken \cup {f}
      /\ UNCHANGED <<nextFile, ran, blocked, body, ops, open, credited, writing, written, race, sandbox, report>>
  BY <1>0, <1>a DEF WorkerInv, Placed, Has, Breaks, bodyVars
<1>2. /\ \A v \in Workers \ {w} : worker'[v] = worker[v] /\ ~Has(v, f)
      /\ worker'[w] = Idle /\ Idle \in WorkerSet /\ worker' \in [Workers -> WorkerSet]
  BY <1>0, <1>1 DEF HarnessInv, Exclusive, Has, HarnessTypes, WorkerSet, Idle, NoTest, Position
<1>3. HarnessTypes'
  BY <1>0, <1>1, <1>2 DEF HarnessTypes
<1>4. TestInv'
  BY <1>0, <1>1, <1>a, TestType DEF HarnessInv, TestInv, HarnessTypes
<1>5. WorkerInv(w)' /\ ~Engaged(w)'
  <2>1. worker'[w].at = "idle"
    BY <1>2, IdleFields
  <2> QED
    BY <2>1 DEF WorkerInv, Placed, KnowsItsTest, Progress, Engaged, Busy
<1>6. FileInv(f)'
  <2>1. FileInv(f) /\ Ran(f)' = Ran(f) /\ ~Whole(f)' /\ nextFile \in Nat /\ f \in Nat
    BY <1>0, <1>1, TestType DEF HarnessInv, Ran, Whole, HarnessTypes
  <2>2. \A r \in Ran(f)' : r.test[1] = f /\ Settled(r.test, r.status)'
    BY <1>1, <2>1 DEF FileInv, Settled, Passes
  <2> HIDE DEF Ran, Whole, Has, Settled
  <2> QED
    BY <1>1, <2>1, <2>2 DEF FileInv
<1>7. /\ \A g \in Files \ {f} : ran'[g] = ran[g] /\ results'[g] = results[g]
                                /\ (g \in broken' <=> g \in broken)
                                /\ (g < nextFile' <=> g < nextFile)
      /\ \A t \in Tests : t[1] # f =>
           /\ body'[t] = body[t] /\ race'[t] = race[t] /\ open'[t] = open[t]
           /\ written'[t] = written[t] /\ credited'[t] = credited[t] /\ sandbox'[t] = sandbox[t]
  BY <1>0, <1>1 DEF HarnessTypes
<1> QED
  BY <1>1, <1>2, <1>3, <1>4, <1>5, <1>6, <1>7, <1>a, OneWorker DEF Has

-----------------------------------------------------------------------------
(* The steps of a worker. *)
LEMMA TypesOnly ==
  ASSUME NEW failed \in SUBSET Tests
  PROVE  /\ [NoResults EXCEPT !.types = failed] \in FileResults
         /\ [NoResults EXCEPT !.types = failed].types = failed
<1>1. [NoResults EXCEPT !.types = failed] = [types |-> failed, suite |-> <<>>]
  BY DEF NoResults
<1>2. <<>> \in Seq(ResultSet)
  OBVIOUS
<1> QED
  BY <1>1, <1>2 DEF FileResults

LEMMA ClaimFileInv ==
  ASSUME HarnessInv, NEW w \in Workers, ClaimFile(w)
  PROVE  HarnessInv'
<1>0. HarnessTypes /\ nextFile \in Files /\ FileInv(nextFile)
  BY DEF HarnessInv, ClaimFile
<1>a. PICK f \in Files : nextFile = f
  BY <1>0
<1>1. /\ f \in Nat \ {0} /\ nextFile' = f + 1 /\ ~Engaged(w)
      /\ worker' = [worker EXCEPT ![w] = [Idle EXCEPT !.file = f, !.at = "loading"]]
      /\ UNCHANGED <<ran, results, blocked, broken, body, ops, open, credited, writing, written,
                     race, sandbox, fallback, report>>
  BY <1>a, TestType DEF ClaimFile, bodyVars, Engaged
<1>2. /\ \A v \in Workers \ {w} : worker'[v] = worker[v]
      /\ worker'[w].file = f /\ worker'[w].at = "loading"
      /\ worker' \in [Workers -> WorkerSet]
  BY <1>0, <1>1 DEF HarnessTypes, WorkerSet, Idle, NoTest, Position
<1>3. \A v \in Workers : ~Has(v, f)
  BY <1>1, <1>a DEF HarnessInv, WorkerInv, Placed, Has
<1>4. HarnessTypes'
  BY <1>0, <1>1, <1>2 DEF HarnessTypes
<1>5. TestInv'
  BY <1>1 DEF HarnessInv, TestInv
<1>6. /\ ran[f] = <<>> /\ results[f] = NoResults /\ f \notin broken /\ Ran(f) = {}
      /\ \A t \in Tests : t[1] = f => body'[t] = "unborn"
  BY <1>0, <1>1, <1>a DEF FileInv, Ran
<1>7. WorkerInv(w)'
  <2>1. worker'[w].test = NoTest
    BY <1>0, <1>1, IdleFields DEF HarnessTypes
  <2>2. Placed(w)' /\ KnowsItsTest(w)'
    BY <1>1, <1>2, <2>1 DEF Placed, KnowsItsTest, Engaged, Busy
  <2>3. ran'[f] = <<>> /\ results'[f] = NoResults /\ f \notin broken'
    BY <1>1, <1>6
  <2>4. Progress(w)'
    BY <1>2, <1>6, <2>3 DEF Progress, Engaged, Busy
  <2> QED
    BY <2>2, <2>4 DEF WorkerInv
<1>8. FileInv(f)'
  <2>1. Has(w, f)' /\ ran'[f] = <<>> /\ Ran(f)' = {} /\ f < nextFile' /\ ~(f >= nextFile')
    BY <1>1, <1>2, <1>6 DEF Has, Engaged, Ran
  <2> QED
    BY <2>1 DEF FileInv
<1>9. \A g \in Files \ {f} : g < nextFile' <=> g < nextFile
  BY <1>1, <1>a, TestType
<1> QED
  BY <1>1, <1>2, <1>3, <1>4, <1>5, <1>7, <1>8, <1>9, OneWorker

(* A worker at a file, and what it knows. *)
LEMMA AtFile ==
  ASSUME HarnessInv, NEW w \in Workers, Engaged(w)
  PROVE  \E f \in Files : /\ worker[w].file = f /\ Has(w, f) /\ f < nextFile /\ f \notin broken
                         /\ WorkerInv(w) /\ FileInv(f) /\ HarnessTypes
                         /\ worker[w] \in WorkerSet
                         /\ f \in Nat /\ nextFile \in Nat
                         /\ \A v \in Workers \ {w} : ~Has(v, f)
<1>1. WorkerInv(w) /\ HarnessTypes /\ worker[w].file \in Files /\ worker[w].file < nextFile /\ worker[w].file \notin broken
  BY DEF HarnessInv, WorkerInv, Placed, Progress
<1>2. \A v \in Workers \ {w} : ~Has(v, worker[w].file)
  BY DEF HarnessInv, Exclusive
<1> QED
  BY <1>1, <1>2, TestType DEF Has, HarnessTypes, HarnessInv

LEMMA LoadedInv ==
  ASSUME HarnessInv, NEW w \in Workers, Loaded(w)
  PROVE  HarnessInv'
<1>0. worker[w].at = "loading" /\ Engaged(w)
  BY DEF Loaded, Engaged
<1>a. PICK f \in Files : /\ worker[w].file = f /\ Has(w, f) /\ f < nextFile /\ f \notin broken
                         /\ WorkerInv(w) /\ FileInv(f) /\ HarnessTypes
                         /\ worker[w] \in WorkerSet
                         /\ f \in Nat /\ nextFile \in Nat
                         /\ \A v \in Workers \ {w} : ~Has(v, f)
  BY <1>0, AtFile
<1>b. PICK failed \in SUBSET Typed(f) :
        /\ results' = [results EXCEPT ![f] = [NoResults EXCEPT !.types = failed]]
        /\ blocked' = blocked \cup failed
  BY <1>a DEF Loaded
<1>1. /\ worker' = [worker EXCEPT ![w].at = "suite", ![w].test = <<f, 0>>]
      /\ UNCHANGED <<nextFile, ran, broken, body, ops, open, credited, writing, written,
                     race, sandbox, fallback, report>>
      /\ ran[f] = <<>> /\ results[f] = NoResults
      /\ failed \subseteq Tests /\ \A t \in failed : t[1] = f
  BY <1>0, <1>a DEF Loaded, bodyVars, WorkerInv, Progress, Typed
<1>2. /\ \A v \in Workers \ {w} : worker'[v] = worker[v]
      /\ worker'[w].file = f /\ worker'[w].at = "suite" /\ worker'[w].test = <<f, 0>>
      /\ worker' \in [Workers -> WorkerSet]
  BY <1>1, <1>a DEF HarnessTypes, WorkerSet, Position
<1>3. /\ results'[f].types = failed
      /\ \A g \in Files \ {f} : results'[g] = results[g]
      /\ results' \in [Files -> FileResults]
  <2>1. /\ [NoResults EXCEPT !.types = failed].types = failed
        /\ [NoResults EXCEPT !.types = failed] \in FileResults
    BY <1>1, TypesOnly
  <2> QED
    BY <1>a, <1>b, <2>1 DEF HarnessTypes
<1>4. HarnessTypes'
  BY <1>1, <1>2, <1>3, <1>a, <1>b DEF HarnessTypes
<1>5. TestInv'
  <2>1. \A t \in blocked : t[1] # f
    BY <1>1 DEF HarnessInv, TestInv, NoResults
  <2>2. \A t \in blocked' : t \in results'[t[1]].types
    BY <1>1, <1>3, <1>a, <1>b, <2>1, TestType DEF HarnessInv, TestInv, HarnessTypes
  <2> QED
    BY <1>1, <2>2 DEF HarnessInv, TestInv
<1>6. Ran(f)' = {} /\ ran'[f] = <<>> /\ f \notin broken'
  BY <1>1, <1>a DEF Ran
<1>7. WorkerInv(w)'
  <2>1. Placed(w)' /\ KnowsItsTest(w)'
    BY <1>1, <1>2, <1>a, TestType DEF Placed, KnowsItsTest, Engaged, Busy
  <2>2. \A t \in Tests : t[1] = f /\ t[2] > 0 => body'[t] = "unborn"
    BY <1>0, <1>1, <1>a DEF WorkerInv, Placed, Progress, NoTest
  <2>3. Progress(w)'
    BY <1>2, <1>6, <2>2 DEF Progress, Engaged, Busy
  <2> QED
    BY <2>1, <2>3 DEF WorkerInv
<1>8. FileInv(f)'
  <2>1. Has(w, f)' /\ f < nextFile' /\ ~(f >= nextFile')
    BY <1>1, <1>2, <1>a DEF Has, Engaged
  <2> QED
    BY <1>6, <2>1 DEF FileInv
<1> QED
  BY <1>1, <1>2, <1>3, <1>4, <1>5, <1>7, <1>8, <1>a, OneWorker

LEMMA LoadFailsInv ==
  ASSUME HarnessInv, NEW w \in Workers, LoadFails(w)
  PROVE  HarnessInv'
<1>0. worker[w].at = "loading" /\ Engaged(w)
  BY DEF LoadFails, Engaged
<1>a. PICK failed \in SUBSET Typed(worker[w].file) : Breaks(w, [NoResults EXCEPT !.types = failed])
  BY DEF LoadFails
<1>1. [NoResults EXCEPT !.types = failed] \in FileResults
  BY <1>a, TypesOnly DEF Typed
<1>2. results[worker[w].file] = NoResults
  BY <1>0 DEF HarnessInv, WorkerInv, Progress
<1>3. \A t \in blocked : t[1] # worker[w].file
  BY <1>2 DEF HarnessInv, TestInv, NoResults
<1> QED
  BY <1>0, <1>1, <1>3, <1>a, BreaksInv DEF LoadFails, HarnessInv, HarnessTypes

LEMMA EndSuiteInv ==
  ASSUME HarnessInv, NEW w \in Workers, EndSuite(w)
  PROVE  HarnessInv'
<1>0. worker[w].at = "suite" /\ Engaged(w)
  BY DEF EndSuite, Engaged
<1>a. PICK f \in Files : /\ worker[w].file = f /\ Has(w, f) /\ f < nextFile /\ f \notin broken
                         /\ WorkerInv(w) /\ FileInv(f) /\ HarnessTypes
                         /\ worker[w] \in WorkerSet
                         /\ f \in Nat /\ nextFile \in Nat
                         /\ \A v \in Workers \ {w} : ~Has(v, f)
  BY <1>0, AtFile
<1>1. /\ worker' = [worker EXCEPT ![w] = Idle] /\ Following(worker[w].test) \notin Tests
      /\ results' = [results EXCEPT ![f].suite = ran[f]]
      /\ UNCHANGED <<nextFile, ran, blocked, broken, body, ops, open, credited, writing, written,
                     race, sandbox, fallback, report>>
  BY <1>a DEF EndSuite, bodyVars
<1>2. /\ \A v \in Workers \ {w} : worker'[v] = worker[v]
      /\ worker'[w] = Idle /\ Idle \in WorkerSet /\ worker' \in [Workers -> WorkerSet]
  BY <1>1, <1>a DEF HarnessTypes, WorkerSet, Idle, NoTest, Position
<1>3. /\ results'[f].types = results[f].types /\ results'[f].suite = ran[f]
      /\ \A g \in Files \ {f} : results'[g] = results[g]
      /\ results' \in [Files -> FileResults]
  <2>1. results[f] \in FileResults /\ ran[f] \in Seq(ResultSet) /\ results \in [Files -> FileResults]
    BY <1>a DEF HarnessTypes
  <2>2. /\ [results[f] EXCEPT !.suite = ran[f]] \in FileResults
        /\ [results[f] EXCEPT !.suite = ran[f]].suite = ran[f]
        /\ [results[f] EXCEPT !.suite = ran[f]].types = results[f].types
    BY <2>1 DEF FileResults
  <2> QED
    BY <1>1, <2>1, <2>2
<1>4. HarnessTypes'
  BY <1>1, <1>2, <1>3, <1>a DEF HarnessTypes
<1>5. TestInv'
  BY <1>1, <1>3, <1>a, TestType DEF HarnessInv, TestInv
<1>6. WorkerInv(w)' /\ ~Engaged(w)'
  <2>1. worker'[w].at = "idle"
    BY <1>2, IdleFields
  <2> QED
    BY <2>1 DEF WorkerInv, Placed, KnowsItsTest, Progress, Engaged, Busy
<1>7. Whole(f) => Len(ran[f]) = Len(FileTests[f])
  <2>1. /\ Whole(f) => Len(ran[f]) = worker[w].test[2]
        /\ worker[w].test[1] = f /\ worker[w].test[2] \in 0 .. Len(FileTests[f])
    BY <1>0, <1>a DEF WorkerInv, Placed, Progress
  <2>2. worker[w].test[2] + 1 \notin 1 .. Len(FileTests[f])
    BY <1>1, <2>1, TestType DEF Following
  <2>3. Len(FileTests[f]) \in Nat
    BY TestType
  <2> QED
    BY <2>1, <2>2, <2>3
<1>8. FileInv(f)'
  <2>1. Ran(f)' = Ran(f) /\ (Whole(f)' <=> Whole(f)) /\ f < nextFile' /\ ~(f >= nextFile')
    BY <1>1, <1>3, <1>a DEF Ran, Whole
  <2>2. \A r \in Ran(f)' : r.test[1] = f /\ Settled(r.test, r.status)'
    BY <1>1, <1>a, <2>1 DEF FileInv, Settled, Passes
  <2> HIDE DEF Ran, Whole, Has, Settled
  <2> QED
    BY <1>1, <1>3, <1>7, <1>a, <2>1, <2>2 DEF FileInv
<1> QED
  BY <1>1, <1>2, <1>3, <1>4, <1>5, <1>6, <1>8, <1>a, OneWorker

(* A worker between two tests of its file has the next one before it. *)
LEMMA NextTest ==
  ASSUME HarnessInv, NEW w \in Workers, worker[w].at = "suite", Following(worker[w].test) \in Tests
  PROVE  \E f \in Files, t \in Tests :
           /\ worker[w].file = f /\ Has(w, f) /\ f < nextFile /\ f \notin broken
           /\ Following(worker[w].test) = t /\ t[1] = f /\ t[2] \in 1 .. Len(FileTests[f])
           /\ t = <<f, t[2]>> /\ worker[w].test[2] = t[2] - 1
           /\ \A r \in Ran(f) : r.test[2] < t[2] /\ r.test # t
           /\ Whole(f) => Len(ran[f]) = t[2] - 1
<1>0. Engaged(w) /\ WorkerInv(w) /\ HarnessTypes
  BY DEF Engaged, HarnessInv
<1>1. PICK f \in Files, t \in Tests : worker[w].file = f /\ Following(worker[w].test) = t
  BY <1>0 DEF WorkerInv, Placed
<1>2. /\ f < nextFile /\ f \notin broken /\ Has(w, f)
      /\ worker[w].test[1] = f /\ worker[w].test[2] \in 0 .. Len(FileTests[f])
      /\ \A r \in Ran(f) : r.test[2] <= worker[w].test[2]
      /\ Whole(f) => Len(ran[f]) = worker[w].test[2]
  BY <1>0, <1>1 DEF WorkerInv, Placed, Progress, Has
<1>3. t = <<f, worker[w].test[2] + 1>> /\ worker[w].test[2] \in Nat
  BY <1>1, <1>2 DEF Following
<1>4. t[1] = f /\ t[2] = worker[w].test[2] + 1 /\ t[2] \in 1 .. Len(FileTests[f])
  BY <1>3, TestType
<1>5. \A r \in Ran(f) : r.test \in Tests /\ r.test[2] \in Nat
  BY <1>0, RanType, TestType
<1>6. \A r \in Ran(f) : r.test[2] < t[2] /\ r.test # t
  BY <1>2, <1>3, <1>4, <1>5
<1> QED
  BY <1>1, <1>2, <1>3, <1>4, <1>6

LEMMA SkipsBlockedInv ==
  ASSUME HarnessInv, NEW w \in Workers, SkipsBlocked(w)
  PROVE  HarnessInv'
<1>0. worker[w].at = "suite" /\ Following(worker[w].test) \in Tests /\ HarnessTypes
  BY DEF SkipsBlocked, HarnessInv, HarnessTypes
<1>a. PICK f \in Files, t \in Tests :
           /\ worker[w].file = f /\ Has(w, f) /\ f < nextFile /\ f \notin broken
           /\ Following(worker[w].test) = t /\ t[1] = f /\ t[2] \in 1 .. Len(FileTests[f])
           /\ t = <<f, t[2]>> /\ worker[w].test[2] = t[2] - 1
           /\ \A r \in Ran(f) : r.test[2] < t[2] /\ r.test # t
           /\ Whole(f) => Len(ran[f]) = t[2] - 1
  BY <1>0, NextTest
<1>b. WorkerInv(w) /\ Engaged(w)
  BY <1>0 DEF HarnessInv, Engaged
<1>1. /\ worker' = [worker EXCEPT ![w].test = t] /\ t \in blocked
      /\ UNCHANGED <<nextFile, ran, results, blocked, broken, body, ops, open, credited, writing, written,
                     race, sandbox, fallback, report>>
  BY <1>a DEF SkipsBlocked, bodyVars
<1>2. /\ \A v \in Workers \ {w} : worker'[v] = worker[v]
      /\ worker'[w].file = f /\ worker'[w].test = t /\ worker'[w].at = "suite"
      /\ worker' \in [Workers -> WorkerSet]
  <2>1. worker \in [Workers -> WorkerSet] /\ [worker[w] EXCEPT !.test = t] \in WorkerSet
    BY <1>0, WorkerFields DEF HarnessTypes, Position, Status3
  <2> QED
    BY <1>0, <1>1, <1>a, <2>1 DEF WorkerSet
<1>3. HarnessTypes'
  BY <1>0, <1>1, <1>2 DEF HarnessTypes
<1>4. ~Whole(f)' /\ Ran(f)' = Ran(f)
  BY <1>1, <1>a DEF Whole, Ran, HarnessInv, TestInv
<1>5. WorkerInv(w)'
  <2>1. Placed(w)'
    BY <1>1, <1>2, <1>a DEF Placed, Engaged, Busy
  <2>2. KnowsItsTest(w)'
    BY <1>2 DEF KnowsItsTest
  <2>3. \A r \in Ran(f) : r.test[2] <= t[2]
    BY <1>0, <1>a, RanType, TestType
  <2>a. \A u \in Tests : u[1] = f /\ u[2] > t[2] => body'[u] = "unborn"
    <3>1. \A u \in Tests : u[2] \in Nat
      BY TestType
    <3>2. t[2] \in Nat
      BY <1>a, TestType
    <3> QED
      BY <1>1, <1>a, <1>b, <3>1, <3>2 DEF WorkerInv, Progress
  <2>4. Progress(w)'
    BY <1>1, <1>2, <1>4, <1>a, <2>3, <2>a DEF Progress, Engaged, Busy
  <2> QED
    BY <2>1, <2>2, <2>4 DEF WorkerInv
<1>6. Has(w, f)'
  BY <1>2 DEF Has, Engaged
<1>7. sandbox'[t] # "none" => Decl(t).project
  BY <1>1 DEF HarnessInv, TestInv
<1> QED
  BY <1>1, <1>2, <1>3, <1>5, <1>6, <1>7, <1>a, Moves

LEMMA StartTestInv ==
  ASSUME HarnessInv, NEW w \in Workers, StartTest(w)
  PROVE  HarnessInv'
<1>0. worker[w].at = "suite" /\ Following(worker[w].test) \in Tests /\ HarnessTypes
  BY DEF StartTest, HarnessInv, HarnessTypes
<1>a. PICK f \in Files, t \in Tests :
           /\ worker[w].file = f /\ Has(w, f) /\ f < nextFile /\ f \notin broken
           /\ Following(worker[w].test) = t /\ t[1] = f /\ t[2] \in 1 .. Len(FileTests[f])
           /\ t = <<f, t[2]>> /\ worker[w].test[2] = t[2] - 1
           /\ \A r \in Ran(f) : r.test[2] < t[2] /\ r.test # t
           /\ Whole(f) => Len(ran[f]) = t[2] - 1
  BY <1>0, NextTest
<1>b. WorkerInv(w) /\ Engaged(w)
  BY <1>0 DEF HarnessInv, Engaged
<1>1. /\ UNCHANGED <<nextFile, ran, results, blocked, broken, ops, open, credited, writing, written,
                     race, report>>
      /\ fallback' = t /\ Decl(t).project \in BOOLEAN
      /\ \/ /\ Decl(t).project /\ worker' = [worker EXCEPT ![w].test = t, ![w].at = "filling"]
            /\ sandbox' = [sandbox EXCEPT ![t] = "filling"] /\ body' = body
         \/ /\ ~Decl(t).project /\ worker' = [worker EXCEPT ![w].test = t, ![w].at = "racing"]
            /\ sandbox' = sandbox /\ body' = [body EXCEPT ![t] = "live"]
  <2>1. Decl(t).project \in BOOLEAN
    BY TestType DEF TestDecl
  <2>2. CASE Decl(t).project
    BY <1>a, <2>2 DEF StartTest
  <2>3. CASE Decl(t).project = FALSE
    BY <1>a, <2>3 DEF StartTest
  <2>4. UNCHANGED <<nextFile, ran, results, blocked, broken, ops, open, credited, writing, written,
                     race, report>> /\ fallback' = t
    BY <1>a DEF StartTest
  <2> QED
    BY <2>1, <2>2, <2>3, <2>4
<1>2. \E a \in {"filling", "racing"} : worker' = [worker EXCEPT ![w].test = t, ![w].at = a]
  BY <1>1
<1>3. /\ \A v \in Workers \ {w} : worker'[v] = worker[v]
      /\ worker'[w].file = f /\ worker'[w].test = t /\ worker'[w].at \in {"filling", "racing"}
      /\ worker' \in [Workers -> WorkerSet]
  <2>1. PICK a \in {"filling", "racing"} : worker' = [worker EXCEPT ![w].test = t, ![w].at = a]
    BY <1>2
  <2>2. worker \in [Workers -> WorkerSet] /\ [worker[w] EXCEPT !.test = t, !.at = a] \in WorkerSet
    BY <1>0, WorkerFields DEF HarnessTypes, Position, Status3
  <2> QED
    BY <1>a, <2>1, <2>2 DEF WorkerSet
<1>d. /\ body' \in [Tests -> {"unborn", "live", "returned", "threw", "skipped"}]
      /\ sandbox' \in [Tests -> {"none", "filling", "there", "gone"}]
      /\ \A u \in Tests \ {t} : body'[u] = body[u] /\ sandbox'[u] = sandbox[u]
      /\ worker'[w].at = "filling" => body'[t] = body[t] /\ Decl(t).project
      /\ worker'[w].at = "racing" => body'[t] = "live"
      /\ sandbox'[t] = sandbox[t] \/ Decl(t).project
  <2>1. body \in [Tests -> {"unborn", "live", "returned", "threw", "skipped"}]
        /\ sandbox \in [Tests -> {"none", "filling", "there", "gone"}]
        /\ worker \in [Workers -> WorkerSet] /\ worker[w] \in WorkerSet
    BY <1>0 DEF HarnessTypes
  <2>2. CASE /\ Decl(t).project /\ worker' = [worker EXCEPT ![w].test = t, ![w].at = "filling"]
             /\ sandbox' = [sandbox EXCEPT ![t] = "filling"] /\ body' = body
    BY <2>1, <2>2 DEF WorkerSet
  <2>3. CASE /\ ~Decl(t).project /\ worker' = [worker EXCEPT ![w].test = t, ![w].at = "racing"]
             /\ sandbox' = sandbox /\ body' = [body EXCEPT ![t] = "live"]
    BY <2>1, <2>3 DEF WorkerSet
  <2> QED
    BY <1>1, <2>2, <2>3
<1>4. HarnessTypes'
  BY <1>0, <1>1, <1>3, <1>d DEF HarnessTypes
<1>5. body[t] = "unborn" /\ t[2] \in Nat
  BY <1>a, <1>b, TestType DEF WorkerInv, Progress
<1>6. WorkerInv(w)'
  <2>1. Placed(w)'
    BY <1>1, <1>3, <1>a DEF Placed, Engaged, Busy
  <2>2. KnowsItsTest(w)'
    BY <1>3, <1>5, <1>d DEF KnowsItsTest
  <2>3. \A u \in Tests : u[1] = f /\ u[2] > t[2] => body'[u] = "unborn"
    <3>1. \A u \in Tests : u[2] \in Nat /\ (u[2] > t[2] => u # t)
      BY <1>5, TestType
    <3> QED
      BY <1>5, <1>a, <1>b, <1>d, <3>1 DEF WorkerInv, Progress
  <2>4. Ran(f)' = Ran(f) /\ (Whole(f)' <=> Whole(f)) /\ ran'[f] = ran[f] /\ f \notin broken'
    BY <1>1, <1>a DEF Ran, Whole
  <2> HIDE DEF Ran, Whole
  <2>5. Progress(w)'
    BY <1>3, <1>a, <2>3, <2>4 DEF Progress, Engaged, Busy
  <2> QED
    BY <2>1, <2>2, <2>5 DEF WorkerInv
<1>7. Has(w, f)'
  BY <1>3 DEF Has, Engaged
<1>8. /\ sandbox'[t] # "none" => Decl(t).project
      /\ \A u \in Tests \ {t} : body'[u] = body[u] /\ race'[u] = race[u]
                               /\ open'[u] = open[u] /\ sandbox'[u] = sandbox[u]
  BY <1>1, <1>d DEF HarnessInv, TestInv
<1> QED
  BY <1>1, <1>3, <1>4, <1>6, <1>7, <1>8, <1>a, Moves

(* A worker at a test, and what it knows. *)
LEMMA AtTest ==
  ASSUME HarnessInv, NEW w \in Workers, worker[w].at \in Busy
  PROVE  \E f \in Files, t \in Tests :
           /\ worker[w].file = f /\ worker[w].test = t /\ t[1] = f /\ Has(w, f)
           /\ \A r \in Ran(f) : r.test # t
           /\ WorkerInv(w) /\ HarnessTypes /\ worker[w] \in WorkerSet
           /\ worker \in [Workers -> WorkerSet]
<1>0. Engaged(w) /\ WorkerInv(w) /\ HarnessTypes
  BY DEF Engaged, HarnessInv, Busy
<1>1. PICK f \in Files, t \in Tests : worker[w].file = f /\ worker[w].test = t
  BY <1>0 DEF WorkerInv, Placed
<1>2. t[1] = f /\ \A r \in Ran(f) : r.test[2] < t[2]
  BY <1>0, <1>1 DEF WorkerInv, Placed, Progress
<1>3. t[2] \in Nat
  BY TestType
<1> QED
  BY <1>0, <1>1, <1>2, <1>3 DEF Has, HarnessTypes

(* The worker goes on with the test it is at. *)
SameTest(w, at, verdict) ==
  /\ worker' = [worker EXCEPT ![w].at = at, ![w].verdict = verdict]
  /\ UNCHANGED <<nextFile, ran, results, blocked, broken, ops, credited, writing, written, report, fallback>>

OnlyIts(w) ==
  /\ body' \in [Tests -> {"unborn", "live", "returned", "threw", "skipped"}]
  /\ race' \in [Tests -> {"none", "body", "timeout"}] /\ open' \in [Tests -> Nat]
  /\ sandbox' \in [Tests -> {"none", "filling", "there", "gone"}]
  /\ \A u \in Tests : u # worker[w].test => /\ body'[u] = body[u] /\ race'[u] = race[u]
                                           /\ open'[u] = open[u] /\ sandbox'[u] = sandbox[u]
  /\ \A u \in Tests : (u = worker[w].test /\ sandbox'[u] # "none") => Decl(u).project

LEMMA GoesOn ==
  ASSUME HarnessInv, NEW w \in Workers, worker[w].at \in Busy, NEW at \in Busy,
         NEW verdict \in Status3 \cup {""}, SameTest(w, at, verdict), OnlyIts(w), KnowsItsTest(w)'
  PROVE  HarnessInv'
<1>a. PICK f \in Files, t \in Tests :
           /\ worker[w].file = f /\ worker[w].test = t /\ t[1] = f /\ Has(w, f)
           /\ \A r \in Ran(f) : r.test # t
           /\ WorkerInv(w) /\ HarnessTypes /\ worker[w] \in WorkerSet
           /\ worker \in [Workers -> WorkerSet]
  BY AtTest
<1>1. /\ \A x \in Workers \ {w} : worker'[x] = worker[x]
      /\ worker'[w].file = f /\ worker'[w].test = t /\ worker'[w].at = at
      /\ worker' \in [Workers -> WorkerSet]
  <2>1. [worker[w] EXCEPT !.at = at, !.verdict = verdict] \in WorkerSet
    BY <1>a, WorkerFields DEF Busy, Position
  <2> QED
    BY <1>a, <2>1 DEF WorkerSet, SameTest
<1>b. UNCHANGED <<nextFile, ran, results, blocked, broken, ops, credited, writing, written, report, fallback>>
  BY DEF SameTest
<1>2. HarnessTypes'
  BY <1>1, <1>a, <1>b DEF HarnessTypes, OnlyIts
<1>3. Has(w, f)'
  BY <1>1 DEF Has, Engaged, Busy
<1>4. at # "idle" /\ at # "loading" /\ at # "suite"
  BY DEF Busy
<1>5. Placed(w)'
  <2>1. t[1] = f /\ t[2] \in 0 .. Len(FileTests[f]) /\ f < nextFile
    BY <1>a DEF WorkerInv, Placed, Has
  <2>2. f < nextFile'
    BY <1>b, <2>1
  <2> QED
    BY <1>1, <1>4, <2>1, <2>2 DEF Placed, Engaged
<1>6. Progress(w)'
  <2>1. Ran(f)' = Ran(f) /\ (Whole(f)' <=> Whole(f)) /\ ran'[f] = ran[f] /\ broken' = broken
    BY <1>b DEF Ran, Whole
  <2>2. \A u \in Tests : u[1] = f /\ u[2] > t[2] => body'[u] = "unborn"
    <3>1. \A u \in Tests : u[2] > t[2] => u # t
      BY LaterIsOther
    <3> QED
      BY <1>a, <3>1 DEF WorkerInv, Progress, Has, OnlyIts
  <2>3. /\ \A r \in Ran(f) : r.test[2] < t[2]
        /\ Whole(f) => Len(ran[f]) = t[2] - 1
        /\ f \notin broken
    BY <1>a DEF WorkerInv, Progress, Has
  <2> HIDE DEF Ran, Whole
  <2> QED
    BY <1>1, <1>4, <2>1, <2>2, <2>3 DEF Progress, Engaged
<1>7. WorkerInv(w)'
  BY <1>5, <1>6 DEF WorkerInv
<1>8. /\ \A u \in Tests \ {t} : body'[u] = body[u] /\ race'[u] = race[u]
                              /\ open'[u] = open[u] /\ sandbox'[u] = sandbox[u]
      /\ sandbox'[t] # "none" => Decl(t).project
  BY <1>a DEF OnlyIts
<1> QED
  BY <1>1, <1>2, <1>3, <1>7, <1>8, <1>a, <1>b, Moves

LEMMA ProjectReadyInv ==
  ASSUME HarnessInv, NEW w \in Workers, ProjectReady(w)
  PROVE  HarnessInv'
<1>0. worker[w].at = "filling" /\ worker[w].at \in Busy
  BY DEF ProjectReady, Busy
<1>a. PICK f \in Files, t \in Tests :
           /\ worker[w].file = f /\ worker[w].test = t /\ t[1] = f /\ Has(w, f)
           /\ \A r \in Ran(f) : r.test # t
           /\ WorkerInv(w) /\ HarnessTypes /\ worker[w] \in WorkerSet
           /\ worker \in [Workers -> WorkerSet]
  BY <1>0, AtTest
<1>1. /\ worker' = [worker EXCEPT ![w].at = "racing"]
      /\ sandbox' = [sandbox EXCEPT ![t] = "there"] /\ body' = [body EXCEPT ![t] = "live"]
      /\ UNCHANGED <<nextFile, ran, results, blocked, broken, race, ops, open, credited, writing,
                     written, fallback, report>>
  BY <1>a DEF ProjectReady
<1>2. worker[w].verdict \in Status3 \cup {""} /\ Decl(t).project
  BY <1>0, <1>a DEF WorkerSet, WorkerInv, KnowsItsTest
<1>3. SameTest(w, "racing", worker[w].verdict)
  <2>1. worker' = [worker EXCEPT ![w].at = "racing", ![w].verdict = worker[w].verdict]
    BY <1>1, <1>a DEF WorkerSet
  <2> QED
    BY <1>1, <2>1 DEF SameTest
<1>4. OnlyIts(w)
  BY <1>1, <1>2, <1>a DEF OnlyIts, HarnessTypes
<1>5. KnowsItsTest(w)'
  <2>1. worker'[w].at = "racing" /\ worker'[w].test = t /\ body'[t] = "live"
    BY <1>1, <1>a DEF HarnessTypes, WorkerSet
  <2> QED
    BY <2>1 DEF KnowsItsTest
<1>6. "racing" \in Busy
  BY DEF Busy
<1> QED
  BY <1>0, <1>2, <1>3, <1>4, <1>5, <1>6, GoesOn

LEMMA RaceInv ==
  ASSUME HarnessInv, NEW w \in Workers, BodyWins(w) \/ TimesOut(w)
  PROVE  HarnessInv'
<1>0. worker[w].at = "racing" /\ worker[w].at \in Busy
  BY DEF BodyWins, TimesOut, Busy
<1>a. PICK f \in Files, t \in Tests :
           /\ worker[w].file = f /\ worker[w].test = t /\ t[1] = f /\ Has(w, f)
           /\ \A r \in Ran(f) : r.test # t
           /\ WorkerInv(w) /\ HarnessTypes /\ worker[w] \in WorkerSet
           /\ worker \in [Workers -> WorkerSet]
  BY <1>0, AtTest
<1>b. PICK how \in {"body", "timeout"} :
        /\ how = "body" => body[t] # "live"
        /\ race' = [race EXCEPT ![t] = how]
        /\ worker' = [worker EXCEPT ![w].at = "judging"]
        /\ UNCHANGED <<nextFile, ran, results, blocked, broken, body, ops, open, credited, writing,
                       written, sandbox, fallback, report>>
  <2>1. CASE BodyWins(w)
    BY <1>a, <2>1 DEF BodyWins, bodyVars
  <2>2. CASE TimesOut(w)
    BY <1>a, <2>2 DEF TimesOut, bodyVars
  <2> QED
    BY <2>1, <2>2
<1>2. worker[w].verdict \in Status3 \cup {""}
  BY <1>a DEF WorkerSet
<1>3. SameTest(w, "judging", worker[w].verdict)
  <2>1. worker' = [worker EXCEPT ![w].at = "judging", ![w].verdict = worker[w].verdict]
    BY <1>a, <1>b DEF WorkerSet
  <2> QED
    BY <1>b, <2>1 DEF SameTest
<1>4. OnlyIts(w)
  <2>1. \A u \in Tests : sandbox'[u] # "none" => Decl(u).project
    BY <1>b DEF HarnessInv, TestInv
  <2> QED
    BY <1>a, <1>b, <2>1 DEF OnlyIts, HarnessTypes
<1>5. KnowsItsTest(w)'
  <2>1. /\ worker'[w].at = "judging" /\ worker'[w].test = t /\ race'[t] = how
        /\ body'[t] = body[t] /\ body[t] # "unborn"
    BY <1>0, <1>a, <1>b DEF HarnessTypes, WorkerSet, WorkerInv, KnowsItsTest
  <2> QED
    BY <1>b, <2>1 DEF KnowsItsTest, Over
<1>6. "judging" \in Busy
  BY DEF Busy
<1> QED
  BY <1>0, <1>2, <1>3, <1>4, <1>5, <1>6, GoesOn

LEMMA ProjectFailsInv ==
  ASSUME HarnessInv, NEW w \in Workers, ProjectFails(w)
  PROVE  HarnessInv'
<1>0. worker[w].at = "filling" /\ worker[w].at \in Busy /\ Conclude(w, "failed") /\ "failed" \in Status3
  BY DEF ProjectFails, Busy, Status3
<1>1. UNCHANGED <<nextFile, results, blocked, broken, body, race, ops, open, credited, writing,
                 written, sandbox, report>>
  BY DEF ProjectFails, bodyVars
<1>2. HarnessTypes /\ body[worker[w].test] = "unborn"
  BY <1>0 DEF HarnessInv, WorkerInv, KnowsItsTest
<1>3. ASSUME NEW u \in Tests, u = worker[w].test PROVE Settled(u, "failed")'
  <2>1. body'[u] = "unborn"
    BY <1>1, <1>2, <1>3
  <2> QED
    BY <2>1 DEF Settled
<1>4. \A u \in Tests : sandbox'[u] # "none" => Decl(u).project
  BY <1>1 DEF HarnessInv, TestInv
<1> QED
  BY <1>0, <1>1, <1>2, <1>3, <1>4, Concludes DEF HarnessTypes

(* What a verdict needs. *)
LEMMA StatusIsEarned ==
  ASSUME HarnessTypes, NEW t \in Tests, Over(t)
  PROVE  /\ Status(t) \in Status3
         /\ Status(t) = "passed" => Passes(t)
         /\ race[t] = "timeout" => Status(t) = "failed"
<1>1. /\ race[t] \in {"body", "timeout"}
      /\ race[t] = "body" => body[t] \in {"skipped", "threw", "returned"}
  BY DEF Over, HarnessTypes
<1>2. CASE race[t] = "timeout"
  <2>1. Status(t) = "failed"
    BY <1>2 DEF Status
  <2> QED
    BY <1>2, <2>1 DEF Status3
<1>3. CASE race[t] = "body" /\ body[t] = "skipped"
  <2>1. Status(t) = "skipped"
    BY <1>3 DEF Status
  <2> QED
    BY <1>3, <2>1 DEF Status3
<1>4. CASE race[t] = "body" /\ body[t] = "threw"
  <2>1. Status(t) = "failed"
    BY <1>4 DEF Status
  <2> QED
    BY <1>4, <2>1 DEF Status3
<1>5. CASE race[t] = "body" /\ body[t] = "returned"
  <2>1. Status(t) = IF Earned(t) THEN "passed" ELSE "failed"
    BY <1>5 DEF Status
  <2> QED
    BY <1>5, <2>1 DEF Status3, Earned, Passes
<1> QED
  BY <1>1, <1>2, <1>3, <1>4, <1>5

LEMMA JudgeInv ==
  ASSUME HarnessInv, NEW w \in Workers, Judge(w)
  PROVE  HarnessInv'
<1>0. worker[w].at = "judging" /\ worker[w].at \in Busy
  BY DEF Judge, Busy
<1>a. PICK f \in Files, t \in Tests :
           /\ worker[w].file = f /\ worker[w].test = t /\ t[1] = f /\ Has(w, f)
           /\ \A r \in Ran(f) : r.test # t
           /\ WorkerInv(w) /\ HarnessTypes /\ worker[w] \in WorkerSet
           /\ worker \in [Workers -> WorkerSet]
  BY <1>0, AtTest
<1>b. PICK status \in Status3 :
        /\ status = Status(t)
        /\ status = "passed" => Passes(t)
        /\ race[t] = "timeout" => status = "failed"
  BY <1>0, <1>a, StatusIsEarned DEF WorkerInv, KnowsItsTest
<1>1. /\ open' = [open EXCEPT ![t] = 0] /\ Over(t)
      /\ UNCHANGED <<nextFile, results, blocked, broken, body, race, ops, credited, writing,
                     written, sandbox, report>>
  BY <1>0, <1>a DEF Judge, WorkerInv, KnowsItsTest
<1>2. /\ open' \in [Tests -> Nat] /\ open'[t] = 0
      /\ \A u \in Tests : u # t => open'[u] = open[u]
  BY <1>1, <1>a DEF HarnessTypes
<1>3. (status = "passed" => Passes(t)') /\ Over(t)'
  BY <1>1, <1>2, <1>b DEF Passes, Over
<1>4. CASE Removes(t, status)
  <2>1. SameTest(w, "removing", status)
    BY <1>1, <1>4, <1>a, <1>b DEF Judge, SameTest
  <2>2. OnlyIts(w)
    <3>1. \A u \in Tests : sandbox'[u] # "none" => Decl(u).project
      BY <1>1 DEF HarnessInv, TestInv
    <3> QED
      BY <1>1, <1>2, <1>a, <3>1 DEF OnlyIts, HarnessTypes
  <2>3. worker'[w].at = "removing" /\ worker'[w].test = t /\ worker'[w].verdict = status
    BY <1>a, <2>1 DEF SameTest, WorkerSet
  <2>4. KnowsItsTest(w)'
    BY <1>1, <1>3, <1>4, <1>b, <2>3 DEF KnowsItsTest, Removes
  <2>5. "removing" \in Busy
    BY DEF Busy
  <2> QED
    BY <1>0, <2>1, <2>2, <2>4, <2>5, GoesOn
<1>5. CASE ~Removes(t, status)
  <2>1. Conclude(w, status)
    BY <1>5, <1>a, <1>b DEF Judge
  <2>2. Settled(t, status)'
    <3>1. sandbox[t] # "none" => Decl(t).project
      BY DEF HarnessInv, TestInv
    <3>2. sandbox'[t] \in {"filling", "there"} => status = "failed" /\ Decl(t).keep
      BY <1>1, <1>5, <3>1 DEF Removes
    <3>3. body'[t] = "live" => race'[t] = "timeout"
      BY <1>1, <1>a DEF Over, HarnessTypes
    <3>4. race'[t] = "timeout" => status = "failed"
      BY <1>1, <1>b
    <3> QED
      BY <1>3, <3>2, <3>3, <3>4 DEF Settled
  <2>3. /\ sandbox' \in [Tests -> {"none", "filling", "there", "gone"}]
        /\ \A u \in Tests : sandbox'[u] # "none" => Decl(u).project
    BY <1>1, <1>a DEF HarnessTypes, HarnessInv, TestInv
  <2> QED
    BY <1>0, <1>1, <1>2, <1>a, <2>1, <2>2, <2>3, Concludes
<1> QED
  BY <1>4, <1>5

LEMMA RemovedInv ==
  ASSUME HarnessInv, NEW w \in Workers, Removed(w)
  PROVE  HarnessInv'
<1>0. worker[w].at = "removing" /\ worker[w].at \in Busy
  BY DEF Removed, Busy
<1>a. PICK f \in Files, t \in Tests :
           /\ worker[w].file = f /\ worker[w].test = t /\ t[1] = f /\ Has(w, f)
           /\ \A r \in Ran(f) : r.test # t
           /\ WorkerInv(w) /\ HarnessTypes /\ worker[w] \in WorkerSet
           /\ worker \in [Workers -> WorkerSet]
  BY <1>0, AtTest
<1>b. PICK status \in Status3 : worker[w].verdict = status
  BY <1>0, <1>a DEF WorkerInv, KnowsItsTest
<1>1. /\ Over(t) /\ (status = "passed" => Passes(t)) /\ (race[t] = "timeout" => status = "failed")
      /\ Conclude(w, status) /\ sandbox' = [sandbox EXCEPT ![t] = "gone"]
      /\ UNCHANGED <<nextFile, results, blocked, broken, body, race, ops, open, credited, writing,
                     written, report>>
  BY <1>0, <1>a, <1>b DEF Removed, WorkerInv, KnowsItsTest, bodyVars
<1>2. /\ sandbox' \in [Tests -> {"none", "filling", "there", "gone"}] /\ sandbox'[t] = "gone"
      /\ \A u \in Tests : u # t => sandbox'[u] = sandbox[u]
  BY <1>1, <1>a DEF HarnessTypes
<1>3. Settled(t, status)'
  <2>1. Passes(t) => Passes(t)'
    BY <1>1 DEF Passes
  <2>2. body'[t] = "live" => race'[t] = "timeout"
    BY <1>1, <1>a DEF Over, HarnessTypes
  <2> QED
    BY <1>1, <1>2, <2>1, <2>2 DEF Settled
<1>4. \A u \in Tests : u = worker[w].test =>
        Settled(u, status)' /\ (sandbox'[u] # "none" => Decl(u).project)
  BY <1>0, <1>3, <1>a DEF WorkerInv, KnowsItsTest
<1>5. /\ open' \in [Tests -> Nat]
      /\ \A u \in Tests \ {worker[w].test} : open'[u] = open[u] /\ sandbox'[u] = sandbox[u]
  BY <1>1, <1>2, <1>a DEF HarnessTypes
<1> QED
  BY <1>0, <1>1, <1>2, <1>4, <1>5, Concludes

(* A removal that fails after a verdict of passed is caught, and the failure  *)
(* is the verdict then; any other takes the suite with it.                   *)
LEMMA RemoveFailsInv ==
  ASSUME HarnessInv, NEW w \in Workers, RemoveFails(w)
  PROVE  HarnessInv'
<1>0. worker[w].at = "removing" /\ worker[w].at \in Busy
  BY DEF RemoveFails, Busy
<1>a. PICK f \in Files, t \in Tests :
           /\ worker[w].file = f /\ worker[w].test = t /\ t[1] = f /\ Has(w, f)
           /\ \A r \in Ran(f) : r.test # t
           /\ WorkerInv(w) /\ HarnessTypes /\ worker[w] \in WorkerSet
           /\ worker \in [Workers -> WorkerSet]
  BY <1>0, AtTest
<1>1. /\ Over(t) /\ Decl(t).project
      /\ UNCHANGED <<nextFile, blocked, body, race, ops, open, credited, writing, written, sandbox, report>>
  BY <1>0, <1>a DEF RemoveFails, WorkerInv, KnowsItsTest, bodyVars
<1>2. /\ \A u \in Tests : sandbox'[u] # "none" => Decl(u).project
      /\ open' \in [Tests -> Nat] /\ sandbox' \in [Tests -> {"none", "filling", "there", "gone"}]
      /\ "failed" \in Status3
  BY <1>1, <1>a DEF HarnessInv, TestInv, HarnessTypes, Status3
<1>3. CASE worker[w].verdict = "passed" /\ Decl(t).keep
  <2>1. Conclude(w, "failed") /\ UNCHANGED <<results, broken>>
    BY <1>3, <1>a DEF RemoveFails
  <2>2. Settled(t, "failed")'
    <3>1. body'[t] = "live" => race'[t] = "timeout"
      BY <1>1, <1>a DEF Over, HarnessTypes
    <3> QED
      BY <1>3, <3>1 DEF Settled
  <2> QED
    BY <1>0, <1>1, <1>2, <1>a, <2>1, <2>2, Concludes
<1>4. CASE worker[w].verdict = "passed" /\ ~Decl(t).keep
  <2>1. /\ worker' = [worker EXCEPT ![w].verdict = "failed"]
        /\ UNCHANGED <<ran, fallback, results, broken>>
    BY <1>4, <1>a DEF RemoveFails
  <2>2. SameTest(w, "removing", "failed")
    <3>1. worker' = [worker EXCEPT ![w].at = "removing", ![w].verdict = "failed"]
      BY <1>0, <1>a, <2>1 DEF WorkerSet
    <3> QED
      BY <1>1, <2>1, <3>1 DEF SameTest
  <2>3. OnlyIts(w)
    BY <1>1, <1>2, <1>a DEF OnlyIts, HarnessTypes
  <2>4. worker'[w].at = "removing" /\ worker'[w].test = t /\ worker'[w].verdict = "failed"
    BY <1>a, <2>2 DEF SameTest, WorkerSet
  <2>5. KnowsItsTest(w)'
    BY <1>1, <1>2, <2>4 DEF KnowsItsTest, Over
  <2>6. "removing" \in Busy
    BY DEF Busy
  <2> QED
    BY <1>0, <1>2, <2>2, <2>3, <2>5, <2>6, GoesOn
<1>5. CASE worker[w].verdict # "passed"
  <2>1. Breaks(w, results[f]) /\ fallback' = NoTest /\ ran' = ran
    BY <1>5, <1>a DEF RemoveFails
  <2>2. results[f] \in FileResults /\ \A u \in blocked : u[1] = f => u \in results[f].types
    BY <1>a DEF HarnessTypes, HarnessInv, TestInv
  <2>3. Engaged(w)
    BY <1>0 DEF Engaged
  <2> QED
    BY <1>1, <1>a, <2>1, <2>2, <2>3, BreaksInv DEF bodyVars
<1> QED
  <2>1. Decl(t).keep \in BOOLEAN
    BY TestType DEF TestDecl
  <2> QED
    BY <1>3, <1>4, <1>5, <2>1

-----------------------------------------------------------------------------
(* The report says what the files have come to. *)
LEMMA ReportInv ==
  ASSUME HarnessInv, Report
  PROVE  HarnessInv'
<1>1. /\ nextFile \notin Files /\ \A w \in Workers : worker[w].at = "idle"
      /\ report' = [results |-> results, exit |-> ExitCode]
      /\ UNCHANGED <<worker, nextFile, ran, results, blocked, broken, body, ops, open, credited,
                     writing, written, race, sandbox, fallback>>
  BY DEF Report, bodyVars
<1>2. HarnessTypes' /\ Exclusive' /\ TestInv'
  BY <1>1 DEF HarnessInv, HarnessTypes, Exclusive, TestInv, Engaged, Has
<1>3. ASSUME NEW w \in Workers PROVE WorkerInv(w)'
  BY <1>1 DEF HarnessInv, WorkerInv, Placed, KnowsItsTest, Progress, Engaged, Busy
<1>4. ASSUME NEW f \in Files PROVE FileInv(f)'
  BY <1>1 DEF HarnessInv, FileInv, Ran, Whole, Has, Engaged, Settled, Passes
<1>5. ReportIsComplete'
  <2> SUFFICES ASSUME ExitCode = 0, NEW f \in Files
               PROVE  /\ results[f].types = {}
                      /\ DOMAIN results[f].suite = DOMAIN FileTests[f]
                      /\ \A i \in DOMAIN results[f].suite :
                           /\ results[f].suite[i].test = <<f, i>>
                           /\ results[f].suite[i].status \in {"passed", "skipped"}
    BY <1>1 DEF ReportIsComplete
  <2>1. broken = {} /\ ~Failed(f)
    BY DEF ExitCode
  <2>2. Whole(f) /\ \A i \in DOMAIN results[f].suite : results[f].suite[i].status # "failed"
    BY <2>1 DEF Failed, Whole
  <2>3. f < nextFile
    BY <1>1, FilesFollow DEF HarnessInv, HarnessTypes
  <2>4. /\ results[f].suite = ran[f] /\ Len(ran[f]) = Len(FileTests[f])
        /\ \A i \in DOMAIN ran[f] : ran[f][i].test = <<f, i>>
    BY <1>1, <2>2, <2>3 DEF HarnessInv, FileInv, Has, Engaged
  <2>5. ran[f] \in Seq(ResultSet) /\ FileTests[f] \in Seq(TestDecl)
    BY TestType DEF HarnessInv, HarnessTypes
  <2>6. \A i \in DOMAIN ran[f] : ran[f][i].status \in Status3
    <3>1. \A i \in DOMAIN ran[f] : ran[f][i] \in ResultSet
      BY <2>5
    <3> QED
      BY <3>1 DEF ResultSet
  <2> QED
    BY <2>2, <2>4, <2>5, <2>6 DEF Status3, Whole
<1> QED
  BY <1>2, <1>3, <1>4, <1>5 DEF HarnessInv

LEMMA NextInv ==
  ASSUME HarnessInv, [Next]_vars
  PROVE  HarnessInv'
<1>1. ASSUME NEW w \in Workers, Harness(w) PROVE HarnessInv'
  BY <1>1, ClaimFileInv, LoadedInv, LoadFailsInv, SkipsBlockedInv, StartTestInv, EndSuiteInv,
     ProjectReadyInv, ProjectFailsInv, RaceInv, JudgeInv, RemovedInv, RemoveFailsInv DEF Harness
<1>2. CASE (\E t \in Tests : BodyStep(t)) \/ (\E f \in Files : ModuleCallback(f))
  BY <1>2, BodyHasEffect, BodyKeepsInv DEF HarnessInv
<1>3. CASE UNCHANGED vars
  <2>1. /\ UNCHANGED <<worker, nextFile, ran, results, blocked, broken, race, fallback, report>>
        /\ UNCHANGED <<body, ops, open, credited, writing, written, sandbox>>
    BY <1>3 DEF vars
  <2>2. BodyEffect
    BY <2>1 DEF BodyEffect
  <2>3. HarnessTypes'
    BY <2>1 DEF HarnessInv, HarnessTypes
  <2> QED
    BY <2>2, <2>3, BodyKeepsInv
<1> QED
  BY <1>1, <1>2, <1>3, ReportInv DEF Next

LEMMA InitInv == Init => HarnessInv
<1> SUFFICES ASSUME Init PROVE HarnessInv
  OBVIOUS
<1>1. HarnessTypes
  BY TestType, IdleFields DEF Init, HarnessTypes, FileResults, NoResults
<1>2. \A w \in Workers : worker[w].at = "idle"
  BY IdleFields DEF Init
<1>3. Exclusive /\ TestInv /\ ReportIsComplete
  BY <1>2 DEF Init, Exclusive, Engaged, Has, TestInv, ReportIsComplete, NoReport
<1>4. ASSUME NEW w \in Workers PROVE WorkerInv(w)
  BY <1>2 DEF WorkerInv, Placed, KnowsItsTest, Progress, Engaged, Busy
<1>5. ASSUME NEW f \in Files PROVE FileInv(f)
  <2>1. ran[f] = <<>> /\ Ran(f) = {} /\ results[f] = NoResults /\ broken = {} /\ nextFile = 1
    BY DEF Init, Ran
  <2>2. \A t \in Tests : body[t] = "unborn"
    BY DEF Init
  <2>3. f \in Nat /\ ~(f < nextFile)
    BY <2>1, TestType
  <2> QED
    BY <2>1, <2>2, <2>3 DEF FileInv
<1> QED
  BY <1>1, <1>3, <1>4, <1>5 DEF HarnessInv

LEMMA InvEarns ==
  ASSUME HarnessInv
  PROVE  ReportIsEarned
<1>1. \A t \in Tests, status \in Status3 : Result(t, status) \in Outcomes => Settled(t, status)
  <2> SUFFICES ASSUME NEW t \in Tests, NEW status \in Status3, Result(t, status) \in Outcomes
               PROVE  Settled(t, status)
    OBVIOUS
  <2>1. PICK f \in Files : Result(t, status) \in Ran(f)
    BY DEF Outcomes, Ran
  <2>2. Result(t, status).test = t /\ Result(t, status).status = status
    BY DEF Result
  <2> QED
    BY <2>1, <2>2 DEF HarnessInv, FileInv
<1>2. PassedIsEarned
  <2>1. \A t \in Tests : credited[t] \in {NoTest, t} \/ Overheard(t)
    BY DEF HarnessInv, TestInv, Overheard, Strands
  <2> QED BY <1>1, <2>1 DEF PassedIsEarned, Settled, Passes, Status3
<1>3. SandboxIsAccountedFor
  BY <1>1 DEF SandboxIsAccountedFor, Settled, Status3
<1> QED
  BY <1>2, <1>3 DEF ReportIsEarned, HarnessInv

(* Whatever the bodies do, and in whatever order the workers go: what is      *)
(* reported as passed is earned, a sandbox that is left behind is accounted    *)
(* for, and an exit code of 0 misses no test (runner.ts, activity.ts,          *)
(* expect.ts, native-test-batch.ts).                                         *)
THEOREM ReportsAreEarned == Spec => []ReportIsEarned
<1>1. Init => HarnessInv
  BY InitInv
<1>2. HarnessInv /\ [Next]_vars => HarnessInv'
  BY NextInv
<1>3. HarnessInv => ReportIsEarned
  BY InvEarns
<1> QED
  BY <1>1, <1>2, <1>3, PTL DEF Spec
-----------------------------------------------------------------------------
(* Why no edit is forgotten.  A stamp is new whenever it is given, so what was  *)
(* seen before an edit differs from what is there after it.                   *)
Seen == {Unknown} \cup (0 .. edits + 1)

WTypeOK ==
  /\ edits \in Nat
  /\ stamp \in [WatchFiles -> 0 .. edits + 1]
  /\ previous \in [WatchFiles -> Seen]
  /\ tested \in [WatchFiles -> Seen]
  /\ armed \in BOOLEAN
  /\ read \subseteq WatchFiles /\ pending \subseteq WatchFiles

(* Every variable of the watch has its type, for any files and any number of   *)
(* edits (NewWatcher, Poll, Run).                                            *)
LEMMA WatchTypes == ASSUME WTypeOK, [WatchNext]_wvars PROVE WTypeOK'
<1> USE DEF WTypeOK, Seen, Unknown
<1>1. ASSUME NEW f \in WatchFiles, Edit(f) PROVE WTypeOK'
  BY <1>1 DEF Edit
<1>2. ASSUME NEW f \in WatchFiles, RunReads(f) PROVE WTypeOK'
  BY <1>2 DEF RunReads
<1>3. CASE Start \/ RunEnds
  BY <1>3 DEF Start, RunEnds, Baseline
<1>4. CASE Poll
  BY <1>4 DEF Poll, Changed, Rearmed
<1>5. CASE PollFails \/ DebounceFires \/ Interrupt \/ UNCHANGED wvars
  BY <1>5 DEF PollFails, DebounceFires, Interrupt, wvars
<1> QED
  BY <1>1, <1>2, <1>3, <1>4, <1>5 DEF WatchNext

(* No step of the user, of the run or of the loop loses an edit.             *)
LEMMA EditsAreKept ==
  ASSUME WTypeOK, NoEditIsForgotten, [WatchNext]_wvars PROVE NoEditIsForgotten'
<1> SUFFICES ASSUME NEW f \in WatchFiles, (loop \in {"running", "waiting"})',
                    (tested[f] # stamp[f])', (stamp[f] # 0)'
             PROVE  (\/ previous[f] # stamp[f] \/ (f \in pending /\ armed) \/ (loop = "running" /\ f \notin read))'
  BY DEF NoEditIsForgotten
<1> USE DEF WTypeOK, Seen, Unknown
<1>1. ASSUME NEW g \in WatchFiles, Edit(g)
      PROVE  (\/ previous[f] # stamp[f] \/ (f \in pending /\ armed) \/ (loop = "running" /\ f \notin read))'
  BY <1>1 DEF Edit, NoEditIsForgotten
<1>2. ASSUME NEW g \in WatchFiles, RunReads(g)
      PROVE  (\/ previous[f] # stamp[f] \/ (f \in pending /\ armed) \/ (loop = "running" /\ f \notin read))'
  BY <1>2 DEF RunReads, NoEditIsForgotten
<1>3. CASE Start
  BY <1>3 DEF Start
<1>4. CASE RunEnds
  BY <1>4 DEF RunEnds, Baseline, NoEditIsForgotten
<1>5. CASE Poll
  BY <1>5 DEF Poll, Changed, Rearmed, NoEditIsForgotten
<1>6. CASE PollFails \/ DebounceFires \/ Interrupt \/ UNCHANGED wvars
  BY <1>6 DEF PollFails, DebounceFires, Interrupt, wvars, NoEditIsForgotten
<1> QED
  BY <1>1, <1>2, <1>3, <1>4, <1>5, <1>6 DEF WatchNext

(* For any files and edits: an edit that no run has seen is one that the next   *)
(* poll, the running timer or the run under way will see.                     *)
THEOREM NothingIsForgotten == WatchSpec => []NoEditIsForgotten
<1>1. WatchInit => WTypeOK /\ NoEditIsForgotten
  <2> SUFFICES ASSUME WatchInit PROVE WTypeOK /\ NoEditIsForgotten
    OBVIOUS
  <2>1. stamp \in [WatchFiles -> 0 .. edits + 1] /\ edits \in Nat
    <3>1. edits = 0 /\ stamp \in [WatchFiles -> {0, 1}]
      BY DEF WatchInit
    <3>2. {0, 1} = 0 .. edits + 1
      BY <3>1
    <3> QED
      BY <3>1, <3>2
  <2>2. NoEditIsForgotten /\ armed \in BOOLEAN /\ read \subseteq WatchFiles /\ pending \subseteq WatchFiles
    BY DEF WatchInit, NoEditIsForgotten
  <2>3. previous \in [WatchFiles -> Seen] /\ tested \in [WatchFiles -> Seen]
    BY DEF WatchInit, Seen
  <2> QED
    BY <2>1, <2>2, <2>3 DEF WTypeOK
<1>2. WTypeOK /\ NoEditIsForgotten /\ [WatchNext]_wvars => (WTypeOK /\ NoEditIsForgotten)'
  BY WatchTypes, EditsAreKept
<1> QED
  BY <1>1, <1>2, PTL DEF WatchSpec
=============================================================================
