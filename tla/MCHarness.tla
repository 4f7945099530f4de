------------------------------- MODULE MCHarness -------------------------------
(* The test harness for TLC: in one part of the behaviours a batch run of two  *)
(* workers, in the other a watch; a part leaves the other's state alone.       *)
EXTENDS NativeTests

VARIABLE part

T(typed, project, required, acts) ==
  [typed |-> typed, project |-> project, keep |-> FALSE, required |-> required, acts |-> acts]

(* The first file has a test with a sandbox and one whose type assertion may  *)
(* fail, the second one a test with an artifact.                              *)
MCFileTests ==
  << <<T(TRUE, TRUE, FALSE, 1)>>,
     <<T(FALSE, FALSE, TRUE, 2)>> >>

HInit ==
  /\ Init /\ WatchInit
  /\ part \in {"tests", "watch"}
  /\ part = "tests" => \A f \in WatchFiles : stamp[f] = 1

Testing == part = "tests" /\ UNCHANGED <<part, wvars>>
Watching == part = "watch" /\ UNCHANGED <<part, vars>>

HNext == (Testing /\ Next) \/ (Watching /\ WatchNext)

(* The fairness of both modules, each in its part. *)
hvars == <<part, vars, wvars>>

HFairness ==
  /\ WF_hvars(Testing /\ Report)
  /\ \A w \in Workers : WF_hvars(Testing /\ Harness(w))
  /\ WF_hvars(Watching /\ Start)
  /\ WF_hvars(Watching /\ RunEnds)
  /\ WF_hvars(Watching /\ Poll)
  /\ WF_hvars(Watching /\ DebounceFires)
  /\ \A f \in WatchFiles : WF_hvars(Watching /\ RunReads(f))

HSpec == HInit /\ [][HNext]_hvars /\ HFairness

(* A batch run comes to its report, and a watch to a run that has read the last  *)
(* edit of every file.                                                        *)
EveryRunIsAnswered ==
  /\ part = "tests" => Reports
  /\ part = "watch" => EveryEditIsTested
=============================================================================
