------------------------------ MODULE MCBuilds -------------------------------
(* What a build is used for.  Four scenes that share nothing: the tests of a   *)
(* workflow on what one coordinator builds, a generated page in the browser,   *)
(* runs of Skyrim, and the creation of a fixture of it.                      *)
EXTENDS BuiltTests, Skyrim, BrowserRuntime

VARIABLE scene

MCOverlays ==
  {[config |-> FALSE, ini |-> TRUE, controller |-> FALSE], [config |-> TRUE, ini |-> TRUE, controller |-> TRUE]}

(* A menu that shows an item, opens a tip besides it, and hides both; the item  *)
(* of the artifact wants the same tip.                                        *)
MCEnvelope == [menu |-> [parent |-> "none", state |-> "closed"], item |-> [parent |-> "menu", state |-> "off"]]
Toggle == [off |-> "on", on |-> "off"]
MCNextState == [menu |-> [closed |-> "open", open |-> "away", away |-> "closed"],
                item |-> Toggle, tip |-> Toggle]
MCBranchOf == [menu |-> [closed |-> <<"item">>, open |-> <<"item", "tip">>], item |-> [on |-> <<"tip">>]]
MCFirstState == [item |-> "off", tip |-> "off"]
MCFirstLabel == [menu |-> "closed", item |-> "off", tip |-> "off"]

ASSUME SceneConstants == SessionAssumption

-----------------------------------------------------------------------------
(* An application that depends on a library; two tests that bind the          *)
(* application to the same place, one of them also the library, which a Build *)
(* effect rebuilds at the same time.                                          *)
MCDependsOn == [lib |-> <<>>, app |-> <<"lib">>]
MCEffect ==
  [first |-> [kind |-> "test", needs |-> <<"app">>, fixtures |-> <<[producer |-> "app", at |-> "d1"]>>],
   second |-> [kind |-> "test", needs |-> <<"app", "lib">>,
               fixtures |-> <<[producer |-> "app", at |-> "d1"], [producer |-> "lib", at |-> "d2"]>>],
   rebuild |-> [kind |-> "build", needs |-> <<"lib">>, fixtures |-> <<>>]]
MCRevisions == <<"v1", "v2">>
MCEarlier ==
  {[d1 |-> Nothing, d2 |-> Unmanaged], [d1 |-> Projection, d2 |-> Nothing],
   [d1 |-> Built("app", "v1", "v1"), d2 |-> Projection],
   [d1 |-> Built("lib", "v1", "v1"), d2 |-> Built("lib", "v1", "v1")]}
MCEffects == DOMAIN MCEffect

-----------------------------------------------------------------------------
(* The two other scenes rest where they begin.                               *)
SkyrimAtRest ==
  /\ overlay = [config |-> FALSE, ini |-> TRUE, controller |-> FALSE]
  /\ place = [dll |-> "absent", config |-> "absent", ini |-> "plain", plugins |-> "foreign"]

MCInit ==
  /\ scene \in {"tests", "page", "skyrim", "fixture"}
  /\ Init /\ (scene # "tests" => output["lib"] = Absent /\ fixture = [d1 |-> Nothing, d2 |-> Unmanaged])
  /\ SessionInit /\ (scene # "skyrim" => SkyrimAtRest)
  /\ FixtureInit
  /\ PageInit

MCNext ==
  \/ scene = "tests" /\ Next /\ UNCHANGED <<scene, skyrimVars, fixtureVars, pageVars>>
  \/ scene = "page" /\ PageNext /\ UNCHANGED <<scene, vars, skyrimVars, fixtureVars>>
  \/ scene = "skyrim" /\ SessionNext /\ UNCHANGED <<scene, vars, fixtureVars, pageVars>>
  \/ scene = "fixture" /\ CreateNext /\ UNCHANGED <<scene, vars, skyrimVars, pageVars>>

MCFair == \A e \in Effects : WF_vars(scene = "tests" /\ Work(e) /\ UNCHANGED <<scene, skyrimVars, fixtureVars, pageVars>>)

MCSpec == MCInit /\ [][MCNext]_<<scene, vars, skyrimVars, fixtureVars, pageVars>> /\ MCFair

-----------------------------------------------------------------------------
(* Every effect of the workflow ends (BuiltTests).                            *)
SceneEnds == scene = "tests" => EffectsEnd
=============================================================================
