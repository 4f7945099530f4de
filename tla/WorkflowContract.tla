-------------------------- MODULE WorkflowContract --------------------------
(***************************************************************************)
(* What Executor.RunFlow promises whoever calls it, whatever flow it runs: *)
(* an effect is started at most once; nothing starts after the call has    *)
(* returned; nothing is still at work when it returns; and after Ctrl+C    *)
(* only cleanup effects are started.                                       *)
(***************************************************************************)
CONSTANTS Effect, Cleanup

VARIABLES
  work,      \* whether an effect is idle, at work or ended
  stopped,   \* Ctrl+C
  returned   \* the call has returned

vars == <<work, stopped, returned>>

Init ==
  /\ work = [e \in Effect |-> "idle"]
  /\ stopped = FALSE
  /\ returned = FALSE

Launch(e) ==
  /\ ~returned
  /\ work[e] = "idle"
  /\ stopped => e \in Cleanup
  /\ work' = [work EXCEPT ![e] = "working"]
  /\ UNCHANGED <<stopped, returned>>

End(e) ==
  /\ work[e] = "working"
  /\ work' = [work EXCEPT ![e] = "ended"]
  /\ UNCHANGED <<stopped, returned>>

Stop ==
  /\ ~returned
  /\ stopped' = TRUE
  /\ UNCHANGED <<work, returned>>

Return ==
  /\ ~returned
  /\ \A e \in Effect : work[e] # "working"
  /\ returned' = TRUE
  /\ UNCHANGED <<work, stopped>>

Next == Stop \/ Return \/ \E e \in Effect : Launch(e) \/ End(e)

Spec == Init /\ [][Next]_vars
=============================================================================
