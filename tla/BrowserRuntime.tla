---------------------------- MODULE BrowserRuntime ----------------------------
(* The browser runtime of generated pages (browser-v1): component frames hold  *)
(* the state and project it on attachment plans; a plan waits for its host in  *)
(* the document, is mounted there, follows the host when the page replaces it  *)
(* and is updated when its frame changes.  Every frame here has one            *)
(* attachment, named like the frame.  A plan is the label it shows; two plans  *)
(* with one label are still two objects, and what waits remembers its own.     *)
EXTENDS Naturals, SequencesExt

CONSTANTS
  Envelope,     \* the frames of the artifact: id -> [parent, state]
  NextState,    \* id -> the transition of its event, state -> state
  BranchOf,     \* id -> state -> the children its presentation shows, in order
  FirstState,   \* id of a projected child -> its initial state
  FirstLabel,   \* id -> the label of its attachment in the artifact
  MaxHosts      \* bound: hosts the page creates

NoFrame == "none"

(* The frames of the artifact are a forest, and what a branch shows has a first *)
(* state, as the compiler emits them; the runtime checks neither.              *)
ASSUME PageAssumption ==
  /\ NoFrame \notin DOMAIN Envelope \cup DOMAIN FirstState
  /\ \A f \in DOMAIN Envelope : Envelope[f].parent \in DOMAIN Envelope \cup {NoFrame}
  /\ \A F \in SUBSET DOMAIN Envelope : F # {} => \E f \in F : Envelope[f].parent \notin F
  /\ \A f \in DOMAIN Envelope : \A s \in DOMAIN BranchOf[f] : BranchOf[f][s] \in Seq(DOMAIN FirstState)

VARIABLES
  page,           \* [frames, plans, pending, mounted, threw], the runtime's maps
  framesLoaded, plansLoaded,
  host, hosts,    \* whether the document has the host; how many it had
  mutated,        \* the document changed and the observers did not run yet
  dispatched      \* the frame whose event was just handled to the end

pageVars == <<page, framesLoaded, plansLoaded, host, hosts, mutated, dispatched>>

Active(p) == DOMAIN p.frames
Children(p, f) == {g \in Active(p) : p.frames[g].parent = f}
Empty == <<>>
Put(map, key, value) == [k \in DOMAIN map \cup {key} |-> IF k = key THEN value ELSE map[k]]

(* A frame that the envelope created has branches; one that a branch created   *)
(* shows itself only.                                                         *)
Shown(p, f) ==
  IF f \in DOMAIN Envelope /\ p.frames[f].branches /\ p.frames[f].state \in DOMAIN BranchOf[f]
  THEN BranchOf[f][p.frames[f].state] ELSE <<>>

-----------------------------------------------------------------------------
(* Plans.                                                                    *)

(* What already waits keeps waiting for the plan it was created with.          *)
Await(p, f) ==
  [p EXCEPT !.pending =
     IF f \in DOMAIN @ THEN [@ EXCEPT ![f].current = FALSE]
     ELSE Put(@, f, [label |-> p.plans[f], current |-> TRUE])]

(* registerAttachmentPlans for one plan, the others as they are: the plan is   *)
(* registered before the element is updated, which fails without a host; what  *)
(* failed goes no further.                                                   *)
PutPlan(p, f, label) ==
  IF p.threw \/ (f \in DOMAIN p.plans /\ p.plans[f] = label) THEN p
  ELSE LET q == [p EXCEPT !.plans = Put(@, f, label)]
       IN CASE f \notin DOMAIN p.mounted -> Await(q, f)
            [] f \in DOMAIN p.mounted /\ host -> [q EXCEPT !.mounted[f].label = label]
            [] OTHER -> [q EXCEPT !.threw = TRUE]

Forget(p, fs) ==
  [p EXCEPT !.plans = Restrict(@, DOMAIN @ \ fs),
            !.pending = Restrict(@, DOMAIN @ \ fs),
            !.mounted = Restrict(@, DOMAIN @ \ fs)]

-----------------------------------------------------------------------------
(* Frames.                                                                   *)
Below_Itself(p, f) == {f}

(* The frame, its children, theirs, and so on.                               *)
Below(p, f) ==
  {g \in Active(p) :
     \A F \in SUBSET Active(p) : f \in F /\ (\A h \in F : Children(p, h) \subseteq F) => g \in F}

Destroyed(p, fs) ==
  LET gone == UNION {Below(p, f) : f \in fs}
  IN [Forget(p, gone) EXCEPT !.frames = Restrict(@, DOMAIN @ \ gone)]

Created(p, parent, f) ==
  PutPlan([p EXCEPT !.frames = Put(@, f, [parent |-> parent, state |-> FirstState[f], branches |-> FALSE])],
          f, FirstLabel[f])

(* A child the branch shows is created, or has to be the frame's own.          *)
Adopted(p, f, g) ==
  CASE p.threw -> p
    [] ~p.threw /\ g \notin Active(p) -> Created(p, f, g)
    [] OTHER -> [p EXCEPT !.threw = p.frames[g].parent # f]

Grown(p, f, shown) ==
  LET upTo[n \in 0 .. Len(shown)] == IF n = 0 THEN p ELSE Adopted(upTo[n - 1], f, shown[n])
  IN upTo[Len(shown)]

(* A child that was there before gets the plan its artifact gives it.           *)
Replanned(p, kept, shown) ==
  LET upTo[n \in 0 .. Len(shown)] ==
        IF n = 0 THEN p
        ELSE IF shown[n] \in kept THEN PutPlan(upTo[n - 1], shown[n], FirstLabel[shown[n]])
        ELSE upTo[n - 1]
  IN upTo[Len(shown)]

(* replaceComponentFrameProjection: what the branch no longer shows is         *)
(* destroyed, what it newly shows is created, and the plans of the frame and   *)
(* of the children it keeps are replaced.  A failure leaves what was done      *)
(* until then.                                                               *)
Project(p, f) ==
  LET shown == Shown(p, f)
      pruned == Destroyed(p, Children(p, f) \ ToSet(shown))
      grown == Grown(pruned, f, shown)
  IN Replanned(PutPlan(grown, f, p.frames[f].state), Active(pruned), shown)

(* dispatchComponentEvent: the new state is kept even when the plans are not   *)
(* there yet, or when projecting it fails.                                    *)
Handled(f) ==
  LET p == [page EXCEPT !.frames[f].state = NextState[f][@]]
  IN IF f \in DOMAIN p.plans THEN Project(p, f) ELSE [p EXCEPT !.threw = TRUE]

Dispatch(f) ==
  /\ f \in Active(page) /\ page.frames[f].state \in DOMAIN NextState[f]
  /\ LET p == Handled(f)
     IN /\ page' = [p EXCEPT !.threw = FALSE]
        /\ dispatched' = IF p.threw THEN NoFrame ELSE f
  /\ UNCHANGED <<framesLoaded, plansLoaded, host, hosts, mutated>>

-----------------------------------------------------------------------------
(* The two artifacts are loaded by two scripts that do not wait for each other. *)
LoadFrames ==
  /\ ~framesLoaded /\ framesLoaded' = TRUE
  /\ page' = [page EXCEPT !.frames =
                [f \in DOMAIN Envelope |->
                   [parent |-> Envelope[f].parent, state |-> Envelope[f].state, branches |-> TRUE]]]
  /\ dispatched' = NoFrame
  /\ UNCHANGED <<plansLoaded, host, hosts, mutated>>

LoadPlans ==
  /\ ~plansLoaded /\ plansLoaded' = TRUE
  /\ page' = [page EXCEPT !.plans = [f \in DOMAIN Envelope |-> FirstLabel[f]],
                          !.pending = [f \in DOMAIN Envelope |-> [label |-> FirstLabel[f], current |-> TRUE]]]
  /\ dispatched' = NoFrame
  /\ UNCHANGED <<framesLoaded, host, hosts, mutated>>

(* The calls of the application.                                              *)
DestroyFrames(fs) ==
  /\ fs # {} /\ fs \subseteq Active(page)
  /\ page' = Destroyed(page, fs)
  /\ dispatched' = NoFrame
  /\ UNCHANGED <<framesLoaded, plansLoaded, host, hosts, mutated>>

ShutdownPlans ==
  /\ plansLoaded
  /\ page' = Forget(page, DOMAIN page.plans)
  /\ dispatched' = NoFrame
  /\ UNCHANGED <<framesLoaded, plansLoaded, host, hosts, mutated>>

-----------------------------------------------------------------------------
(* The document: the page adds, removes or replaces the host; the observers    *)
(* run before the next task does.                                             *)
HostChanges ==
  /\ \/ host /\ host' = FALSE /\ UNCHANGED hosts
     \/ hosts < MaxHosts /\ hosts' = hosts + 1 /\ host' = TRUE
  /\ mutated' = TRUE /\ dispatched' = NoFrame
  /\ page' = [page EXCEPT !.mounted = [f \in DOMAIN @ |-> [@[f] EXCEPT !.inHost = FALSE]]]
  /\ UNCHANGED <<framesLoaded, plansLoaded>>

(* recoverDisconnectedAttachment of every attachment whose host is gone, with  *)
(* the plan that is registered now.                                           *)
Recovered(p) ==
  LET lost == {f \in DOMAIN p.mounted : ~p.mounted[f].inHost}
  IN [p EXCEPT !.mounted = Restrict(@, DOMAIN @ \ lost),
               !.pending = [f \in lost \cup DOMAIN @ |->
                              IF f \in lost THEN [label |-> p.plans[f], current |-> TRUE] ELSE @[f]]]

Observe ==
  /\ mutated /\ mutated' = FALSE
  /\ page' = Recovered(page)
  /\ dispatched' = NoFrame
  /\ UNCHANGED <<framesLoaded, plansLoaded, host, hosts>>

(* tryMount, after two animation frames or a change of the document: only when *)
(* the plan that waited is still the registered one.  The element listens to   *)
(* clicks only when its frame is registered at that moment.                    *)
StillRegistered_Always(f) == TRUE

StillRegistered(f) == page.pending[f].current

TryMount(f) ==
  /\ f \in DOMAIN page.pending /\ host /\ StillRegistered(f)
  /\ page' = [page EXCEPT
       !.pending = Restrict(@, DOMAIN @ \ {f}),
       !.mounted = Put(@, f, [label |-> page.pending[f].label, inHost |-> TRUE, listens |-> f \in Active(page)])]
  /\ dispatched' = NoFrame
  /\ UNCHANGED <<framesLoaded, plansLoaded, host, hosts, mutated>>

(* The timer of five seconds.                                                 *)
GiveUp(f) ==
  /\ f \in DOMAIN page.pending
  /\ page' = [page EXCEPT !.pending = Restrict(@, DOMAIN @ \ {f})]
  /\ dispatched' = NoFrame
  /\ UNCHANGED <<framesLoaded, plansLoaded, host, hosts, mutated>>

PageInit ==
  /\ page = [frames |-> Empty, plans |-> Empty, pending |-> Empty, mounted |-> Empty, threw |-> FALSE]
  /\ framesLoaded = FALSE /\ plansLoaded = FALSE
  /\ host = FALSE /\ hosts = 0 /\ mutated = FALSE /\ dispatched = NoFrame

PageNext ==
  \/ LoadFrames \/ LoadPlans \/ ShutdownPlans \/ HostChanges \/ Observe
  \/ DestroyFrames(Active(page))
  \/ \E f \in Active(page) : Dispatch(f) \/ DestroyFrames({f})
  \/ \E f \in DOMAIN page.pending : TryMount(f) \/ GiveUp(f)

PageSpec == PageInit /\ [][PageNext]_pageVars

-----------------------------------------------------------------------------
(* What waits or is mounted has a plan, and not both at once; a frame that a    *)
(* branch created is there only while the frame that owns it is; and an event   *)
(* that was handled to the end leaves exactly the children its new state shows, *)
(* each with a plan, however the hosts came and went (destroyComponentFrame,    *)
(* replaceComponentFrameProjection).                                          *)
FramesAreExact ==
  /\ DOMAIN page.mounted \cup DOMAIN page.pending \subseteq DOMAIN page.plans
  /\ DOMAIN page.mounted \cap DOMAIN page.pending = {}
  /\ DOMAIN page.plans \subseteq DOMAIN Envelope \cup Active(page)
  /\ \A f \in Active(page) : page.frames[f].parent \in Active(page) \cup {NoFrame}
  /\ dispatched # NoFrame =>
       /\ Children(page, dispatched) = ToSet(Shown(page, dispatched))
       /\ {dispatched} \cup Children(page, dispatched) \subseteq DOMAIN page.plans
       /\ page.plans[dispatched] = page.frames[dispatched].state

(* Once the observers ran, every mounted attachment is in the host the document *)
(* has and shows the plan that is registered, not one that was replaced while   *)
(* it waited (waitForAttachmentHost, recoverDisconnectedAttachment).           *)
MountedShowsItsPlan ==
  ~mutated => \A f \in DOMAIN page.mounted :
    page.mounted[f].label = page.plans[f] /\ host /\ page.mounted[f].inHost

(* Both, at every moment of the page.                                       *)
PageIsExact == FramesAreExact /\ MountedShowsItsPlan
=============================================================================
