----------------------------- MODULE MCResolver -----------------------------
(***************************************************************************)
(* Four registry packages and a local one.  1 and 2 are wanted directly, 2   *)
(* from two places in two ranges, so that one of them controls; 1 needs 2    *)
(* in another range that selects the same version, in the same frontier as   *)
(* the direct one; 3 is a peer that two packages want in two ranges and      *)
(* that has a peer itself; 4 is optional.                                    *)
(***************************************************************************)
EXTENDS Resolver

One == 1
Two == 2
Three == 3
Four == 4
Place == 5

Dep(n, r) == [name |-> n, range |-> r, ref |-> n, optional |-> FALSE]
Maybe(n, r) == [Dep(n, r) EXCEPT !.optional = TRUE]
Version(deps, peers) == [deps |-> deps, peers |-> peers]
Bare == Version(<<>>, <<>>)

MCRangeOf == <<{1}, {1, 2}, {2}, {1, 2, 3}, {}>>
MCBadRanges == {5}

MCPublished ==
  1 :> (1 :> Version(<<Dep(Two, 2), Maybe(Four, 4)>>, <<Dep(Three, 1)>>)
        @@ 2 :> Version(<<Dep(Two, 3), Maybe(Four, 5)>>, <<Dep(Three, 4)>>))
  @@ 2 :> (1 :> Version(<<>>, <<Dep(Three, 3)>>) @@ 2 :> Version(<<Dep(Four, 1)>>, <<Dep(Three, 5), Dep(Three, 1), Maybe(Four, 3)>>) @@ 3 :> Bare)
  @@ 3 :> (1 :> Version(<<>>, <<Dep(Four, 4)>>) @@ 2 :> Version(<<Dep(One, 1)>>, <<>>))
  @@ 4 :> (1 :> Bare)

MCLocal == 5 :> [valid |-> TRUE, walks |-> TRUE, deps |-> <<Dep(Two, 2)>>, peers |-> <<Maybe(Three, 1)>>]

Root(k) == <<"root", k, 0>>
Want(n, r, k, kind) ==
  [name |-> n, range |-> r, ref |-> n, from |-> Root(k), edge |-> "runtime",
   optional |-> FALSE, scope |-> 0, kind |-> kind]

Explicit(n, r, k) == Want(n, r, k, "project-explicit")
Manifest(direct) == [direct |-> direct, denied |-> {}]

Rich ==
  Manifest(<<Explicit(One, 2, 1), Explicit(Two, 4, 1), Explicit(Place, 1, 1),
             Explicit(Two, 2, 2), Want(Two, 4, 3, "target-explicit")>>)

(* Two packages need 4 in two ranges; the peer they want is wanted by the   *)
(* project, too.                                                             *)
Shared ==
  Manifest(<<Explicit(One, 1, 1), Explicit(Two, 3, 1), Explicit(Place, 1, 2),
             [Explicit(Three, 4, 2) EXCEPT !.optional = TRUE]>>)

(* The peer of 2 brings a package that wants the same peer in another range. *)
Moved == Manifest(<<Explicit(Two, 1, 1)>>)

Refused == [Rich EXCEPT !.denied = {Four}]
RefusedAtOnce == [Shared EXCEPT !.denied = {Two, Three}]

MCManifests == {Rich, Shared, Moved, Refused, RefusedAtOnce}

Good == [arrives |-> TRUE, required |-> TRUE, integrity |-> "right", manifest |-> "ok",
         locked |-> "none", captured |-> TRUE]
MCArtifacts == {Good, [Good EXCEPT !.locked = "different"]}
=============================================================================
