------------------------ MODULE Materializer_proofs ------------------------
(***************************************************************************)
(* What a sync leaves behind, for every lock, tree and number of faults:     *)
(* SyncedIsWhole, MarkerIsSound and CleanIsExact of Materializer.  Invariant  *)
(* says of every step what the end of the sync needs: what has been placed     *)
(* stays until the marker is written, and whatever a marker promises is there  *)
(* or below what somebody has deleted or another sync has removed, where       *)
(* nothing but fixtures is.                                                  *)
(***************************************************************************)
EXTENDS Materializer, TLAPS

(* The operations that are behind.                                           *)
Did == Len(plan.operations) - Len(queue)
Behind == {plan.operations[i] : i \in 1 .. Did}

HasPlace(f) == f.source = f.dest \/ f.dest \in FixtureSpots
HavePlaces(s) == s \in Seq(ToSet(s)) /\ \A f \in ToSet(s) : HasPlace(f)

(* A command has a plan, without collisions once it has begun to work; the queue *)
(* is what is left of it.                                                    *)
Typed ==
  /\ TypeOK
  /\ \A x \in tree : IsDestination(x.dest) /\ x.dest \in Origins
  /\ pc # "idle" \/ path # "none" => plan \in Layouts
  /\ pc \notin {"idle", "begun"} \/ path # "none" => ~plan.collides
  /\ pc \in {"fixtures", "bind"} => path # "none"
  /\ pc \in {"clean", "work"} => path = "long" /\ gone = {}
  /\ pc = "clean" => queue = plan.operations
  /\ pc = "work" =>
       /\ queue \in Seq(ToSet(plan.operations)) /\ Did \in Nat
       /\ \A i \in 1 .. Len(queue) : queue[i] = plan.operations[Did + i]
  /\ pc \in {"begun", "clean", "work"} /\ diags = {} => failed = {} /\ phase = 0
  /\ pc = "bind" => HavePlaces(queue)
  /\ HavePlaces(bound)

(* What the operations behind have placed is there; what was there before them  *)
(* in the workspace's node_modules is pruned or will be replaced.              *)
Placing ==
  pc = "work" /\ diags = {} =>
    /\ \A op \in Behind : op.what.kind # "refuse" /\ (Places(op) => Placement(op) \in tree)
    /\ req.clean => \A x \in tree : x.dest[1] = "root" => x \in Placed
    /\ plan.nested =>
         \A x \in tree : x.dest[1] = "root" =>
           \/ x \in Placed
           \/ \A op \in Behind : IF op.what.kind = "prune" THEN SubSeq(x.dest, 1, 2) \in Kept
                                                         ELSE op.dest # SubSeq(x.dest, 1, 2)

(* Below what somebody has deleted there is nothing but fixtures.               *)
Emptied == \A d \in gone, y \in tree : AtOrUnder(y.dest, d) => y.dest \in FixtureSpots

(* Something the marker promises is there, or below a fixture, or below what      *)
(* somebody has deleted or another sync has removed.                          *)
Vouches(x) ==
  x \in tree \/ UnderFixture(x.dest) \/ Disturbed(x.dest) \/ \E d \in gone : AtOrUnder(x.dest, d)

Vouched ==
  /\ Emptied
  /\ \/ marker = NoMarker
     \/ \E p \in Layouts : ~p.collides /\ marker = MarkerOf(p) /\ \A x \in PlacedBy(p) : Vouches(x)

Exact == \A x \in tree : x.dest[1] = "root" => x \in Placed \/ x.dest \in FixtureSpots

(* Once the packages are in place, fixtures change nothing outside their places. *)
Over == pc \in {"fixtures", "bind"} \/ (pc = "idle" /\ path # "none" /\ diags = {})

Settling ==
  Over =>
    /\ path = "long" => /\ Whole /\ marker = MarkerOf(plan)
                        /\ req.clean \/ plan.nested => Exact
    /\ path = "fast" => \A x \in Placed : Accounted(x)

Invariant == Typed /\ Placing /\ Vouched /\ Settling

-----------------------------------------------------------------------------
LEMMA LayoutIsSound ==
  ASSUME Typed, ~plan.collides, plan \in Layouts
  PROVE  SoundLayout(plan)
BY LayoutAssumption DEF Layouts

LEMMA PairIsTwo ==
  ASSUME NEW S, NEW s \in Seq(S), Len(s) = 2
  PROVE  s = <<s[1], s[2]>>
<1>1. s = [i \in 1 .. 2 |-> s[i]]
  OBVIOUS
<1>2. <<s[1], s[2]>> = [i \in 1 .. 2 |-> <<s[1], s[2]>>[i]]
  OBVIOUS
<1>3. \A i \in 1 .. 2 : <<s[1], s[2]>>[i] = s[i]
  OBVIOUS
<1>4. [i \in 1 .. 2 |-> <<s[1], s[2]>>[i]] = [i \in 1 .. 2 |-> s[i]]
  BY <1>3, Zenon
<1> QED BY <1>1, <1>2, <1>4, Zenon

LEMMA RootNames ==
  ASSUME NEW n
  PROVE  Append(Project, n) = <<"root", n>>
<1> DEFINE s == Append(<<"root">>, n)
<1>1. <<"root">> \in Seq({"root", n})
  OBVIOUS
<1>2. s \in Seq({"root", n}) /\ Len(s) = 2 /\ s[1] = "root" /\ s[2] = n
  BY <1>1
<1>3. s = <<"root", n>>
  <2> HIDE DEF s
  <2> QED BY <1>2, PairIsTwo
<1> QED BY <1>3 DEF Project

LEMMA DestinationIsSeq ==
  ASSUME NEW d, IsDestination(d)
  PROVE  d \in Seq({d[i] : i \in 1 .. Len(d)}) /\ Len(d) \in Nat \ {0}
BY DEF IsDestination

LEMMA UnderItself ==
  ASSUME NEW d, IsDestination(d)
  PROVE  AtOrUnder(d, d)
BY DEF AtOrUnder, IsDestination

(* The name in the workspace's node_modules.                                 *)
LEMMA RootName ==
  ASSUME NEW d, IsDestination(d), d[1] = "root"
  PROVE  /\ SubSeq(d, 1, 2) = <<"root", d[2]>>
         /\ \A n : AtOrUnder(d, <<"root", n>>) <=> n = d[2]
<1>1. Len(d) \in Nat /\ Len(d) >= 2
  BY DEF IsDestination
<1> DEFINE S == {d[i] : i \in 1 .. Len(d)}
<1>2. d \in Seq(S)
  BY DestinationIsSeq
<1>3. /\ SubSeq(d, 1, 2) \in Seq(S) /\ Len(SubSeq(d, 1, 2)) = 2
      /\ SubSeq(d, 1, 2)[1] = d[1] /\ SubSeq(d, 1, 2)[2] = d[2]
  <2> HIDE DEF S
  <2> QED BY <1>1, <1>2
<1>4. SubSeq(d, 1, 2) = <<"root", d[2]>>
  <2> HIDE DEF S
  <2> DEFINE s == SubSeq(d, 1, 2)
  <2>1. s \in Seq(S) /\ Len(s) = 2 /\ s[1] = "root" /\ s[2] = d[2]
    BY <1>3
  <2>2. s = <<"root", d[2]>>
    <3> HIDE DEF s
    <3> QED BY <2>1, PairIsTwo
  <2> QED BY <2>2 DEF s
<1>5. \A n : Len(<<"root", n>>) = 2
  OBVIOUS
<1> QED BY <1>1, <1>4, <1>5 DEF AtOrUnder

LEMMA BelowRootName ==
  ASSUME NEW d, IsDestination(d), NEW n, AtOrUnder(d, <<"root", n>>)
  PROVE  d[1] = "root" /\ SubSeq(d, 1, 2) = <<"root", n>> /\ Len(d) >= 2
<1> DEFINE S == {d[i] : i \in 1 .. Len(d)}
<1>1. d \in Seq(S) /\ Len(d) \in Nat
  BY DestinationIsSeq
<1>2. Len(<<"root", n>>) = 2 /\ <<"root", n>>[1] = "root"
  OBVIOUS
<1>3. Len(d) >= 2 /\ SubSeq(d, 1, 2) = <<"root", n>>
  BY <1>2 DEF AtOrUnder
<1>4. SubSeq(d, 1, 2)[1] = d[1]
  <2> HIDE DEF S
  <2> QED BY <1>1, <1>3
<1> QED BY <1>2, <1>3, <1>4, Zenon

LEMMA SpotOver ==
  ASSUME NEW spot \in FixtureSpots, NEW n, AtOrUnder(<<"root", n>>, spot)
  PROVE  spot = <<"root", n>>
<1>1. IsDestination(spot) /\ (spot[1] = "root" => Len(spot) = 2)
  BY LayoutAssumption
<1>2. Len(spot) \in 1 .. 2 /\ SubSeq(<<"root", n>>, 1, Len(spot)) = spot
  BY <1>1 DEF AtOrUnder, IsDestination
<1>3. spot[1] = "root"
  BY <1>2
<1>4. SubSeq(<<"root", n>>, 1, 2) = <<"root", n>>
  <2> DEFINE s == SubSeq(<<"root", n>>, 1, 2)
  <2>1. <<"root", n>> \in Seq({"root", n})
    OBVIOUS
  <2>2. s \in Seq({"root", n}) /\ Len(s) = 2 /\ s[1] = "root" /\ s[2] = n
    BY <2>1
  <2>3. s = <<"root", n>>
    <3> HIDE DEF s
    <3> QED BY <2>2, PairIsTwo
  <2> QED BY <2>3 DEF s
<1> QED BY <1>1, <1>2, <1>3, <1>4

LEMMA UnderInstances ==
  ASSUME NEW d, IsDestination(d)
  PROVE  AtOrUnder(d, Instances) <=> d[1] = "instance"
<1> DEFINE S == {d[i] : i \in 1 .. Len(d)}
<1>1. d \in Seq(S) /\ Len(d) \in Nat \ {0}
  BY DestinationIsSeq
<1>2. SubSeq(d, 1, 1) \in Seq(S) /\ Len(SubSeq(d, 1, 1)) = 1 /\ SubSeq(d, 1, 1)[1] = d[1]
  <2> HIDE DEF S
  <2> QED BY <1>1
<1>3. SubSeq(d, 1, 1) = <<d[1]>>
  <2> DEFINE s == SubSeq(d, 1, 1)
  <2>1. s = [i \in 1 .. 1 |-> s[i]]
    BY <1>2
  <2>2. <<d[1]>> = [i \in 1 .. 1 |-> d[1]]
    OBVIOUS
  <2>3. \A i \in 1 .. 1 : s[i] = d[1]
    BY <1>2
  <2>4. [i \in 1 .. 1 |-> s[i]] = [i \in 1 .. 1 |-> d[1]]
    BY <2>3, Zenon
  <2> QED BY <2>1, <2>2, <2>4, Zenon
<1>4. Len(Instances) = 1 /\ Instances = <<"instance">>
  BY DEF Instances
<1> QED BY <1>1, <1>3, <1>4 DEF AtOrUnder

-----------------------------------------------------------------------------
(* Trees                                                                     *)

IsTree(t) ==
  /\ \A x, y \in t : x.dest = y.dest => x = y
  /\ \A x \in t : IsDestination(x.dest) /\ x.dest \in Origins

LEMMA PutIsTree ==
  ASSUME NEW t, IsTree(t), NEW dest, IsDestination(dest), dest \in Origins, NEW what
  PROVE  IsTree(Put(t, dest, what)) /\ IsTree(Without(t, dest))
<1>1. \A x \in Without(t, dest) : x \in t /\ x.dest # dest
  BY UnderItself DEF Without
<1> QED BY <1>1 DEF IsTree, Put

LEMMA TypedTree == ASSUME Typed PROVE IsTree(tree)
BY DEF Typed, TypeOK, IsTree

LEMMA SpotIsPlace ==
  ASSUME NEW spot \in FixtureSpots
  PROVE  IsDestination(spot) /\ spot \in Origins /\ spot[1] # "instance"
BY LayoutAssumption DEF Origins

(* The operation at the head of the queue is the next of the plan.             *)
LEMMA OpIsNext ==
  ASSUME Typed, AtWork
  PROVE  /\ plan \in Layouts /\ SoundLayout(plan)
         /\ Did + 1 \in DOMAIN plan.operations /\ Op = plan.operations[Did + 1]
         /\ Op \in ToSet(plan.operations)
         /\ Op.what.kind # "prune" => IsDestination(Op.dest) /\ Op.dest \in Origins
<1>1. plan \in Layouts /\ SoundLayout(plan)
  BY LayoutIsSound DEF Typed, AtWork
<1>2. plan.operations \in Seq(ToSet(plan.operations))
  BY <1>1 DEF SoundLayout
<1>3. queue \in Seq(ToSet(plan.operations)) /\ queue # <<>>
  BY DEF Typed, AtWork
<1>4. Len(queue) \in Nat \ {0} /\ Op = queue[1]
  BY <1>3 DEF Op
<1>5. Did \in Nat /\ Op = plan.operations[Did + 1]
  BY <1>4 DEF Typed, AtWork
<1>6. Did + 1 \in DOMAIN plan.operations
  BY <1>2, <1>4, <1>5 DEF Did
<1>7. Op \in ToSet(plan.operations)
  BY <1>5, <1>6 DEF ToSet
<1>8. Op.dest \in Origins
  <2>1. PICK l \in Locks : plan = LayoutOf[l]
    BY <1>1 DEF Layouts
  <2>2. Op.dest \in {op.dest : op \in ToSet(LayoutOf[l].operations)}
    BY <1>7, <2>1
  <2> DEFINE D(m) == {op.dest : op \in ToSet(LayoutOf[m].operations)}
  <2>3. Op.dest \in UNION {D(m) : m \in Locks}
    <3>1. Op.dest \in D(l) /\ D(l) \in {D(m) : m \in Locks}
      BY <2>2
    <3> HIDE DEF D
    <3> QED BY <3>1
  <2> QED BY <2>3, Zenon DEF Origins
<1> QED BY <1>1, <1>5, <1>6, <1>7, <1>8 DEF SoundLayout

LEMMA Advance ==
  ASSUME Typed, AtWork, Next_op, plan' = plan
  PROVE  /\ Behind' = Behind \cup {Op}
         /\ Did' = Did + 1 /\ Did' \in Nat
         /\ queue' \in Seq(ToSet(plan.operations))
         /\ \A i \in 1 .. Len(queue') : queue'[i] = plan'.operations[Did' + i]
<1> DEFINE S == ToSet(plan.operations)
<1>1. queue \in Seq(S) /\ queue # <<>> /\ Did \in Nat
  BY DEF Typed, AtWork
<1>2. plan.operations \in Seq(S)
  BY OpIsNext DEF SoundLayout
<1>3. /\ queue' = Tail(queue) /\ queue' \in Seq(S) /\ Len(queue') = Len(queue) - 1
      /\ Len(queue) \in Nat /\ Len(queue') \in Nat
      /\ \A i \in 1 .. Len(queue') : queue'[i] = queue[i + 1]
  <2> HIDE DEF S
  <2> QED BY <1>1 DEF Next_op
<1>4. Did' = Did + 1
  BY <1>1, <1>2, <1>3 DEF Did
<1>5. \A i \in 1 .. Len(queue') : queue[i + 1] = plan.operations[Did + (i + 1)]
  BY <1>1, <1>3 DEF Typed, AtWork
<1>6. \A i \in 1 .. Len(queue') : queue'[i] = plan'.operations[Did' + i]
  BY <1>1, <1>3, <1>4, <1>5
<1>7. Behind' = Behind \cup {Op}
  BY <1>1, <1>4, OpIsNext DEF Behind
<1> QED BY <1>1, <1>3, <1>4, <1>6, <1>7

LEMMA PartialIsTree ==
  ASSUME Typed, AtWork, Op.what.kind # "refuse", NEW t \in Partial
  PROVE  IsTree(t)
<1>1. IsTree(tree)
  BY TypedTree
<1>2. CASE Op.what.kind = "prune"
  BY <1>1, <1>2 DEF Partial, IsTree
<1>3. CASE Op.what.kind # "prune"
  <2>1. IsTree(Without(tree, Op.dest)) /\ IsTree(Put(tree, Op.dest, Torn(Op.dest).what))
    BY <1>1, <1>3, OpIsNext, PutIsTree
  <2>2. Put(tree, Op.dest, Torn(Op.dest).what) = Without(tree, Op.dest) \cup {Torn(Op.dest)}
    BY DEF Put, Torn, Item
  <2>3. t \in {tree, Without(tree, Op.dest), Without(tree, Op.dest) \cup {Torn(Op.dest)}}
    BY <1>3 DEF Partial
  <2> QED BY <1>1, <2>1, <2>2, <2>3
<1> QED BY <1>2, <1>3

LEMMA SeqOfOwn ==
  ASSUME NEW S, NEW s \in Seq(S)
  PROVE  s \in Seq(ToSet(s))
<1>1. s = [i \in 1 .. Len(s) |-> s[i]] /\ Len(s) \in Nat
  OBVIOUS
<1>2. \A i \in 1 .. Len(s) : s[i] \in ToSet(s)
  BY DEF ToSet
<1> QED BY <1>1, <1>2

(* The fixture at the head of the queue, when it is one that is to be bound.   *)
LEMMA FixtureHasPlace ==
  ASSUME Typed, Binding
  PROVE  /\ HavePlaces(Tail(queue))
         /\ Fixture.source # Fixture.dest => Fixture.dest \in FixtureSpots
<1>1. HavePlaces(queue) /\ queue # <<>>
  BY DEF Typed, Binding
<1>2. \A i \in 1 .. Len(queue) : HasPlace(queue[i])
  BY <1>1 DEF HavePlaces, ToSet
<1>3. /\ Tail(queue) \in Seq(ToSet(queue)) /\ Len(Tail(queue)) = Len(queue) - 1 /\ Len(queue) \in Nat
      /\ \A i \in 1 .. Len(Tail(queue)) : Tail(queue)[i] = queue[i + 1]
      /\ 1 \in 1 .. Len(queue) /\ Head(queue) = queue[1]
  BY <1>1 DEF HavePlaces
<1>4. \A f \in ToSet(Tail(queue)) : HasPlace(f)
  BY <1>2, <1>3 DEF ToSet
<1>5. Tail(queue) \in Seq(ToSet(Tail(queue)))
  BY <1>3, SeqOfOwn
<1> QED BY <1>2, <1>3, <1>4, <1>5 DEF HavePlaces, HasPlace, Fixture

LEMMA PartialFixtureIsTree ==
  ASSUME Typed, CanBind, NEW t \in PartialFixture \cup {Put(tree, Fixture.dest, FixtureContent(Fixture))}
  PROVE  IsTree(t)
<1>1. Fixture.dest \in FixtureSpots
  BY FixtureHasPlace DEF CanBind
<1> QED BY <1>1, TypedTree, PutIsTree, SpotIsPlace DEF PartialFixture

-----------------------------------------------------------------------------
(* Typed                                                                     *)

LEMMA TypedInit == Init => Typed
<1> SUFFICES ASSUME Init PROVE Typed
  OBVIOUS
<1> USE DEF Init
<1>1. TypeOK
  <2>1. \A x, y \in tree : x.dest = y.dest => x = y
    BY LayoutAssumption
  <2>2. root \in BOOLEAN
    BY Zenon
  <2>3. /\ commands \in 0 .. MaxCommands /\ faults \in 0 .. MaxFaults /\ deletions \in 0 .. MaxDeletions
        /\ marker.state \in {"none", "written"} /\ req \in [clean : BOOLEAN, force : BOOLEAN]
    BY MaterializerAssumption DEF NoMarker
  <2> QED BY <2>1, <2>2, <2>3, Zenon DEF TypeOK
<1>2. \A x \in tree : IsDestination(x.dest) /\ x.dest \in Origins
  <2> SUFFICES ASSUME NEW x \in tree PROVE IsDestination(x.dest) /\ x.dest \in Origins
    OBVIOUS
  <2> DEFINE D(t) == {y.dest : y \in t}
  <2>1. x.dest \in D(tree) /\ D(tree) \in {D(t) : t \in InitialTrees}
    OBVIOUS
  <2>2. x.dest \in UNION {D(t) : t \in InitialTrees}
    <3> HIDE DEF D
    <3> QED BY <2>1
  <2>3. x.dest \in Origins
    BY <2>2, Zenon DEF Origins
  <2> QED BY <2>3, LayoutAssumption
<1>3. HavePlaces(bound)
  BY DEF HavePlaces, ToSet
<1> QED BY <1>1, <1>2, <1>3 DEF Typed

LEMMA TypedStep ==
  ASSUME Typed, [Next]_vars
  PROVE  Typed'
<1> USE DEF Typed, TypeOK, IsTree, disk, run, history, count
<1>1. ASSUME Begin PROVE Typed'
  BY <1>1, MaterializerAssumption DEF Begin
<1>2. ASSUME RefuseCollision PROVE Typed'
  BY <1>2 DEF RefuseCollision, Diagnose
<1>3. ASSUME TakeFastPath PROVE Typed'
  BY <1>3 DEF TakeFastPath
<1>4. ASSUME TakeLongPath PROVE Typed'
  <2>1. plan.operations \in Seq(ToSet(plan.operations))
    BY <1>4, LayoutIsSound DEF TakeLongPath, SoundLayout
  <2>2. Len(plan.operations) \in Nat
    BY <2>1
  <2> QED BY <1>4, <2>1, <2>2 DEF TakeLongPath, Did
<1>5. ASSUME RefuseClean PROVE Typed'
  BY <1>5 DEF RefuseClean, Diagnose
<1>6. ASSUME Clean PROVE Typed'
  <2>1. plan.operations \in Seq(ToSet(plan.operations))
    BY <1>6, LayoutIsSound DEF Clean, SoundLayout
  <2>2. Len(plan.operations) \in Nat
    BY <2>1
  <2> QED BY <1>6, <2>1, <2>2 DEF Clean, Did, Cleaned, NoMarker
<1>7. ASSUME CleanFails PROVE Typed'
  <2>1. tree' \subseteq tree
    BY <1>7 DEF CleanFails, Without, Cleaned
  <2>2. marker' \in {marker, NoMarker} /\ faults' \in 0 .. MaxFaults
    BY <1>7, MaterializerAssumption DEF CleanFails
  <2> QED BY <1>7, <2>1, <2>2 DEF CleanFails, Diagnose, NoMarker
<1>8. ASSUME Skip PROVE Typed'
  BY <1>8, Advance DEF Skip, AtWork
<1>9. ASSUME Perform PROVE Typed'
  <2>1. Op.what.kind # "prune" /\ IsTree(tree')
    BY <1>9, OpIsNext, PutIsTree, TypedTree DEF Perform
  <2>2. diags' = {} => diags = {} /\ failed' = failed /\ phase' = phase
    BY <1>9 DEF Perform, Note, Diagnose
  <2> QED BY <1>9, <2>1, <2>2, Advance DEF Perform, AtWork
<1>10. ASSUME RefuseOperation PROVE Typed'
  BY <1>10, Advance DEF RefuseOperation, AtWork, Note, Diagnose
<1>11. ASSUME Prune PROVE Typed'
  BY <1>11, Advance DEF Prune, AtWork
<1>12. ASSUME FailOperation PROVE Typed'
  <2>1. IsTree(tree')
    BY <1>12, PartialIsTree DEF FailOperation
  <2>2. faults' \in 0 .. MaxFaults
    BY <1>12, MaterializerAssumption DEF FailOperation
  <2> QED BY <1>12, <2>1, <2>2, Advance DEF FailOperation, AtWork, Note, Diagnose
<1>13. ASSUME WriteMarker PROVE Typed'
  BY <1>13 DEF WriteMarker, MarkerOf
<1>14. ASSUME FailMarker \/ GiveUp PROVE Typed'
  BY <1>14, MaterializerAssumption DEF FailMarker, GiveUp, Diagnose
<1>15. ASSUME FixturesDone PROVE Typed'
  BY <1>15 DEF FixturesDone
<1>16. ASSUME ReplaceFixtures PROVE Typed'
  <2>1. tree' \subseteq tree
    BY <1>16 DEF ReplaceFixtures, Unbound
  <2>2. faults' \in 0 .. MaxFaults
    BY <1>16, MaterializerAssumption DEF ReplaceFixtures
  <2>3. HavePlaces(queue')
    BY <1>16, LayoutIsSound DEF ReplaceFixtures, SoundLayout, HavePlaces, HasPlace, Fixtures
  <2> QED BY <1>16, <2>1, <2>2, <2>3 DEF ReplaceFixtures
<1>17. ASSUME SkipFixture \/ RefuseFixture PROVE Typed'
  BY <1>17, FixtureHasPlace DEF SkipFixture, RefuseFixture, Binding, NextFixture
<1>18. ASSUME BindFixture PROVE Typed'
  <2>1. IsTree(tree')
    BY <1>18, PartialFixtureIsTree DEF BindFixture
  <2> QED BY <1>18, <2>1, FixtureHasPlace DEF BindFixture, CanBind, Binding, NextFixture
<1>19. ASSUME FailFixture PROVE Typed'
  <2>1. IsTree(tree')
    BY <1>19, PartialFixtureIsTree DEF FailFixture
  <2>2. faults' \in 0 .. MaxFaults
    BY <1>19, MaterializerAssumption DEF FailFixture
  <2> QED BY <1>19, <2>1, <2>2, FixtureHasPlace DEF FailFixture, CanBind, Binding, NextFixture
<1>20. ASSUME WriteFixtureMarker PROVE Typed'
  BY <1>20, LayoutIsSound DEF WriteFixtureMarker, SoundLayout, HavePlaces, HasPlace, Fixtures
<1>21. ASSUME FailFixtureMarker PROVE Typed'
  <2>1. HavePlaces(<<>>)
    BY DEF HavePlaces, ToSet
  <2>2. bound' \in {bound, <<>>} /\ faults' \in 0 .. MaxFaults
    BY <1>21, MaterializerAssumption DEF FailFixtureMarker
  <2> QED BY <1>21, <2>1, <2>2 DEF FailFixtureMarker
<1>22. ASSUME FixturesGiveUp PROVE Typed'
  BY <1>22 DEF FixturesGiveUp
<1>23. ASSUME Crash PROVE Typed'
  <2>1. IsTree(tree')
    BY <1>23, TypedTree, PartialIsTree, PartialFixtureIsTree DEF Crash
  <2>2. faults' \in 0 .. MaxFaults
    BY <1>23, MaterializerAssumption DEF Crash
  <2>3. HavePlaces(<<>>)
    BY DEF HavePlaces, ToSet
  <2>4. bound' \in {bound, <<>>}
    BY <1>23 DEF Crash
  <2> QED BY <1>23, <2>1, <2>2, <2>3, <2>4 DEF Crash
<1>24. ASSUME Delete PROVE Typed'
  <2>1. tree' \subseteq tree /\ root' \in BOOLEAN /\ marker' \in {marker, NoMarker}
    BY <1>24 DEF Delete, Without, Cleaned
  <2>2. deletions' \in 0 .. MaxDeletions
    BY <1>24, MaterializerAssumption DEF Delete
  <2> QED BY <1>24, <2>1, <2>2 DEF Delete, NoMarker
<1>25. ASSUME UNCHANGED vars PROVE Typed'
  BY <1>25 DEF vars, Did, HavePlaces, HasPlace
<1> QED BY <1>1, <1>2, <1>3, <1>4, <1>5, <1>6, <1>7, <1>8, <1>9, <1>10, <1>11, <1>12, <1>13, <1>14,
           <1>15, <1>16, <1>17, <1>18, <1>19, <1>20, <1>21, <1>22, <1>23, <1>24, <1>25
        DEF Next, Command, Work, Fix, Finished

-----------------------------------------------------------------------------
(* Placing                                                                   *)

LEMMA PlacementOf ==
  ASSUME Typed, AtWork, Places(Op)
  PROVE  /\ Placement(Op) \in Placed
         /\ Placement(Op).dest = Op.dest
         /\ Placement(Op) = [dest |-> Op.dest,
                             what |-> [Op.what EXCEPT !.kind = IF @ = "conflict" THEN "bins" ELSE @]]
BY OpIsNext DEF Placed, PlacedBy, Placement

(* What is placed is below a name that is kept.                               *)
LEMMA PlacedIsKept ==
  ASSUME Typed, AtWork, NEW op \in ToSet(plan.operations), Places(op), op.dest[1] = "root"
  PROVE  SubSeq(op.dest, 1, 2) \in Kept
<1>1. IsDestination(op.dest) /\ op.dest[2] \in plan.visible \cup {Bins}
  BY OpIsNext DEF SoundLayout, Places
<1>2. SubSeq(op.dest, 1, 2) = Append(Project, op.dest[2])
  BY <1>1, RootName DEF Project
<1> QED BY <1>1, <1>2 DEF Kept

(* No operation covers what an earlier one has placed.                         *)
LEMMA PlacedStays ==
  ASSUME Typed, AtWork, Places(Op), NEW op \in Behind, Places(op), Placement(op) \in tree
  PROVE  Placement(op) \in Put(tree, Op.dest, Placement(Op).what)
<1>1. PICK i \in 1 .. Did : op = plan.operations[i]
  BY DEF Behind
<1>2. Did \in Nat
  BY DEF Typed, AtWork
<1>3. i \in DOMAIN plan.operations /\ i < Did + 1
  BY <1>1, <1>2, OpIsNext DEF SoundLayout
<1>4. AtOrUnder(op.dest, Op.dest) => Placement(op) = Placement(Op)
  BY <1>1, <1>3, OpIsNext DEF SoundLayout
<1>5. Placement(op).dest = op.dest /\ Placement(Op) \in Put(tree, Op.dest, Placement(Op).what)
  BY DEF Placement, Put
<1> QED BY <1>4, <1>5 DEF Put, Without

LEMMA BehindNothing ==
  ASSUME Typed', queue' = plan'.operations, Len(plan'.operations) \in Nat
  PROVE  Behind' = {}
BY DEF Behind, Did

LEMMA PlacingStep ==
  ASSUME Typed, Placing, [Next]_vars
  PROVE  Placing'
<1> SUFFICES ASSUME pc' = "work", diags' = {} PROVE Placing'
  BY DEF Placing
<1> USE DEF disk, run, count
<1>1. CASE TakeLongPath
  <2>1. plan.operations \in Seq(ToSet(plan.operations))
    BY <1>1, LayoutIsSound DEF TakeLongPath, SoundLayout, Typed
  <2>2. Behind' = {}
    BY <1>1, <2>1, BehindNothing, TypedStep DEF TakeLongPath
  <2>3. ~req'.clean
    BY <1>1 DEF TakeLongPath
  <2> QED BY <2>2, <2>3 DEF Placing
<1>2. CASE Clean
  <2>1. plan.operations \in Seq(ToSet(plan.operations))
    BY <1>2, LayoutIsSound DEF Clean, SoundLayout, Typed
  <2>2. Behind' = {}
    BY <1>2, <2>1, BehindNothing, TypedStep DEF Clean, Typed
  <2>3. \A x \in tree' : x.dest[1] # "root"
    BY <1>2 DEF Clean, Cleaned, InProject
  <2> QED BY <2>2, <2>3 DEF Placing
<1>3. CASE Perform
  <2>1. /\ AtWork /\ Op.what.kind \in {"artifact", "link", "bins"} /\ Next_op
        /\ UNCHANGED <<diags, pc, plan, req>> /\ diags = {} /\ pc = "work"
    BY <1>3 DEF Perform, Note, Diagnose, AtWork
  <2>2. Places(Op) /\ Op.what.kind # "refuse" /\ Op.what.kind # "prune"
    BY <2>1 DEF Places
  <2>3. tree' = Put(tree, Op.dest, Placement(Op).what)
    BY <1>3, <2>1, <2>2, PlacementOf DEF Perform
  <2>4. /\ Behind' = Behind \cup {Op} /\ Placed' = Placed /\ Kept' = Kept
        /\ IsDestination(Op.dest)
    BY <2>1, <2>2, Advance, OpIsNext DEF Placed, Kept
  <2>5. Placement(Op) \in tree' /\ Placement(Op) \in Placed
    BY <2>1, <2>2, <2>3, PlacementOf DEF Put, Placement
  <2>6. \A x \in tree' : x = Placement(Op) \/ (x \in tree /\ ~AtOrUnder(x.dest, Op.dest))
    BY <2>1, <2>2, <2>3, PlacementOf DEF Put, Without, Placement
  <2>7. \A op \in Behind' : op.what.kind # "refuse" /\ (Places(op) => Placement(op) \in tree')
    BY <2>1, <2>2, <2>3, <2>4, <2>5, PlacedStays DEF Placing
  <2>8. req'.clean => \A x \in tree' : x.dest[1] = "root" => x \in Placed'
    BY <2>1, <2>4, <2>5, <2>6 DEF Placing
  <2>9. ASSUME plan'.nested, NEW x \in tree', x.dest[1] = "root", x \notin Placed'
        PROVE  \A op \in Behind' : IF op.what.kind = "prune" THEN SubSeq(x.dest, 1, 2) \in Kept'
                                                           ELSE op.dest # SubSeq(x.dest, 1, 2)
    <3>1. x \in tree /\ ~AtOrUnder(x.dest, Op.dest)
      BY <2>4, <2>5, <2>6, <2>9
    <3>2. \A op \in Behind : IF op.what.kind = "prune" THEN SubSeq(x.dest, 1, 2) \in Kept
                                                      ELSE op.dest # SubSeq(x.dest, 1, 2)
      BY <2>1, <2>4, <2>9, <3>1 DEF Placing
    <3>3. AtOrUnder(x.dest, SubSeq(x.dest, 1, 2))
      BY <2>9, <3>1, RootName DEF Typed
    <3> QED BY <2>2, <2>4, <3>1, <3>2, <3>3
  <2> QED BY <2>7, <2>8, <2>9 DEF Placing
<1>4. CASE Prune
  <2>1. /\ AtWork /\ Op.what.kind = "prune" /\ Next_op /\ tree' = tree \ Strays
        /\ UNCHANGED <<diags, pc, plan, req>> /\ diags = {} /\ pc = "work"
    BY <1>4 DEF Prune, AtWork
  <2>2. Behind' = Behind \cup {Op} /\ Placed' = Placed /\ Kept' = Kept
    BY <2>1, Advance DEF Placed, Kept
  <2>3. ASSUME NEW op \in Behind', Places(op) PROVE Placement(op) \in tree'
    <3>1. op \in Behind
      BY <2>1, <2>2, <2>3 DEF Places
    <3>2. op \in ToSet(plan.operations)
      <4>1. PICK i \in 1 .. Did : op = plan.operations[i]
        BY <3>1 DEF Behind
      <4>2. i \in DOMAIN plan.operations
        BY <2>1, <4>1, OpIsNext DEF SoundLayout, Typed, AtWork
      <4> QED BY <4>1, <4>2 DEF ToSet
    <3>3. Placement(op).dest = op.dest /\ Placement(op) \in tree
      BY <2>1, <2>3, <3>1 DEF Placement, Placing
    <3>4. op.dest[1] = "root" => SubSeq(op.dest, 1, 2) \in Kept
      BY <2>1, <2>3, <3>2, PlacedIsKept
    <3> QED BY <2>1, <3>3, <3>4 DEF Strays
  <2>4. \A x \in tree' : x \in tree /\ (x.dest[1] = "root" => SubSeq(x.dest, 1, 2) \in Kept)
    BY <2>1 DEF Strays
  <2> QED BY <2>1, <2>2, <2>3, <2>4 DEF Placing
<1>5. CASE Skip
  <2>1. AtWork /\ Skipped /\ diags = {} /\ failed = {} /\ phase = 0
    BY <1>5 DEF Skip, AtWork, Typed
  <2> QED BY <2>1 DEF Skipped
<1>6. CASE UNCHANGED vars
  <2>1. UNCHANGED <<tree, req, plan, pc, diags, Behind, Placed, Kept>>
    BY <1>6 DEF vars, Behind, Did, Placed, Kept
  <2> QED BY <2>1 DEF Placing
<1>7. ASSUME Begin PROVE FALSE
  BY <1>7 DEF Begin
<1>8. CASE RefuseCollision \/ RefuseClean \/ CleanFails \/ RefuseOperation \/ FailOperation \/ FailMarker
           \/ FailFixture \/ FailFixtureMarker \/ Crash
  BY <1>8 DEF RefuseCollision, RefuseClean, CleanFails, RefuseOperation, FailOperation, FailMarker,
              FailFixture, FailFixtureMarker, Crash, Diagnose, Note
<1>9. CASE TakeFastPath \/ WriteMarker \/ GiveUp \/ FixturesDone \/ ReplaceFixtures \/ SkipFixture
           \/ RefuseFixture \/ BindFixture \/ WriteFixtureMarker \/ FixturesGiveUp \/ Delete
  BY <1>9 DEF TakeFastPath, WriteMarker, GiveUp, FixturesDone, ReplaceFixtures, SkipFixture,
              RefuseFixture, BindFixture, WriteFixtureMarker, FixturesGiveUp, Delete, Binding, CanBind
<1> QED BY <1>1, <1>2, <1>3, <1>4, <1>5, <1>6, <1>7, <1>8, <1>9
        DEF Next, Command, Work, Fix, Finished

(* When the queue is empty everything is in place.                            *)
LEMMA PlacedEnds ==
  ASSUME Typed, Placing, pc = "work", queue = <<>>, diags = {}
  PROVE  Whole /\ (req.clean \/ plan.nested => Exact)
<1>1. SoundLayout(plan)
  BY LayoutIsSound DEF Typed
<1>2. plan.operations \in Seq(ToSet(plan.operations))
  BY <1>1 DEF SoundLayout
<1>3. Did = Len(plan.operations) /\ DOMAIN plan.operations = 1 .. Did
  BY <1>2 DEF Did
<1>4. Behind = ToSet(plan.operations)
  BY <1>3 DEF Behind, ToSet
<1>5. Whole
  BY <1>4 DEF Whole, Placed, PlacedBy, Placing
<1>6. ASSUME plan.nested, NEW x \in tree, x.dest[1] = "root"
      PROVE  x \in Placed
  <2>1. SUFFICES ASSUME \A op \in Behind : IF op.what.kind = "prune" THEN SubSeq(x.dest, 1, 2) \in Kept
                                                                     ELSE op.dest # SubSeq(x.dest, 1, 2)
                 PROVE  FALSE
    BY <1>6 DEF Placing
  <2>2. SubSeq(x.dest, 1, 2) \in Kept
    BY <1>1, <1>4, <1>6, <2>1 DEF SoundLayout
  <2>3. PICK name \in plan.visible \cup {Bins} : SubSeq(x.dest, 1, 2) = <<"root", name>>
    BY <2>2, RootNames DEF Kept
  <2>4. \E op \in Behind : op.dest = <<"root", name>> /\ op.what.kind # "prune"
    BY <1>1, <1>4, <1>6 DEF SoundLayout
  <2> QED BY <2>1, <2>3, <2>4
<1>7. req.clean \/ plan.nested => Exact
  BY <1>6 DEF Exact, Placing
<1> QED BY <1>5, <1>7

-----------------------------------------------------------------------------
(* A step that changes the tree in the places of fixtures only                 *)

FixturesOnly ==
  /\ \A x \in tree : x \in tree' \/ UnderFixture(x.dest)
  /\ \A y \in tree' : y \in tree \/ y.dest \in FixtureSpots

LEMMA SpotBelow ==
  ASSUME NEW spot \in FixtureSpots, NEW n, AtOrUnder(spot, <<"root", n>>)
  PROVE  spot = <<"root", n>>
<1>1. IsDestination(spot) /\ (spot[1] = "root" => Len(spot) = 2)
  BY LayoutAssumption
<1>2. spot[1] = "root" /\ SubSeq(spot, 1, 2) = <<"root", n>>
  BY <1>1, BelowRootName
<1> QED BY <1>1, <1>2, UnderItself DEF AtOrUnder

LEMMA PlacedIsDestination ==
  ASSUME NEW p \in Layouts, ~p.collides, NEW x \in PlacedBy(p)
  PROVE  IsDestination(x.dest)
<1>1. SoundLayout(p)
  BY LayoutAssumption DEF Layouts
<1>2. PICK op \in ToSet(p.operations) : Places(op) /\ x.dest = op.dest
  BY DEF PlacedBy, Placement
<1> QED BY <1>1, <1>2 DEF SoundLayout, Places

LEMMA VouchedStays ==
  ASSUME Vouched, Emptied', marker' \in {marker, NoMarker},
         \A x : IsDestination(x.dest) /\ Vouches(x) => Vouches(x)'
  PROVE  Vouched'
<1>1. CASE marker' = NoMarker
  BY <1>1 DEF Vouched, NoMarker
<1>2. CASE marker' = marker /\ marker # NoMarker
  <2>1. PICK p \in Layouts : ~p.collides /\ marker = MarkerOf(p) /\ \A x \in PlacedBy(p) : Vouches(x)
    BY <1>2 DEF Vouched
  <2>2. \A x \in PlacedBy(p) : Vouches(x)'
    BY <2>1, PlacedIsDestination
  <2> QED BY <1>2, <2>1, <2>2 DEF Vouched
<1> QED BY <1>1, <1>2

(* Fixtures put nothing but what is in their places.                            *)
LEMMA FixturesKeepVouched ==
  ASSUME Vouched, FixturesOnly, marker' = marker, UNCHANGED history
  PROVE  Vouched'
<1>1. Emptied'
  BY DEF Vouched, Emptied, FixturesOnly, history
<1>2. ASSUME NEW x, IsDestination(x.dest), Vouches(x) PROVE Vouches(x)'
  BY <1>2 DEF Vouches, FixturesOnly, UnderFixture, Disturbed, history
<1> QED BY <1>1, <1>2, VouchedStays

(* What a sync removes it has touched.                                         *)
LEMMA TouchKeepsVouched ==
  ASSUME Vouched, Touch, gone' = gone, gone = {}, marker' \in {marker, NoMarker}
  PROVE  Vouched'
<1>1. Emptied'
  BY DEF Emptied
<1>2. ASSUME NEW x, IsDestination(x.dest), Vouches(x) PROVE Vouches(x)'
  <2>1. CASE x \in tree /\ x \notin tree'
    <3>1. x.dest \in touched' /\ AtOrUnder(x.dest, x.dest)
      BY <1>2, <2>1, UnderItself DEF Touch
    <3> QED BY <3>1 DEF Vouches, Disturbed
  <2>2. CASE x \notin tree \/ x \in tree'
    BY <1>2, <2>2 DEF Vouches, UnderFixture, Disturbed, Touch
  <2> QED BY <2>1, <2>2
<1> QED BY <1>1, <1>2, VouchedStays

LEMMA FixturesKeepTree ==
  ASSUME FixturesOnly, plan' = plan
  PROVE  (Whole => Whole') /\ (Exact => Exact')
BY DEF FixturesOnly, Whole, Exact, Placed, UnderFixture

LEMMA ReplaceIsFixturesOnly ==
  ASSUME Typed, ReplaceFixtures
  PROVE  FixturesOnly
<1>1. PICK S \in SUBSET ToSet(bound) : tree' = Unbound(S)
  BY DEF ReplaceFixtures
<1>2. \A f \in S : HasPlace(f)
  BY <1>1 DEF Typed, HavePlaces
<1> QED BY <1>1, <1>2 DEF FixturesOnly, Unbound, UnderFixture, HasPlace

LEMMA BindIsFixturesOnly ==
  ASSUME Typed, CanBind, tree' \in PartialFixture \cup {Put(tree, Fixture.dest, FixtureContent(Fixture))}
  PROVE  FixturesOnly
<1>1. Fixture.dest \in FixtureSpots
  BY FixtureHasPlace DEF CanBind
<1> QED BY <1>1 DEF FixturesOnly, PartialFixture, Put, Without, UnderFixture

-----------------------------------------------------------------------------
(* Vouched                                                                   *)

LEMMA DeleteKeepsVouched ==
  ASSUME Typed, Vouched, Delete
  PROVE  Vouched'
<1>1. CASE \E dest : tree' = Without(tree, dest) /\ gone' = gone \cup {dest} /\ marker' = marker
  <2>1. PICK dest : tree' = Without(tree, dest) /\ gone' = gone \cup {dest} /\ marker' = marker
    BY <1>1
  <2>2. touched' = touched
    BY DEF Delete
  <2>3. Emptied'
    BY <2>1 DEF Vouched, Emptied, Without
  <2>4. ASSUME NEW x, IsDestination(x.dest), Vouches(x) PROVE Vouches(x)'
    BY <2>1, <2>2, <2>4 DEF Vouches, UnderFixture, Disturbed, Without
  <2> QED BY <2>1, <2>3, <2>4, VouchedStays
<1>2. CASE tree' = Cleaned /\ marker' = NoMarker /\ gone' = gone
  BY <1>2 DEF Vouched, Emptied, Cleaned, NoMarker
<1> QED BY <1>1, <1>2 DEF Delete

LEMMA VouchedStep ==
  ASSUME Typed, Placing, Vouched, [Next]_vars
  PROVE  Vouched'
<1> USE DEF disk, run, count
<1>1. CASE UNCHANGED <<tree, marker, history>>
  <2>1. FixturesOnly
    BY <1>1 DEF FixturesOnly
  <2> QED BY <1>1, <2>1, FixturesKeepVouched
<1>2. CASE TakeLongPath
  <2>1. Emptied'
    BY <1>2 DEF Emptied, TakeLongPath
  <2>2. ASSUME NEW x, IsDestination(x.dest), Vouches(x) PROVE Vouches(x)'
    BY <1>2, <2>2 DEF Vouches, UnderFixture, Disturbed, TakeLongPath
  <2> QED BY <1>2, <2>1, <2>2, VouchedStays DEF TakeLongPath
<1>3. CASE Clean
  <2>1. Emptied'
    BY <1>3 DEF Clean, Emptied, Typed, history
  <2> QED BY <1>3, <2>1 DEF Clean, Vouched, NoMarker
<1>4. CASE WriteMarker
  <2>1. Whole /\ plan \in Layouts /\ ~plan.collides
    BY <1>4, PlacedEnds DEF WriteMarker, Typed
  <2>2. \A x \in PlacedBy(plan) : Vouches(x)'
    BY <1>4, <2>1 DEF WriteMarker, Whole, Placed, Vouches, UnderFixture
  <2>3. marker' = MarkerOf(plan) /\ Emptied'
    BY <1>4 DEF WriteMarker, Emptied, Typed
  <2> QED BY <2>1, <2>2, <2>3 DEF Vouched
<1>5. CASE Delete
  BY <1>5, DeleteKeepsVouched
<1>6. CASE ReplaceFixtures \/ BindFixture \/ FailFixture
  <2>1. UNCHANGED <<marker, history>>
    BY <1>6 DEF ReplaceFixtures, BindFixture, FailFixture
  <2>2. FixturesOnly
    BY <1>6, ReplaceIsFixturesOnly, BindIsFixturesOnly DEF BindFixture, FailFixture
  <2> QED BY <2>1, <2>2, FixturesKeepVouched
<1>7. CASE CleanFails \/ Perform \/ Prune \/ FailOperation
  BY <1>7, TouchKeepsVouched DEF CleanFails, Perform, Prune, FailOperation, AtWork, Typed
<1>8. CASE Crash
  <2>1. gone' = gone /\ marker' = marker
    BY <1>8 DEF Crash
  <2>2. CASE pc = "work"
    BY <1>8, <2>1, <2>2, TouchKeepsVouched DEF Crash, Typed
  <2>3. CASE pc # "work"
    <3>1. UNCHANGED history /\ (FixturesOnly \/ tree' = tree)
      BY <1>8, <2>1, <2>3, BindIsFixturesOnly DEF Crash, AtWork, history
    <3> QED BY <1>1, <2>1, <3>1, FixturesKeepVouched
  <2> QED BY <2>2, <2>3
<1>9. ASSUME Begin PROVE UNCHANGED <<tree, marker, history>>
  BY <1>9 DEF Begin
<1>10. CASE RefuseCollision \/ TakeFastPath \/ RefuseClean \/ Skip \/ RefuseOperation \/ FailMarker \/ GiveUp
            \/ FixturesDone \/ SkipFixture \/ RefuseFixture \/ WriteFixtureMarker \/ FailFixtureMarker
            \/ FixturesGiveUp \/ UNCHANGED vars
  BY <1>1, <1>10 DEF RefuseCollision, TakeFastPath, RefuseClean, Skip, RefuseOperation, FailMarker, GiveUp,
     FixturesDone, SkipFixture, RefuseFixture, WriteFixtureMarker, FailFixtureMarker, FixturesGiveUp, vars
<1> QED BY <1>1, <1>2, <1>3, <1>4, <1>5, <1>6, <1>7, <1>8, <1>9, <1>10 DEF Next, Command, Work, Fix, Finished

-----------------------------------------------------------------------------
(* Settling                                                                  *)

LEMMA PresentIsThere ==
  ASSUME NEW n, Present(tree, Append(Project, n))
  PROVE  Holds(tree, <<"root", n>>)
<1>1. Append(Project, n) = <<"root", n>>
  BY RootNames
<1>2. SUFFICES ASSUME ~Holds(tree, <<"root", n>>) PROVE FALSE
  OBVIOUS
<1>3. Follow(tree, <<"root", n>>) = <<"root", n>>
  BY <1>2 DEF Follow, Holds
<1>4. Physical(tree, <<"root", n>>) = <<"root", n>>
  BY <1>3 DEF Physical
<1> QED BY <1>1, <1>2, <1>4 DEF Present

(* A link to an instance that leads somewhere is a sign of the instances.       *)
LEMMA LinkFindsInstance ==
  ASSUME Typed, NEW x \in tree, NEW n, x.dest = <<"root", n>>,
         x.what.kind = "link", x.what.to[1] = "instance", Present(tree, Append(Project, n))
  PROVE  \E y \in tree : y.dest[1] = "instance"
<1>1. Append(Project, n) = <<"root", n>>
  BY RootNames
<1>2. Follow(tree, <<"root", n>>) = x.what.to
  <2>1. \A y \in tree : y.dest = <<"root", n>> => y = x
    BY DEF Typed, TypeOK
  <2>2. (CHOOSE y \in tree : y.dest = <<"root", n>>) = x
    BY <2>1
  <2> QED BY <2>2 DEF Follow
<1>3. Physical(tree, <<"root", n>>) = Follow(tree, x.what.to)
  BY <1>2 DEF Physical
<1>4. CASE \E y \in tree : y.dest = x.what.to
  BY <1>4
<1>5. CASE ~\E y \in tree : y.dest = x.what.to
  <2>1. Physical(tree, <<"root", n>>) = x.what.to
    BY <1>3, <1>5 DEF Follow
  <2> QED BY <1>1, <1>5, <2>1 DEF Present, Holds
<1> QED BY <1>4, <1>5

(* A name that is found leads to what is in the tree.                          *)
LEMMA EndIsThere ==
  ASSUME NEW n, Present(tree, Append(Project, n)), Follow(tree, Append(Project, n))[1] = "instance"
  PROVE  Holds(tree, Follow(tree, Append(Project, n)))
<1> DEFINE end == Follow(tree, Append(Project, n))
<1>1. CASE \E y \in tree : y.dest = end
  BY <1>1 DEF Holds
<1>2. CASE ~\E y \in tree : y.dest = end
  <2>1. Follow(tree, end) = end
    <3> HIDE DEF end
    <3> QED BY <1>2 DEF Follow
  <2> QED BY <2>1 DEF Present, Physical, Holds
<1> QED BY <1>1, <1>2

(* What a marker has vouched for and is not seen to be missing is accounted for.  *)
LEMMA MarkerFindsAll ==
  ASSUME Typed, Vouched, plan \in Layouts, ~plan.collides, MarkerAnswers, NEW x \in Placed
  PROVE  Accounted(x)
<1>1. PICK p \in Layouts : ~p.collides /\ marker = MarkerOf(p) /\ \A z \in PlacedBy(p) : Vouches(z)
  BY DEF Vouched, MarkerAnswers, MarkerOf, NoMarker
<1>2. PlacedBy(p) = Placed
  <2>1. p.digest = plan.digest
    BY <1>1 DEF MarkerAnswers, MarkerOf
  <2> QED BY <2>1, LayoutAssumption DEF Layouts, Placed
<1>3. \A n \in plan.visible \cup {Bins} : Present(tree, Append(Project, n))
  BY DEF MarkerAnswers
<1>4. SoundLayout(plan)
  BY LayoutIsSound
<1>5. \A z \in Placed : Vouches(z) /\ IsDestination(z.dest)
  BY <1>1, <1>2, PlacedIsDestination
<1>6. \A n \in plan.visible \cup {Bins} : \E y \in tree : y.dest = <<"root", n>>
  BY <1>3, PresentIsThere DEF Holds
<1>7. SUFFICES ASSUME NEW d \in gone, AtOrUnder(x.dest, d), LookedAt(d) PROVE FALSE
  BY <1>5 DEF Accounted, Vouches, Overlooked
<1>8. ASSUME NEW n \in plan.visible \cup {Bins}, Append(Project, n) \notin FixtureSpots,
             NEW g \in gone, AtOrUnder(Append(Project, n), g)
      PROVE  FALSE
  BY <1>6, <1>8, RootNames DEF Vouched, Emptied
<1>9. ASSUME NEW n \in plan.visible \cup {Bins}, Follow(tree, Append(Project, n))[1] = "instance",
             AtOrUnder(Follow(tree, Append(Project, n)), d)
      PROVE  FALSE
  <2>1. PICK y \in tree : y.dest = Follow(tree, Append(Project, n))
    BY <1>3, <1>9, EndIsThere DEF Holds
  <2> QED BY <1>9, <2>1, SpotIsPlace DEF Vouched, Emptied
<1>10. ASSUME d = Instances, touched = {}
       PROVE  FALSE
  <2>1. PICK op0 \in ToSet(plan.operations) : Places(op0) /\ op0.dest = x.dest
    BY DEF Placed, PlacedBy, Placement
  <2>2. \A z : IsDestination(z) => (AtOrUnder(z, Instances) <=> z[1] = "instance")
    BY UnderInstances
  <2>3. op0.dest[1] = "instance"
    BY <1>5, <1>7, <1>10, <2>1, <2>2
  <2>4. PICK n \in plan.visible : LeadsToInstance(plan, n)
    BY <1>4, <2>1, <2>3 DEF SoundLayout
  <2>5. PICK y \in tree : y.dest = <<"root", n>>
    BY <1>6
  <2>6. <<"root", n>> \in Origins
    BY <2>5 DEF Typed
  <2>7. PICK op \in ToSet(plan.operations) :
          op.dest = <<"root", n>> /\ op.what.kind = "link" /\ op.what.to[1] = "instance"
    BY <2>4, <2>6 DEF LeadsToInstance
  <2>8. Placement(op) \in Placed /\ Placement(op).dest = <<"root", n>>
    BY <2>7 DEF Placed, PlacedBy, Places, Placement
  <2>9. Placement(op).what.kind = "link" /\ Placement(op).what.to[1] = "instance"
    BY <1>4, <2>7 DEF SoundLayout, Placement
  <2>10. ~UnderFixture(<<"root", n>>) /\ <<"root", n>> \notin FixtureSpots
    BY <2>4, SpotOver DEF UnderFixture, LeadsToInstance
  <2>11. \A g \in gone : ~AtOrUnder(<<"root", n>>, g)
    BY <1>8, <2>10, RootNames
  <2>12. Placement(op) \in tree
    BY <1>5, <1>10, <2>8, <2>10, <2>11 DEF Vouches, Disturbed
  <2>13. PICK z \in tree : z.dest[1] = "instance"
    BY <1>3, <2>8, <2>9, <2>12, LinkFindsInstance
  <2> QED BY <1>10, <2>2, <2>13, SpotIsPlace DEF Typed, Vouched, Emptied
<1> QED BY <1>7, <1>8, <1>9, <1>10 DEF LookedAt

LEMMA FollowsWhatIsThere ==
  ASSUME NEW t, NEW u, NEW dest, {y \in t : y.dest = dest} = {y \in u : y.dest = dest}
  PROVE  Follow(t, dest) = Follow(u, dest)
<1> DEFINE T == {y \in t : y.dest = dest}
           U == {y \in u : y.dest = dest}
<1>1. \A y : (y \in t /\ y.dest = dest) <=> (y \in u /\ y.dest = dest)
  <2>1. \A y : y \in T <=> y \in U
    OBVIOUS
  <2> QED BY <2>1
<1>2. (CHOOSE y : y \in t /\ y.dest = dest) = (CHOOSE y : y \in u /\ y.dest = dest)
  BY <1>1
<1>3. (CHOOSE y \in t : y.dest = dest) = (CHOOSE y \in u : y.dest = dest)
  BY <1>2
<1> QED BY <1>1, <1>3 DEF Follow

(* Fixtures do not change where the other names lead.                          *)
LEMMA FixturesKeepEnds ==
  ASSUME FixturesOnly, NEW n, Append(Project, n) \notin FixtureSpots
  PROVE  Follow(tree', Append(Project, n)) = Follow(tree, Append(Project, n))
<1> DEFINE entry == Append(Project, n)
           Old(y) == y \in tree /\ y.dest = entry
           New(y) == y \in tree' /\ y.dest = entry
<1>1. ASSUME NEW y PROVE Old(y) <=> New(y)
  <2>1. entry \notin FixtureSpots /\ ~UnderFixture(entry)
    BY RootNames, SpotOver DEF UnderFixture
  <2>2. (y \in tree /\ y.dest = entry) <=> (y \in tree' /\ y.dest = entry)
    <3> HIDE DEF entry
    <3> QED BY <2>1 DEF FixturesOnly
  <2> QED BY <2>2
<1>2. {y \in tree : y.dest = entry} = {y \in tree' : y.dest = entry}
  BY <1>1
<1> QED BY <1>2, FollowsWhatIsThere

LEMMA FixturesKeepAccounts ==
  ASSUME FixturesOnly, UNCHANGED <<history, plan>>, NEW x, Accounted(x)
  PROVE  Accounted(x)'
<1>1. ASSUME NEW d, LookedAt(d)' PROVE LookedAt(d)
  BY <1>1, FixturesKeepEnds DEF LookedAt, history
<1> QED BY <1>1 DEF Accounted, FixturesOnly, UnderFixture, Disturbed, Overlooked, history

LEMMA SettlingStep ==
  ASSUME Typed, Placing, Vouched, Settling, [Next]_vars
  PROVE  Settling'
<1> SUFFICES ASSUME Over' PROVE Settling'
  BY DEF Settling
<1> USE DEF disk, run, count
<1>1. CASE TakeFastPath
  <2>1. \A x \in Placed : Accounted(x)
    BY <1>1, MarkerFindsAll DEF TakeFastPath, Typed
  <2>2. FixturesOnly /\ UNCHANGED <<history, plan>> /\ path' = "fast" /\ Placed' = Placed
    BY <1>1 DEF TakeFastPath, FixturesOnly, Placed
  <2> QED BY <2>1, <2>2, FixturesKeepAccounts DEF Settling
<1>2. CASE WriteMarker
  <2>1. Whole /\ (req.clean \/ plan.nested => Exact)
    BY <1>2, PlacedEnds DEF WriteMarker
  <2>2. path' = "long" /\ Placed' = Placed
    BY <1>2 DEF WriteMarker, Typed, Placed
  <2> QED BY <1>2, <2>1, <2>2 DEF WriteMarker, Settling, Whole, Exact, MarkerOf
<1>3. CASE Over /\ FixturesOnly /\ UNCHANGED <<marker, history, path, plan, req>>
  <2>1. Placed' = Placed
    BY <1>3 DEF Placed
  <2>2. path' = "fast" => \A x \in Placed' : Accounted(x)'
    BY <1>3, <2>1, FixturesKeepAccounts DEF Settling
  <2> QED BY <1>3, <2>2, FixturesKeepTree DEF Settling, MarkerOf
<1>4. CASE Over /\ UNCHANGED <<tree, marker, history, path, plan, req>>
  <2>1. FixturesOnly
    BY <1>4 DEF FixturesOnly
  <2> QED BY <1>3, <1>4, <2>1
<1>5. CASE ReplaceFixtures \/ BindFixture \/ FailFixture
  <2>1. Over /\ UNCHANGED <<marker, history, path, plan, req>>
    BY <1>5 DEF ReplaceFixtures, BindFixture, FailFixture, CanBind, Binding, Over
  <2>2. FixturesOnly
    BY <1>5, ReplaceIsFixturesOnly, BindIsFixturesOnly DEF BindFixture, FailFixture
  <2> QED BY <1>3, <2>1, <2>2
<1>6. CASE FixturesDone \/ SkipFixture \/ RefuseFixture \/ WriteFixtureMarker
  <2>1. Over /\ UNCHANGED <<tree, marker, history, path, plan, req>>
    BY <1>6 DEF FixturesDone, SkipFixture, RefuseFixture, WriteFixtureMarker, Binding, Over
  <2> QED BY <1>4, <2>1
<1>7. CASE UNCHANGED vars
  <2>1. Over /\ UNCHANGED <<tree, marker, history, path, plan, req>>
    BY <1>7 DEF vars, Over
  <2> QED BY <1>4, <2>1
<1>8. CASE RefuseCollision \/ RefuseClean \/ CleanFails \/ FailMarker \/ FailFixtureMarker \/ Crash
           \/ GiveUp \/ FixturesGiveUp
  BY <1>8 DEF RefuseCollision, RefuseClean, CleanFails, FailMarker, FailFixtureMarker, Crash, GiveUp,
              FixturesGiveUp, Diagnose, Over
<1>9. CASE TakeLongPath \/ Clean \/ Skip \/ Perform \/ RefuseOperation \/ Prune \/ FailOperation \/ Delete
  BY <1>9 DEF TakeLongPath, Clean, Skip, Perform, RefuseOperation, Prune, FailOperation, Delete, AtWork, Over
<1>10. ASSUME Begin PROVE FALSE
  BY <1>10 DEF Begin, Over
<1> QED BY <1>1, <1>2, <1>5, <1>6, <1>7, <1>8, <1>9, <1>10 DEF Next, Command, Work, Fix, Finished

-----------------------------------------------------------------------------
(* Whatever is on disk, whatever fails and wherever a command is cut off, the   *)
(* four parts of the invariant hold in every state (NodeModulesMaterializer.    *)
(* Materialize).                                                             *)
THEOREM MaterializerInvariant == Spec => []Invariant
<1>1. Init => Invariant
  BY TypedInit DEF Init, Invariant, Placing, Vouched, Emptied, Settling, Over
<1>2. Invariant /\ [Next]_vars => Invariant'
  BY TypedStep, PlacingStep, VouchedStep, SettlingStep DEF Invariant
<1> QED BY <1>1, <1>2, PTL DEF Spec

(* A sync that went the long way and reports nothing has put all of its plan in  *)
(* place and written its marker, for every lock with a sound layout, any faults, *)
(* crashes and deletions before it (runNestedMaterialization,                  *)
(* materializeModuleInstances, saveMaterializationMarker).                     *)
THEOREM SyncsAreWhole == Spec => []SyncedIsWhole
<1>1. Invariant => SyncedIsWhole
  BY DEF Invariant, Settling, Over, SyncedIsWhole, Succeeded
<1> QED BY <1>1, MaterializerInvariant, PTL

(* When the marker answers for a sync, its tree is there but for what nobody can  *)
(* see from the root: what somebody has deleted elsewhere, and what another sync   *)
(* has removed that wrote no marker (loadMaterializationMarker,                *)
(* markerSanityCheck).                                                       *)
THEOREM MarkersAreSound == Spec => []MarkerIsSound
<1>1. Invariant => MarkerIsSound
  BY DEF Invariant, Typed, Settling, Over, MarkerIsSound, VouchedIsWhole, Succeeded
<1> QED BY <1>1, MaterializerInvariant, PTL

(* After sync --clean, and after a long sync without instances, nothing but the  *)
(* plan and fixtures is in the workspace's node_modules (cleanNodeModules,        *)
(* pruneNodeModulesRoot).                                                    *)
THEOREM CleansAreExact == Spec => []CleanIsExact
<1>1. Invariant => CleanIsExact
  BY DEF Invariant, Settling, Over, CleanIsExact, Succeeded, Exact
<1> QED BY <1>1, MaterializerInvariant, PTL

=============================================================================
