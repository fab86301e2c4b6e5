----------------------------- MODULE XpathProofs -----------------------------
(***************************************************************************)
(* Proofs about Xpath, for any scene, any routes, and any number of trees  *)
(* and handles.                                                            *)
(***************************************************************************)
EXTENDS Xpath, SequenceTheorems, TLAPS

Handle == [at : XNode, state : {"held", "loose", "gone"}]

CopyIn(s, x) == x[2] \in s[x[1]]

(* Every copy made is still allocated; every handle leads to a copy or to  *)
(* a root; no root goes before one of its handles has; travelXpath stands  *)
(* on a node that is allocated.                                            *)
Copies == \A t \in 1..Len(shot) : \A n \in shot[t] : <<t, n>> \in live
HandlesLead == \A i \in 1..Len(handle) : IsRoot(handle[i].at) \/ CopyIn(shot, handle[i].at)
RootsLast ==
  \A i \in 1..Len(handle) :
    handle[i].state # "gone" /\ handle[i].at \notin live =>
      \E j \in 1..Len(handle) : handle[j].at = handle[i].at /\ handle[j].state = "gone"
Walking ==
  /\ walk = [from |-> walk.from, at |-> walk.at, route |-> walk.route, left |-> walk.left]
  /\ pc = "travel" => walk.at \in live /\ (IsRoot(walk.at) \/ CopyIn(shot, walk.at))

XpathInv == TypeOK /\ Copies /\ HandlesLead /\ RootsLast /\ Walking

(* The components of routes. *)
Component == {Name[n] : n \in Node} \cup {Class[n] : n \in Node} \cup {Empty}

(* What lies in the tree of x, and what one component leads to.            *)
Near(x) == {x} \cup {<<x[1], n>> : n \in shot[x[1]]}
Step(y, z, c) == \E j \in Children(y) : Child(y, j) = z /\ Matches(z, c)

(* Along, for the first k components.                                      *)
AlongTo(x, p, k, y) ==
  \E s \in [1..(k + 1) -> Near(x)] :
    s[1] = x /\ s[k + 1] = y /\ \A i \in 1..k : Step(s[i], s[i + 1], p[i])

(* k components are behind the walk w: it is where they lead, and nowhere  *)
(* else may they lead unless the route is ambiguous.                       *)
Behind(w, k) ==
  /\ Len(w.left) = Len(w.route) - (k + 1)
  /\ \A j \in 1..Len(w.left) : w.left[j] = w.route[k + 1 + j]
  /\ AlongTo(w.from, Path(w.route), k, w.at)
  /\ Unambiguous(Path(w.route)) =>
       \A y \in Near(w.from) : AlongTo(w.from, Path(w.route), k, y) => y = w.at

OnItsWay ==
  pc = "travel" =>
    /\ walk.from \in XNode /\ walk.route \in Routes /\ walk.left \in Seq(Component)
    /\ \E k \in 0..Len(Path(walk.route)) : Behind(walk, k)

(* The copies made since the game last ran are of nodes still enabled.     *)
FreshCopies == \A t \in fresh : \A n \in shot[t] : Above[n] \subseteq enabled

FoundInv == Len(shot) <= MaxTrees /\ OnItsWay /\ FreshCopies /\ FoundIfThere

LEMMA InitXpath == Init => XpathInv
<1> SUFFICES ASSUME Init PROVE XpathInv
  OBVIOUS
<1>1. TypeOK
  <2>1. shot \in Seq(SUBSET Node) /\ fresh \subseteq 1..Len(shot) /\ live \subseteq XNode
    BY EmptySeq DEF Init
  <2>2. handle \in Seq([at : XNode, state : {"held", "loose", "gone"}])
    BY EmptySeq DEF Init
  <2> QED
    BY <2>1, <2>2, SceneAssumption DEF Init, TypeOK
<1>2. Copies /\ HandlesLead /\ RootsLast
  BY DEF Init, Copies, HandlesLead, RootsLast
<1>3. Walking
  BY DEF Init, Walking, Idle
<1> QED
  BY <1>1, <1>2, <1>3 DEF XpathInv

(* The parts of an Xpath node. *)
LEMMA Parts ==
  ASSUME NEW x \in XNode
  PROVE  x = <<x[1], x[2]>> /\ x[1] \in 1..Len(shot) /\ x[2] \in Node \cup {Root}
BY DEF XNode

(* A copy is an Xpath node, and no root. *)
LEMMA CopyFacts ==
  ASSUME TypeOK, NEW t \in 1..Len(shot), NEW n \in shot[t]
  PROVE  n \in Node /\ n # Root /\ <<t, n>> \in XNode /\ ~IsRoot(<<t, n>>)
<1>1. shot[t] \in SUBSET Node
  BY ElementOfSeq DEF TypeOK
<1>2. n \in Node /\ n # Root
  <2>1. Root \notin Node
    BY SceneAssumption
  <2> QED
    BY <1>1, <2>1
<1>3. <<t, n>> \in XNode
  BY <1>2 DEF XNode
<1>4. <<t, n>>[2] = n
  OBVIOUS
<1> QED
  BY <1>2, <1>3, <1>4 DEF IsRoot

(* Nothing that concerns trees or handles changes. *)
LEMMA SameHeap ==
  ASSUME XpathInv, UNCHANGED <<shot, live, handle>>, Walking', enabled' \subseteq Node,
         fresh' \subseteq 1..Len(shot), pc' \in {"game", "script", "travel"},
         IF pc' = "travel" THEN walk'.at \in XNode ELSE walk' = Idle
  PROVE  XpathInv'
<1>1. TypeOK'
  BY DEF XpathInv, TypeOK, XNode
<1>2. Copies' /\ HandlesLead' /\ RootsLast'
  BY DEF XpathInv, Copies, HandlesLead, RootsLast, CopyIn
<1> QED
  BY <1>1, <1>2 DEF XpathInv

(* One more tree, with all its copies allocated and perhaps its root.      *)
LEMMA MoreTrees ==
  ASSUME XpathInv, GenXpath, Alloc \ {<<NewTree, Root>>} \subseteq live',
         live \subseteq live', live' \subseteq live \cup Alloc
  PROVE  /\ shot' \in Seq(SUBSET Node) /\ Len(shot') = NewTree
         /\ fresh' \subseteq 1..Len(shot') /\ live' \subseteq XNode' /\ XNode \subseteq XNode'
         /\ <<NewTree, Root>> \in XNode' /\ Copies'
         /\ \A x \in XNode : CopyIn(shot, x) => CopyIn(shot', x)
<1>1. /\ shot \in Seq(SUBSET Node) /\ Snapshot \in SUBSET Node /\ shot' = Append(shot, Snapshot)
      /\ fresh \subseteq 1..Len(shot) /\ fresh' = fresh \cup {Len(shot) + 1} /\ live \subseteq XNode
  BY DEF XpathInv, TypeOK, Snapshot, GenXpath, NewTree
<1>2. /\ shot' \in Seq(SUBSET Node) /\ Len(shot') = Len(shot) + 1 /\ Len(shot) \in Nat
      /\ \A t \in 1..Len(shot) : shot'[t] = shot[t]
      /\ shot'[Len(shot) + 1] = Snapshot
  BY <1>1, AppendProperties
<1>3. fresh' \subseteq 1..Len(shot')
  <2>1. 1..Len(shot) \subseteq 1..Len(shot') /\ Len(shot) + 1 \in 1..Len(shot')
    BY <1>2
  <2> QED
    BY <1>1, <2>1
<1>4. XNode \subseteq XNode'
  BY <1>2 DEF XNode
<1>5. Alloc \subseteq XNode'
  BY <1>1, <1>2 DEF XNode, Alloc, NewTree
<1>6. <<NewTree, Root>> \in XNode'
  BY <1>5 DEF Alloc
<1>7. ASSUME NEW t \in 1..Len(shot'), NEW n \in shot'[t]
      PROVE  <<t, n>> \in live'
  <2>1. CASE t \in 1..Len(shot)
    <3>1. n \in shot[t]
      BY <1>2, <1>7, <2>1
    <3> QED
      BY <2>1, <3>1 DEF XpathInv, Copies
  <2>2. CASE t = Len(shot) + 1
    <3>1. n \in Snapshot /\ n # Root
      BY <1>1, <1>2, <1>7, <2>2, SceneAssumption
    <3> QED
      BY <2>2, <3>1 DEF Alloc, NewTree
  <2> QED
    BY <1>2, <1>7, <2>1, <2>2
<1>8. ASSUME NEW x \in XNode, CopyIn(shot, x)
      PROVE  CopyIn(shot', x)
  BY <1>2, <1>8, Parts DEF CopyIn
<1> QED
  BY <1>1, <1>2, <1>3, <1>4, <1>5, <1>6, <1>7, <1>8 DEF Copies, NewTree

(* One more handle, to a node that is allocated. *)
LEMMA MoreHandles ==
  ASSUME XpathInv, XNode \subseteq XNode', \A x \in XNode : CopyIn(shot, x) => CopyIn(shot', x),
         live \subseteq live', NEW h, h \in Handle', handle' = Append(handle, h),
         h.at \in live', (IsRoot(h.at) \/ CopyIn(shot', h.at))
  PROVE  handle' \in Seq(Handle') /\ HandlesLead' /\ RootsLast'
<1>1. handle \in Seq(Handle) /\ Handle \subseteq Handle'
  BY DEF XpathInv, TypeOK, Handle
<1>2. handle \in Seq(Handle')
  BY <1>1, SeqMonotonic
<1>3. /\ handle' \in Seq(Handle') /\ Len(handle') = Len(handle) + 1 /\ Len(handle) \in Nat
      /\ \A i \in 1..Len(handle) : handle'[i] = handle[i]
      /\ handle'[Len(handle) + 1] = h
  BY <1>2, AppendProperties
<1>4. ASSUME NEW i \in 1..Len(handle')
      PROVE  IsRoot(handle'[i].at) \/ CopyIn(shot', handle'[i].at)
  <2>1. CASE i \in 1..Len(handle)
    <3>1. handle[i].at \in XNode /\ (IsRoot(handle[i].at) \/ CopyIn(shot, handle[i].at))
      <4>1. handle[i] \in Handle
        BY <1>1, <2>1, ElementOfSeq
      <4> QED
        BY <2>1, <4>1 DEF XpathInv, HandlesLead, Handle
    <3> QED
      BY <1>3, <2>1, <3>1
  <2>2. CASE i = Len(handle) + 1
    BY <1>3, <2>2
  <2> QED
    BY <1>3, <1>4, <2>1, <2>2
<1>5. ASSUME NEW i \in 1..Len(handle'), handle'[i].state # "gone", handle'[i].at \notin live'
      PROVE  \E j \in 1..Len(handle') : handle'[j].at = handle'[i].at /\ handle'[j].state = "gone"
  <2>1. i \in 1..Len(handle)
    BY <1>3, <1>5
  <2>2. handle[i].state # "gone" /\ handle[i].at \notin live
    BY <1>3, <1>5, <2>1
  <2>3. PICK j \in 1..Len(handle) : handle[j].at = handle[i].at /\ handle[j].state = "gone"
    BY <2>1, <2>2 DEF XpathInv, RootsLast
  <2> QED
    BY <1>3, <2>1, <2>3
<1>6. HandlesLead'
  BY <1>4 DEF HandlesLead
<1>7. RootsLast'
  BY <1>5 DEF RootsLast
<1> QED
  BY <1>3, <1>6, <1>7

LEMMA StepTravel ==
  ASSUME XpathInv, TravelStep
  PROVE  XpathInv'
<1>1. PICK i \in Hit : walk' = [walk EXCEPT !.at = Child(@, i), !.left = Tail(@)]
  BY DEF TravelStep
<1>2. /\ pc = "travel" /\ pc' = "travel" /\ UNCHANGED <<shot, live, handle>>
      /\ enabled' = enabled /\ fresh' = fresh
  BY DEF TravelStep
<1>3. /\ walk = [from |-> walk.from, at |-> walk.at, route |-> walk.route, left |-> walk.left]
      /\ walk.at \in XNode
  BY <1>2 DEF XpathInv, Walking, TypeOK
<1>4. walk' = [from |-> walk.from, at |-> Child(walk.at, i), route |-> walk.route, left |-> Tail(walk.left)]
  BY <1>1, <1>3
<1>5. i \in Children(walk.at) /\ Scene(walk.at)[i] \in shot[walk.at[1]] /\ walk.at[1] \in 1..Len(shot)
  BY <1>1, <1>3, Parts DEF Hit, Children
<1> DEFINE y == <<walk.at[1], Scene(walk.at)[i]>>
<1>6. y \in XNode /\ y \in live /\ CopyIn(shot, y)
  BY <1>5, CopyFacts DEF XpathInv, Copies, CopyIn
<1>7. walk'.at = y /\ Walking'
  BY <1>2, <1>4, <1>6 DEF Walking, Child, CopyIn
<1> QED
  BY <1>2, <1>6, <1>7, SameHeap DEF XpathInv, TypeOK

LEMMA StepFound ==
  ASSUME XpathInv, TravelFound
  PROVE  XpathInv'
<1>1. /\ pc = "travel" /\ pc' = "script" /\ shot' = shot /\ live' = live /\ fresh' = fresh
      /\ enabled' = enabled /\ walk' = Idle /\ handle' = Append(handle, Hold(walk.at))
  BY DEF TravelFound
<1>2. walk.at \in XNode /\ walk.at \in live /\ (IsRoot(walk.at) \/ CopyIn(shot, walk.at))
  BY <1>1 DEF XpathInv, Walking, TypeOK
<1>3. XNode' = XNode
  BY <1>1 DEF XNode
<1>4. Hold(walk.at) \in Handle' /\ Hold(walk.at).at = walk.at
  BY <1>2, <1>3 DEF Hold, Handle
<1>5. handle' \in Seq(Handle') /\ HandlesLead' /\ RootsLast'
  BY <1>1, <1>2, <1>3, <1>4, MoreHandles
<1>6. TypeOK'
  BY <1>1, <1>3, <1>5 DEF XpathInv, TypeOK, Handle
<1>7. Copies' /\ Walking'
  BY <1>1 DEF XpathInv, Copies, Walking, Idle
<1> QED
  BY <1>5, <1>6, <1>7 DEF XpathInv

(* What UI.travel does with and without a route: a new tree, a handle to   *)
(* its root.                                                               *)
LEMMA StepGenerate ==
  ASSUME XpathInv, GenXpath, live' = live \cup Alloc, enabled' = enabled,
         NEW s \in {"held", "loose"},
         handle' = Append(handle, [at |-> <<NewTree, Root>>, state |-> s]),
         \/ pc' = "script" /\ walk' = walk
         \/ /\ pc' = "travel"
            /\ \E route \in Routes : walk' = Start(<<NewTree, Root>>, route)
  PROVE  XpathInv'
<1> DEFINE root == <<NewTree, Root>>
           h == [at |-> root, state |-> s]
<1>1. root \in live' /\ IsRoot(root)
  BY DEF Alloc, IsRoot
<1>2. /\ shot' \in Seq(SUBSET Node) /\ Len(shot') = NewTree /\ fresh' \subseteq 1..Len(shot')
      /\ live' \subseteq XNode' /\ XNode \subseteq XNode' /\ root \in XNode' /\ Copies'
      /\ \A x \in XNode : CopyIn(shot, x) => CopyIn(shot', x)
  BY MoreTrees
<1>3. h \in Handle' /\ h.at = root
  BY <1>2 DEF Handle
<1> HIDE DEF h
<1>4. handle' = Append(handle, h)
  BY DEF h
<1>5. handle' \in Seq(Handle') /\ HandlesLead' /\ RootsLast'
  BY <1>1, <1>2, <1>3, <1>4, MoreHandles
<1>6. Walking' /\ (IF pc' = "travel" THEN walk'.at \in XNode' ELSE walk' = Idle)
  <2>1. CASE pc' = "script" /\ walk' = walk
    <3>1. pc = "script"
      BY DEF GenXpath
    <3>2. walk' = Idle
      BY <2>1, <3>1 DEF XpathInv, TypeOK
    <3> QED
      BY <2>1, <3>2 DEF Walking, Idle
  <2>2. CASE pc' = "travel" /\ \E route \in Routes : walk' = Start(root, route)
    <3>1. PICK route \in Routes : walk' = [from |-> root, at |-> root, route |-> route, left |-> Tail(route)]
      BY <2>2 DEF Start
    <3>2. walk'.at = root /\ walk' = [from |-> walk'.from, at |-> walk'.at, route |-> walk'.route, left |-> walk'.left]
      BY <3>1
    <3> QED
      BY <1>1, <1>2, <2>2, <3>2 DEF Walking
  <2> QED
    BY <2>1, <2>2
<1>7. TypeOK'
  <2>1. enabled' \subseteq Node /\ pc' \in {"game", "script", "travel"}
    BY DEF XpathInv, TypeOK
  <2> QED
    BY <1>2, <1>5, <1>6, <2>1 DEF TypeOK, Handle
<1> QED
  BY <1>2, <1>5, <1>6, <1>7 DEF XpathInv

LEMMA StepSync ==
  ASSUME XpathInv, SyncSend
  PROVE  XpathInv'
<1> DEFINE root == <<NewTree, Root>>
<1>1. /\ GenXpath /\ live' = (live \cup Alloc) \ {root}
      /\ enabled' = enabled /\ walk' = walk /\ pc' = pc /\ handle' = handle
  BY DEF SyncSend, Freed
<1>2. root \notin XNode /\ live \subseteq XNode /\ handle \in Seq(Handle) /\ shot \in Seq(SUBSET Node)
  BY DEF XpathInv, TypeOK, XNode, NewTree, Handle
<1>3. live \subseteq live' /\ Alloc \ {root} \subseteq live' /\ live' \subseteq live \cup Alloc
  BY <1>1, <1>2
<1>4. /\ shot' \in Seq(SUBSET Node) /\ Len(shot') = NewTree /\ fresh' \subseteq 1..Len(shot')
      /\ live' \subseteq XNode' /\ XNode \subseteq XNode' /\ Copies'
      /\ \A x \in XNode : CopyIn(shot, x) => CopyIn(shot', x)
  BY <1>1, <1>3, MoreTrees
<1>5. handle' \in Seq(Handle')
  <2>1. Handle \subseteq Handle'
    BY <1>4 DEF Handle
  <2> QED
    BY <1>1, <1>2, <2>1, SeqMonotonic
<1>6. \A i \in 1..Len(handle) : handle[i].at \in XNode
  <2>1. \A i \in 1..Len(handle) : handle[i] \in Handle
    BY <1>2, ElementOfSeq
  <2> QED
    BY <2>1 DEF Handle
<1>7. HandlesLead' /\ RootsLast'
  BY <1>1, <1>3, <1>4, <1>6 DEF XpathInv, HandlesLead, RootsLast
<1>8. pc = "script" /\ walk = Idle
  BY <1>1 DEF GenXpath, XpathInv, TypeOK
<1>9. TypeOK' /\ Walking'
  BY <1>1, <1>4, <1>5, <1>8 DEF XpathInv, TypeOK, Walking, Handle, Idle
<1> QED
  BY <1>4, <1>7, <1>9 DEF XpathInv

(* A handle's state changes; its node does not. *)
LEMMA OtherState ==
  ASSUME XpathInv, NEW i \in 1..Len(handle), NEW s \in {"held", "loose", "gone"},
         handle' = [handle EXCEPT ![i].state = s], shot' = shot
  PROVE  /\ handle' \in Seq(Handle)' /\ Len(handle') = Len(handle) /\ HandlesLead'
         /\ handle'[i].state = s
         /\ \A j \in 1..Len(handle) : /\ handle'[j].at = handle[j].at
                                      /\ j # i => handle'[j].state = handle[j].state
<1> DEFINE h == [handle[i] EXCEPT !.state = s]
<1>1. handle \in Seq(Handle) /\ XNode' = XNode /\ Handle' = Handle
  BY DEF XpathInv, TypeOK, Handle, XNode
<1>2. handle[i] \in Handle
  BY <1>1, ElementOfSeq
<1>3. h \in Handle /\ h.at = handle[i].at /\ h.state = s
  BY <1>2 DEF Handle
<1>4. handle' = [handle EXCEPT ![i] = h]
  OBVIOUS
<1> HIDE DEF h
<1>5. /\ handle' \in Seq(Handle) /\ Len(handle') = Len(handle)
      /\ \A j \in 1..Len(handle) : handle'[j] = IF j = i THEN h ELSE handle[j]
  BY <1>1, <1>3, <1>4, ExceptSeq
<1>6. \A j \in 1..Len(handle) : /\ handle'[j].at = handle[j].at
                                /\ j # i => handle'[j].state = handle[j].state
  BY <1>3, <1>5
<1>7. HandlesLead'
  BY <1>5, <1>6 DEF XpathInv, HandlesLead
<1> QED
  BY <1>1, <1>3, <1>5, <1>6, <1>7

LEMMA StepDrop ==
  ASSUME XpathInv, NEW i \in 1..Len(handle), Drop(i)
  PROVE  XpathInv'
<1>1. /\ handle[i].state = "held" /\ handle' = [handle EXCEPT ![i].state = "loose"]
      /\ UNCHANGED <<enabled, shot, live, fresh, walk, pc>>
  BY DEF Drop
<1>2. /\ handle' \in Seq(Handle)' /\ Len(handle') = Len(handle) /\ HandlesLead'
      /\ handle'[i].state = "loose"
      /\ \A j \in 1..Len(handle) : /\ handle'[j].at = handle[j].at
                                   /\ j # i => handle'[j].state = handle[j].state
  BY <1>1, OtherState
<1>3. TypeOK'
  <2>1. XNode' = XNode /\ handle' \in Seq([at : XNode, state : {"held", "loose", "gone"}])
    <3>1. shot' = shot
      BY <1>1
    <3>2. XNode' = XNode
      BY <3>1 DEF XNode
    <3> QED
      BY <1>2, <3>2 DEF Handle
  <2>2. live' \subseteq live
    BY <1>1
  <2> QED
    BY <1>1, <2>1, <2>2 DEF XpathInv, TypeOK
<1>4. Copies' /\ Walking'
  BY <1>1 DEF XpathInv, Copies, Walking
<1>5. RootsLast'
  BY <1>1, <1>2 DEF XpathInv, RootsLast
<1> QED
  BY <1>2, <1>3, <1>4, <1>5 DEF XpathInv

LEMMA StepCollect ==
  ASSUME XpathInv, NEW i \in 1..Len(handle), Collect(i)
  PROVE  XpathInv'
<1> DEFINE x == handle[i].at
<1>1. /\ handle[i].state = "loose" /\ handle' = [handle EXCEPT ![i].state = "gone"]
      /\ live' = IF IsRoot(x) THEN live \ {x} ELSE live
      /\ UNCHANGED <<enabled, shot, fresh, walk, pc>> /\ pc = "script"
  BY DEF Collect, Owned, Freed
<1>2. /\ handle' \in Seq(Handle)' /\ Len(handle') = Len(handle) /\ HandlesLead'
      /\ handle'[i].state = "gone"
      /\ \A j \in 1..Len(handle) : /\ handle'[j].at = handle[j].at
                                   /\ j # i => handle'[j].state = handle[j].state
  BY <1>1, OtherState
<1>3. TypeOK'
  <2>1. XNode' = XNode /\ handle' \in Seq([at : XNode, state : {"held", "loose", "gone"}])
    <3>1. shot' = shot
      BY <1>1
    <3>2. XNode' = XNode
      BY <3>1 DEF XNode
    <3> QED
      BY <1>2, <3>2 DEF Handle
  <2>2. live' \subseteq live
    BY <1>1
  <2> QED
    BY <1>1, <2>1, <2>2 DEF XpathInv, TypeOK
<1>4. \A z \in live \ live' : IsRoot(z) /\ z = x
  BY <1>1
<1>5. Copies'
  <2>1. ASSUME NEW t \in 1..Len(shot), NEW n \in shot[t]
        PROVE  <<t, n>> \in live'
    <3>1. ~IsRoot(<<t, n>>) /\ <<t, n>> \in live
      BY <2>1, CopyFacts DEF XpathInv, Copies
    <3> QED
      BY <1>4, <3>1
  <2> QED
    BY <1>1, <2>1 DEF Copies
<1>6. Walking'
  BY <1>1 DEF XpathInv, Walking
<1>7. RootsLast'
  <2>1. ASSUME NEW j \in 1..Len(handle), handle'[j].state # "gone", handle'[j].at \notin live'
        PROVE  \E m \in 1..Len(handle) : handle'[m].at = handle'[j].at /\ handle'[m].state = "gone"
    <3>1. j # i /\ handle[j].state # "gone"
      BY <1>2, <2>1
    <3>2. CASE handle[j].at \in live
      <4>1. handle[j].at = x
        BY <1>2, <1>4, <2>1, <3>2
      <4> QED
        BY <1>2, <4>1
    <3>3. CASE handle[j].at \notin live
      <4>1. PICK m \in 1..Len(handle) : handle[m].at = handle[j].at /\ handle[m].state = "gone"
        BY <3>1, <3>3 DEF XpathInv, RootsLast
      <4> QED
        BY <1>1, <1>2, <4>1
    <3> QED
      BY <3>2, <3>3
  <2> QED
    BY <1>2, <2>1 DEF RootsLast
<1> QED
  BY <1>2, <1>3, <1>4, <1>5, <1>6, <1>7 DEF XpathInv

LEMMA StepXpath == XpathInv /\ [Next]_vars => XpathInv'
<1> SUFFICES ASSUME XpathInv, [Next]_vars PROVE XpathInv'
  OBVIOUS
<1>1. CASE UNCHANGED vars
  BY <1>1, SameHeap DEF vars, XpathInv, TypeOK, Walking
<1>2. ASSUME UNCHANGED <<shot, live, handle, walk>>, enabled' \subseteq Node, fresh' \subseteq fresh,
             pc # "travel", pc' \in {"game", "script"}
      PROVE  XpathInv'
  BY <1>2, SameHeap DEF XpathInv, TypeOK, Walking
<1>3. \A e \in Scenes : e \subseteq Node
  BY SceneAssumption
<1>4. CASE GameStep
  BY <1>2, <1>3, <1>4 DEF GameStep
<1>5. CASE TickEnd
  BY <1>2, <1>5 DEF TickEnd, XpathInv, TypeOK
<1>6. CASE TravelWhole
  BY <1>6, StepGenerate DEF TravelWhole, Hold, GenXpath
<1>7. CASE TravelRoute
  BY <1>7, StepGenerate DEF TravelRoute
<1>8. CASE TravelStep
  BY <1>8, StepTravel DEF TravelStep
<1>9. CASE TravelFound
  BY <1>9, StepFound DEF TravelFound
<1>10. CASE TravelLost
  <2>1. UNCHANGED <<shot, live, handle>> /\ walk' = Idle /\ pc' = "script" /\ enabled' = enabled /\ fresh' = fresh
    BY <1>10 DEF TravelLost
  <2>2. Walking'
    BY <2>1 DEF Walking, Idle
  <2> QED
    BY <2>1, <2>2, SameHeap DEF XpathInv, TypeOK
<1>11. CASE SyncSend
  BY <1>11, StepSync
<1>12. ASSUME NEW i \in 1..Len(handle), TravelFrom(i)
       PROVE  XpathInv'
  <2>1. PICK route \in Routes : walk' = [from |-> handle[i].at, at |-> handle[i].at, route |-> route, left |-> Tail(route)]
    BY <1>12 DEF TravelFrom, Start
  <2>2. /\ UNCHANGED <<shot, live, handle>> /\ pc' = "travel" /\ enabled' = enabled /\ fresh' = fresh
        /\ handle[i].at \in live
    BY <1>12 DEF TravelFrom, Usable
  <2>3. /\ walk'.at = handle[i].at
        /\ walk' = [from |-> walk'.from, at |-> walk'.at, route |-> walk'.route, left |-> walk'.left]
    BY <2>1
  <2>4. IsRoot(handle[i].at) \/ CopyIn(shot, handle[i].at)
    BY <1>12 DEF XpathInv, HandlesLead
  <2>5. Walking'
    BY <2>2, <2>3, <2>4 DEF Walking
  <2> QED
    BY <2>2, <2>3, <2>5, SameHeap DEF XpathInv, TypeOK
<1>13. ASSUME NEW i \in 1..Len(handle), Click(i)
       PROVE  XpathInv'
  BY <1>2, <1>3, <1>13 DEF Click, Usable, SceneChanges
<1>14. ASSUME NEW i \in 1..Len(handle), Drop(i)
       PROVE  XpathInv'
  BY <1>14, StepDrop DEF Drop
<1>15. ASSUME NEW i \in 1..Len(handle), Collect(i)
       PROVE  XpathInv'
  BY <1>15, StepCollect
<1>16. CASE Act
  BY <1>2, <1>3, <1>16 DEF Act, SceneChanges
<1> QED
  BY <1>1, <1>4, <1>5, <1>6, <1>7, <1>8, <1>9, <1>10, <1>11, <1>12, <1>13, <1>14,
     <1>15, <1>16 DEF Next

LEMMA XpathAlways == Spec => []XpathInv
BY InitXpath, StepXpath, PTL DEF Spec

(* Every node, tree, handle and walk is of its kind. *)
THEOREM TypeCorrect == Spec => []TypeOK
<1>1. XpathInv => TypeOK
  BY DEF XpathInv
<1> QED
  BY <1>1, XpathAlways, PTL

(* Only a second handle to a collected root leads nowhere. *)
THEOREM OnlyAliasesDangleAlways == Spec => []OnlyAliasesDangle
<1>1. XpathInv => OnlyAliasesDangle
  <2> SUFFICES ASSUME XpathInv, NEW i \in 1..Len(handle),
                      handle[i].state # "gone", handle[i].at \notin live
               PROVE  /\ IsRoot(handle[i].at)
                      /\ \E j \in 1..Len(handle) \ {i} :
                           handle[j].at = handle[i].at /\ handle[j].state = "gone"
    BY DEF OnlyAliasesDangle
  <2> DEFINE x == handle[i].at
  <2>1. x \in XNode
    <3>1. handle[i] \in [at : XNode, state : {"held", "loose", "gone"}]
      BY ElementOfSeq DEF XpathInv, TypeOK
    <3> QED
      BY <3>1
  <2>2. x = <<x[1], x[2]>> /\ x[1] \in 1..Len(shot)
    BY <2>1, Parts
  <2>3. ~CopyIn(shot, x)
    BY <2>2 DEF XpathInv, Copies, CopyIn
  <2>4. IsRoot(x)
    BY <2>3 DEF XpathInv, HandlesLead
  <2> QED
    BY <2>4 DEF XpathInv, RootsLast
<1> QED
  BY <1>1, XpathAlways, PTL

(* What remains of a route once its first component has been taken for the *)
(* start, and an empty last one for the end.                               *)
LEMMA PathFacts ==
  ASSUME NEW route \in Routes
  PROVE  /\ route \in Seq(Component) /\ Len(route) \in Nat \ {0}
         /\ Tail(route) \in Seq(Component) /\ Len(Tail(route)) = Len(route) - 1
         /\ \A i \in 1..(Len(route) - 1) : Tail(route)[i] = route[i + 1]
         /\ Path(route) \in Seq(Component)
         /\ Len(Path(route)) = IF Len(route) > 1 /\ route[Len(route)] = Empty
                               THEN Len(route) - 2 ELSE Len(route) - 1
         /\ \A i \in 1..Len(Path(route)) : Path(route)[i] = route[i + 1]
<1> DEFINE m == Len(route)
           p == Tail(route)
<1>1. route \in Seq(Component) /\ route # <<>>
  BY SceneAssumption DEF Component
<1>2. m \in Nat \ {0}
  BY <1>1, EmptySeq, LenProperties
<1>3. p \in Seq(Component) /\ Len(p) = m - 1 /\ \A i \in 1..(m - 1) : p[i] = route[i + 1]
  BY <1>1, <1>2, HeadTailProperties
<1>4. Path(route) = IF p # <<>> /\ p[Len(p)] = Empty THEN SubSeq(p, 1, Len(p) - 1) ELSE p
  BY DEF Path
<1> HIDE DEF p
<1>5. p # <<>> <=> m > 1
  BY <1>2, <1>3, EmptySeq
<1>6. m > 1 => p[Len(p)] = route[m]
  BY <1>2, <1>3
<1>7. CASE m > 1 /\ route[m] = Empty
  <2>1. Path(route) = SubSeq(p, 1, m - 2)
    BY <1>2, <1>3, <1>4, <1>5, <1>6, <1>7
  <2>2. \A i \in 1..(m - 2) : p[i] \in Component
    BY <1>2, <1>3, ElementOfSeq
  <2>3. /\ SubSeq(p, 1, m - 2) \in Seq(Component) /\ Len(SubSeq(p, 1, m - 2)) = m - 2
        /\ \A i \in 1..(m - 2) : SubSeq(p, 1, m - 2)[i] = p[i]
    BY <1>2, <1>3, <1>7, <2>2, SubSeqProperties
  <2>4. \A i \in 1..(m - 2) : Path(route)[i] = route[i + 1]
    BY <1>2, <1>3, <2>1, <2>3
  <2> QED
    BY <1>1, <1>2, <1>3, <1>7, <2>1, <2>3, <2>4 DEF p
<1>8. CASE ~(m > 1 /\ route[m] = Empty)
  <2>1. Path(route) = p
    BY <1>4, <1>5, <1>6, <1>8
  <2> QED
    BY <1>1, <1>2, <1>3, <1>8, <2>1 DEF p
<1> QED
  BY <1>7, <1>8

(* The beginning of a way is a way. *)
LEMMA Beginning ==
  ASSUME NEW x, NEW p, NEW n \in Nat, NEW k \in 0..n, NEW s \in [1..(n + 1) -> Near(x)],
         s[1] = x, \A i \in 1..n : Step(s[i], s[i + 1], p[i])
  PROVE  AlongTo(x, p, k, s[k + 1]) /\ s[k + 1] \in Near(x)
<1> DEFINE r == [i \in 1..(k + 1) |-> s[i]]
<1>1. r \in [1..(k + 1) -> Near(x)] /\ \A i \in 1..(k + 1) : r[i] = s[i]
  OBVIOUS
<1> HIDE DEF r
<1>2. r[1] = x /\ r[k + 1] = s[k + 1]
  BY <1>1
<1>3. \A i \in 1..k : Step(r[i], r[i + 1], p[i])
  <2> SUFFICES ASSUME NEW i \in 1..k PROVE Step(r[i], r[i + 1], p[i])
    OBVIOUS
  <2>1. r[i] = s[i] /\ r[i + 1] = s[i + 1] /\ i \in 1..n
    BY <1>1
  <2> QED
    BY <2>1
<1>4. s[k + 1] \in Near(x)
  OBVIOUS
<1> QED
  BY <1>1, <1>2, <1>3, <1>4 DEF AlongTo

(* And a way goes on where a child matches. *)
LEMMA Onward ==
  ASSUME NEW x, NEW p, NEW k \in Nat, NEW y, AlongTo(x, p, k, y),
         NEW z \in Near(x), Step(y, z, p[k + 1])
  PROVE  AlongTo(x, p, k + 1, z)
<1>1. PICK s \in [1..(k + 1) -> Near(x)] :
        s[1] = x /\ s[k + 1] = y /\ \A i \in 1..k : Step(s[i], s[i + 1], p[i])
  BY DEF AlongTo
<1> DEFINE r == [i \in 1..(k + 1 + 1) |-> IF i = k + 2 THEN z ELSE s[i]]
<1>2. r \in [1..(k + 1 + 1) -> Near(x)]
  OBVIOUS
<1>3. (\A i \in 1..(k + 1) : r[i] = s[i]) /\ r[k + 1 + 1] = z
  OBVIOUS
<1> HIDE DEF r
<1>4. r[1] = x
  BY <1>1, <1>3
<1>5. \A i \in 1..(k + 1) : Step(r[i], r[i + 1], p[i])
  <2> SUFFICES ASSUME NEW i \in 1..(k + 1) PROVE Step(r[i], r[i + 1], p[i])
    OBVIOUS
  <2>1. CASE i = k + 1
    BY <1>1, <1>3, <2>1
  <2>2. CASE i # k + 1
    <3>1. i \in 1..k /\ r[i] = s[i] /\ r[i + 1] = s[i + 1]
      BY <1>3, <2>2
    <3> QED
      BY <1>1, <3>1
  <2> QED
    BY <2>1, <2>2
<1> QED
  BY <1>2, <1>3, <1>4, <1>5 DEF AlongTo

(* Where no component is ambiguous, one child at most is meant. *)
LEMMA OneHit ==
  ASSUME NEW x \in XNode, NEW p, Unambiguous(p), NEW k \in DOMAIN p,
         NEW i \in Children(x), NEW j \in Children(x),
         Matches(Child(x, i), p[k]), Matches(Child(x, j), p[k])
  PROVE  i = j
<1>1. CASE IsRoot(x)
  BY <1>1 DEF Children, Scene
<1>2. CASE ~IsRoot(x)
  <2>1. x[2] \in Node /\ Scene(x) = Kids[x[2]]
    BY <1>2, Parts DEF IsRoot, Scene
  <2>2. i \in DOMAIN Kids[x[2]] /\ j \in DOMAIN Kids[x[2]]
    BY <2>1 DEF Children
  <2>3. /\ p[k] = Pattern(Kids[x[2]][i], p[k])
        /\ p[k] = Pattern(Kids[x[2]][j], p[k])
    BY <2>1 DEF Matches, Child
  <2> QED
    BY <2>1, <2>2, <2>3 DEF Unambiguous
<1> QED
  BY <1>1, <1>2

(* A walk that has arrived has the whole path behind it, and no other has. *)
LEMMA ArrivedFacts ==
  ASSUME pc = "travel", walk.route \in Routes, walk.left \in Seq(Component),
         NEW k \in 0..Len(Path(walk.route)), Behind(walk, k)
  PROVE  /\ Arrived <=> k = Len(Path(walk.route))
         /\ ~Arrived => /\ k + 1 \in 1..Len(Path(walk.route))
                        /\ Path(walk.route)[k + 1] = Head(walk.left)
<1> DEFINE route == walk.route
           left == walk.left
           p == Path(route)
           m == Len(route)
<1>1. /\ m \in Nat \ {0}
      /\ Len(p) = IF m > 1 /\ route[m] = Empty THEN m - 2 ELSE m - 1
      /\ \A i \in 1..Len(p) : p[i] = route[i + 1]
  BY PathFacts
<1>2. /\ Len(left) = m - (k + 1) /\ \A j \in 1..Len(left) : left[j] = route[k + 1 + j]
      /\ left \in Seq(Component)
  BY DEF Behind
<1>3. k \in Nat /\ k <= Len(p) /\ Len(p) \in Nat
  BY <1>1
<1>4. left = <<>> <=> Len(left) = 0
  BY <1>2, EmptySeq
<1>5. left # <<>> => Head(left) = left[1]
  BY <1>2, HeadTailProperties
<1>6. left = << Empty >> <=> Len(left) = 1 /\ left[1] = Empty
  <2>1. Len(<< Empty >>) = 1 /\ << Empty >>[1] = Empty /\ << Empty >> \in Seq(Component)
    BY DEF Component
  <2>2. ASSUME Len(left) = 1, left[1] = Empty PROVE left = << Empty >>
    BY <1>2, <2>1, <2>2, SeqEqual
  <2> QED
    BY <2>1, <2>2
<1>7. Arrived <=> left = <<>> \/ left = << Empty >>
  BY DEF Arrived
<1> HIDE DEF left, p, m, route
<1>8. CASE Len(left) = 0
  BY <1>1, <1>2, <1>3, <1>4, <1>7, <1>8 DEF p, left, route
<1>9. CASE Len(left) = 1
  <2>0. m = k + 2
    <3>1. m \in Nat /\ k \in Nat
      BY <1>1, <1>3
    <3>2. m - (k + 1) = 1
      BY <1>2, <1>9
    <3> QED
      BY <3>1, <3>2
  <2>1. m = k + 2 /\ left[1] = route[m]
    <3>1. 1 \in 1..Len(left) /\ k + 1 + 1 = m
      BY <1>3, <1>9, <2>0
    <3> QED
      BY <1>2, <2>0, <3>1
  <2>2. CASE route[m] = Empty
    BY <1>1, <1>3, <1>6, <1>7, <1>9, <2>1, <2>2 DEF p, left, route
  <2>3. CASE route[m] # Empty
    <3>1. ~Arrived /\ Len(p) = m - 1 /\ k + 1 \in 1..Len(p)
      BY <1>1, <1>3, <1>4, <1>6, <1>7, <1>9, <2>1, <2>3
    <3>2. p[k + 1] = left[1]
      BY <1>1, <1>3, <2>1, <3>1
    <3> QED
      BY <1>3, <1>4, <1>5, <1>9, <3>1, <3>2 DEF p, left, route
  <2> QED
    BY <2>2, <2>3
<1>10. CASE Len(left) # 0 /\ Len(left) # 1
  <2>1. Len(left) \in Nat
    BY <1>2, LenProperties
  <2>2. ~Arrived /\ k + 1 \in 1..Len(p) /\ k # Len(p)
    BY <1>1, <1>2, <1>3, <1>4, <1>6, <1>7, <1>10, <2>1
  <2>3. left[1] = route[k + 2] /\ p[k + 1] = route[k + 2]
    BY <1>1, <1>2, <1>3, <1>10, <2>1, <2>2
  <2> QED
    BY <1>4, <1>5, <1>10, <2>2, <2>3 DEF p, left, route
<1> QED
  BY <1>8, <1>9, <1>10

(* A walk begins with nothing behind it. *)
LEMMA WalkBegins ==
  ASSUME NEW x, x \in XNode', NEW route \in Routes, walk' = Start(x, route)
  PROVE  OnItsWay'
<1>1. walk' = [from |-> x, at |-> x, route |-> route, left |-> Tail(route)]
  BY DEF Start
<1>2. walk'.from = x /\ walk'.at = x /\ walk'.route = route /\ walk'.left = Tail(route)
  BY <1>1
<1>3. /\ Tail(route) \in Seq(Component) /\ Len(route) \in Nat /\ Len(Path(route)) \in Nat
      /\ Len(Tail(route)) = Len(route) - 1
      /\ \A i \in 1..(Len(route) - 1) : Tail(route)[i] = route[i + 1]
  BY PathFacts, LenProperties
<1>4. ASSUME NEW y, AlongTo(walk.from, Path(walk.route), 0, y)' PROVE y = walk'.at
  BY <1>2, <1>4 DEF AlongTo
<1>5. AlongTo(walk.from, Path(walk.route), 0, walk.at)'
  <2> DEFINE s == [i \in 1..1 |-> x]
  <2>1. s \in [1..(0 + 1) -> Near(walk.from)'] /\ s[1] = walk'.from /\ s[0 + 1] = walk'.at
    BY <1>2 DEF Near
  <2> HIDE DEF s
  <2>2. \E r \in [1..(0 + 1) -> Near(walk.from)'] :
          r[1] = walk'.from /\ r[0 + 1] = walk'.at /\ 1..0 = {}
    BY <2>1
  <2> QED
    BY <2>2 DEF AlongTo
<1>6. Behind(walk, 0)'
  <2>1. Len(walk'.left) = Len(walk'.route) - (0 + 1)
    BY <1>2, <1>3
  <2>2. \A j \in 1..Len(walk'.left) : walk'.left[j] = walk'.route[0 + 1 + j]
    BY <1>2, <1>3
  <2>3. \A y \in Near(walk.from)' : AlongTo(walk.from, Path(walk.route), 0, y)' => y = walk'.at
    BY <1>4
  <2> QED
    BY <1>5, <2>1, <2>2, <2>3 DEF Behind
<1>7. 0 \in 0..Len(Path(walk.route))'
  BY <1>2, <1>3
<1> QED
  BY <1>2, <1>3, <1>6, <1>7 DEF OnItsWay

(* Where a walk with k components behind it is. *)
LEMMA BehindFacts ==
  ASSUME XpathInv, OnItsWay, pc = "travel", NEW k \in Nat, Behind(walk, k)
  PROVE  /\ walk.at \in XNode /\ walk.at \in Near(walk.from) /\ walk.at[1] = walk.from[1]
         /\ \A i \in Children(walk.at) : Child(walk.at, i) \in Near(walk.from)
<1>1. walk.at \in XNode
  BY DEF XpathInv, TypeOK
<1>2. walk.at \in Near(walk.from)
  <2>1. AlongTo(walk.from, Path(walk.route), k, walk.at)
    BY DEF Behind
  <2>2. PICK s \in [1..(k + 1) -> Near(walk.from)] : s[k + 1] = walk.at
    BY <2>1 DEF AlongTo
  <2>3. k + 1 \in 1..(k + 1)
    OBVIOUS
  <2> QED
    BY <2>2, <2>3
<1>3. walk.at[1] = walk.from[1]
  BY <1>2 DEF Near
<1>4. ASSUME NEW i \in Children(walk.at) PROVE Child(walk.at, i) \in Near(walk.from)
  BY <1>3 DEF Children, Child, Near
<1> QED
  BY <1>1, <1>2, <1>3, <1>4

(* Any way along the same path comes by where the walk is. *)
LEMMA ComesBy ==
  ASSUME NEW k \in Nat, Behind(walk, k), Unambiguous(Path(walk.route)),
         NEW n \in Nat, k + 1 <= n,
         NEW s \in [1..(n + 1) -> Near(walk.from)], s[1] = walk.from,
         \A i \in 1..n : Step(s[i], s[i + 1], Path(walk.route)[i])
  PROVE  Step(walk.at, s[k + 2], Path(walk.route)[k + 1])
<1>1. k \in 0..n /\ k + 1 \in 1..n
  OBVIOUS
<1>2. AlongTo(walk.from, Path(walk.route), k, s[k + 1]) /\ s[k + 1] \in Near(walk.from)
  BY <1>1, Beginning
<1>3. s[k + 1] = walk.at
  BY <1>2 DEF Behind
<1>4. Step(s[k + 1], s[k + 1 + 1], Path(walk.route)[k + 1])
  BY <1>1
<1>5. k + 1 + 1 = k + 2
  OBVIOUS
<1> QED
  BY <1>3, <1>4, <1>5

(* A step of travelXpath takes the only way there is, or one of several.   *)
LEMMA StepOnward ==
  ASSUME XpathInv, OnItsWay, TravelStep
  PROVE  OnItsWay'
<1> DEFINE p == Path(walk.route)
<1>1. /\ pc = "travel" /\ ~Arrived /\ shot' = shot
      /\ walk = [from |-> walk.from, at |-> walk.at, route |-> walk.route, left |-> walk.left]
  BY DEF TravelStep, XpathInv, Walking
<1>2. PICK i \in Hit : walk' = [walk EXCEPT !.at = Child(@, i), !.left = Tail(@)]
  BY DEF TravelStep
<1>3. walk' = [from |-> walk.from, at |-> Child(walk.at, i), route |-> walk.route, left |-> Tail(walk.left)]
  BY <1>1, <1>2
<1>4. /\ walk'.from = walk.from /\ walk'.route = walk.route
      /\ walk'.at = Child(walk.at, i) /\ walk'.left = Tail(walk.left)
  BY <1>3
<1>5. /\ walk.from \in XNode /\ walk.route \in Routes /\ walk.left \in Seq(Component)
  BY <1>1 DEF OnItsWay
<1>6. PICK k \in 0..Len(p) : Behind(walk, k)
  BY <1>1 DEF OnItsWay
<1>7. k + 1 \in 1..Len(p) /\ p[k + 1] = Head(walk.left)
  BY <1>1, <1>5, <1>6, ArrivedFacts
<1>8. p \in Seq(Component) /\ Len(p) \in Nat /\ DOMAIN p = 1..Len(p) /\ k \in Nat
  BY <1>5, PathFacts, LenProperties
<1> HIDE DEF p
<1>9. i \in Children(walk.at) /\ Matches(Child(walk.at, i), p[k + 1])
  BY <1>2, <1>7 DEF Hit
<1>10. /\ walk.at \in XNode /\ Child(walk.at, i) \in Near(walk.from)
       /\ AlongTo(walk.from, p, k, walk.at)
  BY <1>1, <1>6, <1>8, <1>9, BehindFacts DEF Behind, p
<1>11. AlongTo(walk.from, p, k + 1, Child(walk.at, i))
  <2>1. Step(walk.at, Child(walk.at, i), p[k + 1])
    BY <1>9 DEF Step
  <2> QED
    BY <1>8, <1>10, <2>1, Onward
<1>12. ASSUME Unambiguous(p), NEW y, AlongTo(walk.from, p, k + 1, y)
       PROVE  y = Child(walk.at, i)
  <2>1. PICK s \in [1..(k + 1 + 1) -> Near(walk.from)] :
          s[1] = walk.from /\ s[k + 1 + 1] = y /\ \A j \in 1..(k + 1) : Step(s[j], s[j + 1], p[j])
    BY <1>12 DEF AlongTo
  <2>2. k + 1 \in Nat /\ k + 1 <= k + 1 /\ k + 1 \in DOMAIN p /\ k + 1 + 1 = k + 2
    BY <1>7, <1>8
  <2>3. Step(walk.at, s[k + 2], p[k + 1])
    BY <1>6, <1>8, <1>12, <2>1, <2>2, ComesBy DEF p
  <2>4. PICK j \in Children(walk.at) : Child(walk.at, j) = y /\ Matches(y, p[k + 1])
    BY <2>1, <2>2, <2>3 DEF Step
  <2>5. i = j
    BY <1>9, <1>10, <1>12, <2>2, <2>4, OneHit
  <2> QED
    BY <2>4, <2>5
<1>13. \A y : AlongTo(walk.from, p, k + 1, y)' <=> AlongTo(walk.from, p, k + 1, y)
  BY <1>1, <1>4 DEF AlongTo, Near, Step, Children, p
<1>14. Behind(walk, k + 1)'
  <2>1. /\ Len(walk.left) = Len(walk.route) - (k + 1) /\ Len(walk.route) \in Nat
        /\ \A j \in 1..Len(walk.left) : walk.left[j] = walk.route[k + 1 + j]
    BY <1>5, <1>6, PathFacts DEF Behind
  <2>2. walk.left # <<>>
    BY <1>1 DEF Arrived
  <2>3. /\ Tail(walk.left) \in Seq(Component) /\ Len(Tail(walk.left)) = Len(walk.left) - 1
        /\ \A j \in 1..(Len(walk.left) - 1) : Tail(walk.left)[j] = walk.left[j + 1]
        /\ Len(walk.left) \in Nat
    BY <1>5, <2>2, HeadTailProperties, LenProperties
  <2>4. Len(walk'.left) = Len(walk'.route) - (k + 1 + 1)
    BY <1>4, <1>8, <2>1, <2>3
  <2>5. \A j \in 1..Len(walk'.left) : walk'.left[j] = walk'.route[k + 1 + 1 + j]
    <3> SUFFICES ASSUME NEW j \in 1..(Len(walk.left) - 1)
                 PROVE  Tail(walk.left)[j] = walk.route[k + 1 + 1 + j]
      BY <1>4, <2>3
    <3>1. j + 1 \in 1..Len(walk.left) /\ k + 1 + (j + 1) = k + 1 + 1 + j
      BY <1>8, <2>3
    <3> QED
      BY <2>1, <2>3, <3>1
  <2>6. p' = p
    BY <1>4 DEF p
  <2>7. AlongTo(walk.from, p, k + 1, walk.at)'
    <3>1. AlongTo(walk.from, p, k + 1, walk'.at)
      BY <1>4, <1>11
    <3>2. PICK s \in [1..(k + 1 + 1) -> Near(walk.from)] :
            s[1] = walk.from /\ s[k + 1 + 1] = walk'.at
            /\ \A j \in 1..(k + 1) : Step(s[j], s[j + 1], p[j])
      BY <3>1 DEF AlongTo
    <3>4. Near(walk.from)' = Near(walk.from)
      BY <1>1, <1>4 DEF Near
    <3>5. \A j \in 1..(k + 1) : Step(s[j], s[j + 1], p[j])'
      <4> SUFFICES ASSUME NEW j \in 1..(k + 1) PROVE Step(s[j], s[j + 1], p[j])'
        OBVIOUS
      <4>1. Step(s[j], s[j + 1], p[j])
        BY <3>2
      <4> QED
        BY <1>1, <2>6, <4>1 DEF Step, Children
    <3> QED
      BY <1>4, <3>2, <3>4, <3>5 DEF AlongTo
  <2>8. Unambiguous(p') => \A y \in Near(walk.from)' : AlongTo(walk.from, p, k + 1, y)' => y = walk'.at
    BY <1>4, <1>12, <1>13, <2>6
  <2> QED
    BY <2>4, <2>5, <2>7, <2>8 DEF Behind, p
<1>15. k + 1 \in 0..Len(p')
  BY <1>4, <1>7, <1>8 DEF p
<1>16. XNode' = XNode /\ walk'.left \in Seq(Component)
  <2>1. walk.left # <<>>
    BY <1>1 DEF Arrived
  <2> QED
    BY <1>1, <1>4, <1>5, <2>1, HeadTailProperties DEF XNode
<1> QED
  BY <1>4, <1>5, <1>14, <1>15, <1>16 DEF OnItsWay, p

(* What travelXpath has answered is true of the tree. *)
LEMMA StepAnswer ==
  ASSUME XpathInv, OnItsWay, Len(shot) <= MaxTrees, TravelFound \/ TravelLost
  PROVE  FoundIfThere'
<1> DEFINE p == Path(walk.route)
           x == walk.from
<1>1. /\ pc = "travel" /\ shot' = shot
      /\ walk = [from |-> walk.from, at |-> walk.at, route |-> walk.route, left |-> walk.left]
  BY DEF TravelFound, TravelLost, XpathInv, Walking
<1>2. /\ walk.from \in XNode /\ walk.route \in Routes /\ walk.left \in Seq(Component)
  BY <1>1 DEF OnItsWay
<1>3. PICK k \in 0..Len(p) : Behind(walk, k)
  BY <1>1 DEF OnItsWay
<1>4. Len(p) \in Nat /\ DOMAIN p = 1..Len(p) /\ k \in Nat
  BY <1>2, PathFacts, LenProperties
<1>5. /\ Arrived <=> k = Len(p)
      /\ ~Arrived => k + 1 \in 1..Len(p) /\ p[k + 1] = Head(walk.left)
  BY <1>1, <1>2, <1>3, ArrivedFacts
<1>6. ASSUME asked'.from = walk.from PROVE Near(asked.from)' = Near(x)
  BY <1>1, <1>6 DEF Near
<1>7. ASSUME TravelFound PROVE FoundIfThere'
  <2>1. asked' = walk /\ k = Len(p)
    BY <1>5, <1>7 DEF TravelFound
  <2>2. asked'.at # None
    <3>1. walk.at \in XNode /\ Len(shot) \in Nat /\ MaxTrees \in Nat
      BY <1>1, LenProperties, SceneAssumption DEF XpathInv, TypeOK
    <3>2. walk.at \in (1..MaxTrees) \X (Node \cup {Root})
      BY <3>1 DEF XNode
    <3> QED
      BY <2>1, <3>2, SceneAssumption
  <2>3. PICK s \in [1..(Len(p) + 1) -> Near(x)] :
          s[1] = x /\ s[Len(p) + 1] = walk.at /\ \A i \in 1..Len(p) : Step(s[i], s[i + 1], p[i])
    BY <1>3, <2>1 DEF Behind, AlongTo
  <2>4. asked'.from = x /\ asked'.at = walk.at /\ Path(asked.route)' = p
    BY <2>1
  <2> HIDE DEF p
  <2>5. ASSUME NEW i \in 1..Len(p) PROVE Step(s[i], s[i + 1], Path(asked.route)[i])'
    BY <1>1, <2>3, <2>4 DEF Step, Children
  <2>6. Near(asked.from)' = Near(x)
    BY <1>6, <2>4
  <2>7. Along(asked.from, Path(asked.route), asked.at)'
    BY <2>3, <2>4, <2>5, <2>6 DEF Along, Near, Step
  <2> QED
    BY <2>2, <2>7 DEF FoundIfThere
<1>8. ASSUME TravelLost PROVE FoundIfThere'
  <2>1. /\ asked' = [walk EXCEPT !.at = None] /\ ~Arrived /\ Hit = {}
    BY <1>8 DEF TravelLost
  <2>2. /\ asked'.from = walk.from /\ asked'.route = walk.route /\ asked'.at = None
        /\ Path(asked.route)' = p
    BY <1>1, <2>1
  <2>3. ASSUME Unambiguous(p), NEW n,
               Along(asked.from, Path(asked.route), <<asked.from[1], n>>)'
        PROVE  FALSE
    <3>1. Near(asked.from)' = Near(x)
      BY <1>6, <2>2
    <3>2. PICK s \in [1..(Len(Path(asked'.route)) + 1) -> Near(asked.from)'] :
            /\ s[1] = asked'.from
            /\ \A i \in 1..Len(Path(asked'.route)) : Step(s[i], s[i + 1], Path(asked.route)[i])'
      BY <2>3 DEF Along, Near, Step
    <3>3. k + 1 <= Len(p)
      BY <1>4, <1>5, <2>1
    <3>4. \A i \in 1..Len(p) : Step(s[i], s[i + 1], p[i])
      BY <1>1, <2>2, <3>2 DEF Step, Children
    <3>5. Step(walk.at, s[k + 2], p[k + 1])
      BY <1>3, <1>4, <2>2, <2>3, <3>1, <3>2, <3>3, <3>4, ComesBy
    <3>6. Hit # {}
      BY <1>5, <2>1, <3>5 DEF Step, Hit
    <3> QED
      BY <2>1, <3>6
  <2> QED
    BY <1>1, <2>2, <2>3 DEF FoundIfThere
<1> QED
  BY <1>7, <1>8

(* A new tree holds what is enabled now. *)
LEMMA FreshGrows ==
  ASSUME XpathInv, FreshCopies, Len(shot) <= MaxTrees, GenXpath, enabled' = enabled
  PROVE  FreshCopies' /\ Len(shot') <= MaxTrees
<1>1. /\ shot \in Seq(SUBSET Node) /\ Len(shot) \in Nat /\ Len(shot) < MaxTrees /\ MaxTrees \in Nat
      /\ shot' = Append(shot, Snapshot) /\ fresh' = fresh \cup {Len(shot) + 1}
      /\ fresh \subseteq 1..Len(shot)
  BY LenProperties, SceneAssumption DEF GenXpath, NewTree, XpathInv, TypeOK
<1>2. Snapshot \in SUBSET Node
  BY DEF Snapshot
<1>3. /\ Len(shot') = Len(shot) + 1 /\ shot'[Len(shot) + 1] = Snapshot
      /\ \A t \in 1..Len(shot) : shot'[t] = shot[t]
  BY <1>1, <1>2, AppendProperties
<1>4. \A n \in Snapshot : Above[n] \subseteq enabled
  BY DEF Snapshot
<1>5. ASSUME NEW t \in fresh', NEW n \in shot'[t] PROVE Above[n] \subseteq enabled'
  <2>1. CASE t \in fresh
    BY <1>1, <1>3, <1>5, <2>1 DEF FreshCopies
  <2>2. CASE t = Len(shot) + 1
    BY <1>3, <1>4, <1>5, <2>2
  <2> QED
    BY <1>1, <2>1, <2>2
<1> QED
  BY <1>1, <1>3, <1>5 DEF FreshCopies

LEMMA FoundStep == XpathInv /\ FoundInv /\ [Next]_vars => FoundInv'
<1> SUFFICES ASSUME XpathInv, FoundInv, [Next]_vars PROVE FoundInv'
  OBVIOUS
<1>a. Len(shot) <= MaxTrees /\ OnItsWay /\ FreshCopies /\ FoundIfThere
  BY DEF FoundInv
<1>b. asked' = Idle => FoundIfThere'
  BY DEF FoundIfThere
<1>c. pc' # "travel" => OnItsWay'
  BY DEF OnItsWay
<1>d. ASSUME UNCHANGED <<enabled, shot, fresh>> PROVE FreshCopies' /\ Len(shot') <= MaxTrees
  BY <1>a, <1>d DEF FreshCopies
<1>e. pc = "script" => pc # "travel"
  OBVIOUS
<1>1. CASE GameStep
  BY <1>1, <1>a, <1>b, <1>c DEF GameStep, FoundInv, FreshCopies
<1>2. CASE TickEnd
  BY <1>2, <1>b, <1>c, <1>d DEF TickEnd, FoundInv
<1>3. CASE TravelWhole
  BY <1>3, <1>a, <1>b, <1>c, FreshGrows DEF TravelWhole, GenXpath, FoundInv
<1>4. CASE SyncSend
  BY <1>4, <1>a, <1>b, <1>c, FreshGrows DEF SyncSend, GenXpath, FoundInv
<1>5. CASE TravelRoute
  <2>1. FreshCopies' /\ Len(shot') <= MaxTrees
    BY <1>5, <1>a, FreshGrows DEF TravelRoute
  <2>2. PICK route \in Routes : walk' = Start(<<NewTree, Root>>, route)
    BY <1>5 DEF TravelRoute
  <2>3. <<NewTree, Root>> \in XNode'
    BY <1>5, MoreTrees DEF TravelRoute
  <2>4. PICK x : x = <<NewTree, Root>>
    OBVIOUS
  <2>5. OnItsWay'
    BY <2>2, <2>3, <2>4, WalkBegins
  <2> QED
    BY <1>5, <1>b, <2>1, <2>5 DEF TravelRoute, FoundInv
<1>6. CASE TravelStep
  <2>1. OnItsWay'
    BY <1>6, <1>a, StepOnward
  <2> QED
    BY <1>6, <1>b, <1>d, <2>1 DEF TravelStep, FoundInv
<1>7. CASE TravelFound
  <2>1. FoundIfThere'
    BY <1>7, <1>a, StepAnswer
  <2> QED
    BY <1>7, <1>c, <1>d, <2>1 DEF TravelFound, FoundInv
<1>8. CASE TravelLost
  <2>1. FoundIfThere'
    BY <1>8, <1>a, StepAnswer
  <2> QED
    BY <1>8, <1>c, <1>d, <2>1 DEF TravelLost, FoundInv
<1>9. ASSUME NEW i \in 1..Len(handle), TravelFrom(i) PROVE FoundInv'
  <2>1. PICK route \in Routes : walk' = Start(handle[i].at, route)
    BY <1>9 DEF TravelFrom
  <2>2. PICK x : x = handle[i].at
    OBVIOUS
  <2>3. x \in XNode'
    <3>1. handle[i] \in [at : XNode, state : {"held", "loose", "gone"}]
      BY ElementOfSeq DEF XpathInv, TypeOK
    <3> QED
      BY <1>9, <2>2, <3>1 DEF TravelFrom, XNode
  <2>4. OnItsWay'
    BY <2>1, <2>2, <2>3, WalkBegins
  <2> QED
    BY <1>9, <1>b, <1>d, <2>4 DEF TravelFrom, FoundInv
<1>10. ASSUME NEW i \in 1..Len(handle), Click(i) PROVE FoundInv'
  BY <1>10, <1>a, <1>b, <1>c DEF Click, Usable, SceneChanges, FoundInv, FreshCopies
<1>11. ASSUME NEW i \in 1..Len(handle), Drop(i) PROVE FoundInv'
  BY <1>11, <1>b, <1>c, <1>d DEF Drop, FoundInv
<1>12. ASSUME NEW i \in 1..Len(handle), Collect(i) PROVE FoundInv'
  BY <1>12, <1>b, <1>c, <1>d DEF Collect, FoundInv
<1>13. CASE Act
  BY <1>13, <1>a, <1>b, <1>c DEF Act, SceneChanges, FoundInv, FreshCopies
<1>14. CASE UNCHANGED vars
  <2>1. shot' = shot /\ walk' = walk /\ asked' = asked /\ pc' = pc /\ XNode' = XNode
    BY <1>14 DEF vars, XNode
  <2>2. OnItsWay'
    <3> SUFFICES ASSUME pc = "travel"
                 PROVE  /\ walk.from \in XNode /\ walk.route \in Routes /\ walk.left \in Seq(Component)
                        /\ \E k \in 0..Len(Path(walk.route)) : Behind(walk, k)'
      BY <2>1 DEF OnItsWay
    <3>1. PICK k \in 0..Len(Path(walk.route)) : Behind(walk, k)
      BY <1>a DEF OnItsWay
    <3>2. ASSUME NEW y
          PROVE  AlongTo(walk.from, Path(walk.route), k, y)' <=> AlongTo(walk.from, Path(walk.route), k, y)
      BY <2>1 DEF AlongTo, Near, Step, Children
    <3>3. AlongTo(walk.from, Path(walk.route), k, walk.at)' <=> AlongTo(walk.from, Path(walk.route), k, walk.at)
      BY <2>1 DEF AlongTo, Near, Step, Children
    <3>4. Near(walk.from)' = Near(walk.from)
      BY <2>1 DEF Near
    <3>5. Behind(walk, k)'
      BY <2>1, <3>1, <3>2, <3>3, <3>4 DEF Behind
    <3> QED
      BY <1>a, <3>1, <3>5 DEF OnItsWay
  <2>3. FoundIfThere'
    <3>1. Along(asked.from, Path(asked.route), asked.at)' <=> Along(asked.from, Path(asked.route), asked.at)
      BY <2>1 DEF Along, Children
    <3>2. ASSUME NEW n
          PROVE  Along(asked.from, Path(asked.route), <<asked.from[1], n>>)'
                   <=> Along(asked.from, Path(asked.route), <<asked.from[1], n>>)
      BY <2>1 DEF Along, Children
    <3> QED
      BY <1>a, <2>1, <3>1, <3>2 DEF FoundIfThere
  <2> QED
    BY <1>14, <1>d, <2>2, <2>3 DEF vars, FoundInv
<1> QED
  BY <1>1, <1>2, <1>3, <1>4, <1>5, <1>6, <1>7, <1>8, <1>9, <1>10, <1>11, <1>12,
     <1>13, <1>14 DEF Next

LEMMA FoundAlways == Spec => [](XpathInv /\ FoundInv)
<1>1. Init => FoundInv
  <2> SUFFICES ASSUME Init PROVE FoundInv
    OBVIOUS
  <2>1. shot = <<>> /\ fresh = {} /\ asked = Idle /\ pc = "game" /\ Len(<<>>) = 0 /\ MaxTrees \in Nat
    BY EmptySeq, SceneAssumption DEF Init
  <2> QED
    BY <2>1 DEF FoundInv, OnItsWay, FreshCopies, FoundIfThere
<1>2. XpathInv /\ FoundInv /\ [Next]_vars => (XpathInv /\ FoundInv)'
  BY StepXpath, FoundStep
<1> QED
  BY <1>1, <1>2, InitXpath, PTL DEF Spec

(* For any scene and any route: what travelXpath answers lies at the end   *)
(* of the route, and it fails to find only what is not there or what the   *)
(* route is ambiguous about.                                               *)
THEOREM FoundIfThereAlways == Spec => []FoundIfThere
<1>1. XpathInv /\ FoundInv => FoundIfThere
  BY DEF FoundInv
<1> QED
  BY <1>1, FoundAlways, PTL

(* A node found in this tick is there and enabled, with all above it, for  *)
(* as long as the game has been told nothing.                              *)
THEOREM FreshReachableAlways == Spec => []FreshReachable
<1>1. XpathInv /\ FoundInv => FreshReachable
  BY DEF XpathInv, FoundInv, HandlesLead, CopyIn, FreshCopies, FreshReachable
<1> QED
  BY <1>1, FoundAlways, PTL
=============================================================================
