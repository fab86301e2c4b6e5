---------------------------- MODULE TablesProofs -----------------------------
(***************************************************************************)
(* Proofs about the walks and searches over the game's maps and tables:    *)
(* CardWalk and PropsWalk, TreeSearch, ValueSearch, for trees of any size  *)
(* and shape, keys of any width, tables of any length.                     *)
(*                                                                         *)
(* Nodes are numbered in key order, so the successor of x is x + 1; the    *)
(* arguments use only lo and hi, what is below a node.                     *)
(***************************************************************************)
EXTENDS PropsWalk, TreeSearch, ValueSearch, SequenceTheorems, TLAPS

k == Len(visited)

(* Visiting, the node at hand is the next one; going down, it is the first *)
(* below the node at hand; climbing, all below the node at hand is done.   *)
Place ==
  /\ pc = "visit" => idt = k + 1
  /\ pc = "down" => idt \in Node(tree) /\ tree.lo[idt] = k + 1
  /\ pc = "up" =>
       \/ idt \in Node(tree) /\ tree.hi[idt] = k /\ tree.right[idt] # 0
       \/ idt = Header(tree) /\ k = tree.n /\ Root(tree) = tree.n /\ tree.n # 0

WalkInv ==
  /\ TypeOK /\ InKeyOrder /\ Place

(* A tree, with the children's place seen from the child. *)
LEMMA TreeFacts ==
  ASSUME NEW t \in TreeSet
  PROVE  /\ t.n \in Nat /\ Header(t) = t.n + 1
         /\ t.n = 0 => t.left[Header(t)] = Header(t)
         /\ t.n # 0 => /\ t.left[Header(t)] = 1 /\ t.right[Header(t)] = t.n
                       /\ Root(t) \in Node(t) /\ t.parent[Root(t)] = Header(t)
                       /\ t.hi[Root(t)] = t.n /\ t.parent[Header(t)] = Root(t)
         /\ \A x \in Node(t) :
              /\ t.lo[x] \in Node(t) /\ t.hi[x] \in Node(t)
              /\ t.lo[x] <= x /\ x <= t.hi[x]
              /\ t.left[x] = 0 => t.lo[x] = x
              /\ t.left[x] # 0 => t.left[x] \in Node(t) /\ t.lo[t.left[x]] = t.lo[x]
              /\ t.right[x] = 0 => t.hi[x] = x
              /\ t.right[x] # 0 => /\ t.right[x] \in Node(t) /\ t.right[x] > x
                                   /\ t.lo[t.right[x]] = x + 1
                                   /\ t.right[x] <= t.hi[x]
<1>1. IsTree(t)
  BY TreeAssumption
<1>2. t.n \in Nat /\ Header(t) = t.n + 1 /\ HeaderOk(t)
  BY <1>1 DEF IsTree, Header
<1>3. ASSUME NEW x \in Node(t)
      PROVE  /\ t.lo[x] \in Node(t) /\ t.hi[x] \in Node(t)
             /\ t.lo[x] <= x /\ x <= t.hi[x] /\ LeftOk(t, x) /\ RightOk(t, x)
  BY <1>1, <1>3 DEF IsTree
<1>4. ASSUME NEW x \in Node(t)
      PROVE  /\ t.left[x] = 0 => t.lo[x] = x
             /\ t.left[x] # 0 => t.left[x] \in Node(t) /\ t.lo[t.left[x]] = t.lo[x]
  BY <1>2, <1>3, <1>4 DEF LeftOk, Node
<1>5. ASSUME NEW x \in Node(t)
      PROVE  /\ t.right[x] = 0 => t.hi[x] = x
             /\ t.right[x] # 0 => /\ t.right[x] \in Node(t) /\ t.right[x] > x
                                  /\ t.lo[t.right[x]] = x + 1
                                  /\ t.right[x] <= t.hi[x]
  BY <1>2, <1>3, <1>5 DEF RightOk, Node
<1> QED
  BY <1>2, <1>3, <1>4, <1>5 DEF HeaderOk, Root

(* The parent of a node: the header, the successor of all below it, or a   *)
(* node with the same last node below it.                                  *)
LEMMA ParentFacts ==
  ASSUME NEW t \in TreeSet, NEW x \in Node(t)
  PROVE  LET p == t.parent[x] IN
         \/ x = Root(t) /\ p = Header(t)
         \/ p \in Node(t) /\ p = t.hi[x] + 1 /\ t.right[p] # x
         \/ p \in Node(t) /\ t.right[p] = x /\ t.hi[p] = t.hi[x]
<1> DEFINE p == t.parent[x]
<1>1. IsTree(t)
  BY TreeAssumption
<1>2. t.n \in Nat /\ HeaderOk(t) /\ ParentOk(t, x)
  BY <1>1 DEF IsTree
<1>3. x = Root(t) => p = Header(t)
  BY <1>2 DEF HeaderOk, Node
<1>4. CASE p \in Node(t) /\ x = t.left[p]
  <2>1. t.lo[p] \in Nat /\ t.lo[p] <= p /\ LeftOk(t, p) /\ RightOk(t, p) /\ p \in Nat /\ t.hi[p] \in Nat
    BY <1>1, <1>2, <1>4 DEF IsTree, Node
  <2>2. t.lo[p] # p /\ x < p /\ t.hi[x] = p - 1 /\ x \in Nat
    BY <1>2, <1>4, <2>1 DEF LeftOk, Node
  <2>3. t.right[p] # x
    <3>1. t.right[p] = 0 \/ t.right[p] \in (p + 1)..t.hi[p]
      BY <2>1 DEF RightOk
    <3>2. x \in Nat /\ x # 0
      BY <1>2 DEF Node
    <3> QED
      BY <2>1, <2>2, <3>1, <3>2
  <2> QED
    BY <1>4, <2>1, <2>2, <2>3
<1>5. CASE p \in Node(t) /\ x = t.right[p]
  <2>1. RightOk(t, p)
    BY <1>1, <1>5 DEF IsTree
  <2>2. t.hi[p] # p /\ t.hi[x] = t.hi[p]
    BY <1>2, <1>5, <2>1 DEF RightOk, Node
  <2> QED
    BY <1>5, <2>2
<1> QED
  BY <1>2, <1>3, <1>4, <1>5 DEF ParentOk

(* Putting the next node into the pool keeps it the sequence 1, 2, ... *)
LEMMA NextInOrder ==
  ASSUME NEW s, NEW n \in Nat, s \in Seq(1..n), s = [i \in 1..Len(s) |-> i], Len(s) + 1 <= n
  PROVE  LET q == Append(s, Len(s) + 1) IN
         q \in Seq(1..n) /\ Len(q) = Len(s) + 1 /\ q = [i \in 1..Len(q) |-> i]
<1> DEFINE q == Append(s, Len(s) + 1)
<1>1. Len(s) \in Nat /\ Len(s) + 1 \in 1..n
  OBVIOUS
<1>2. /\ q \in Seq(1..n) /\ Len(q) = Len(s) + 1
      /\ \A i \in 1..Len(s) : q[i] = s[i]
      /\ q[Len(s) + 1] = Len(s) + 1
  BY <1>1, AppendProperties
<1>3. \A i \in 1..Len(q) : q[i] = i
  BY <1>1, <1>2
<1>4. DOMAIN q = 1..Len(q) /\ q = [i \in 1..Len(q) |-> q[i]]
  BY <1>2
<1> HIDE DEF q
<1>5. q = [i \in 1..Len(q) |-> i]
  BY <1>3, <1>4
<1> QED
  BY <1>2, <1>5 DEF q

LEMMA InitWalk == Init => WalkInv
<1> SUFFICES ASSUME Init PROVE WalkInv
  OBVIOUS
<1>1. tree \in TreeSet /\ idt = tree.left[Header(tree)] /\ visited = <<>> /\ pc = "visit"
  BY DEF Init
<1>2. tree.n \in Nat /\ Header(tree) = tree.n + 1 /\ idt = 1
  BY <1>1, TreeFacts
<1>3. k = 0 /\ visited \in Seq(Node(tree)) /\ visited = [i \in 1..0 |-> i]
  BY <1>1 DEF k
<1> QED
  BY <1>1, <1>2, <1>3 DEF WalkInv, TypeOK, InKeyOrder, Place, k

(* One more card in the pool, and the walk at the node y. *)
LEMMA VisitStep ==
  ASSUME WalkInv, Visiting, visited' = Append(visited, idt), tree' = tree
  PROVE  /\ idt = k + 1 /\ idt \in Node(tree) /\ k' = k + 1 /\ k \in Nat
         /\ visited' \in Seq(Node(tree)) /\ visited' = [i \in 1..Len(visited') |-> i]
<1>1. tree.n \in Nat /\ Header(tree) = tree.n + 1
  BY TreeFacts DEF WalkInv, TypeOK
<1>2. idt = k + 1 /\ idt \in 1..Header(tree) /\ idt # Header(tree) /\ k \in Nat
  BY <1>1 DEF WalkInv, TypeOK, Place, Visiting, k
<1>3. idt \in Node(tree) /\ Len(visited) + 1 <= tree.n
  BY <1>1, <1>2 DEF Node, k
<1>4. visited \in Seq(1..tree.n) /\ visited = [i \in 1..Len(visited) |-> i]
  BY DEF WalkInv, TypeOK, InKeyOrder, Node
<1>5. visited' = Append(visited, Len(visited) + 1)
  BY <1>2 DEF k
<1> QED
  BY <1>1, <1>2, <1>3, <1>4, <1>5, NextInOrder DEF Node, k

LEMMA StepWalk == WalkInv /\ [Next]_vars => WalkInv'
<1> SUFFICES ASSUME WalkInv, [Next]_vars PROVE WalkInv'
  OBVIOUS
<1>1. /\ tree \in TreeSet /\ tree.n \in Nat /\ Header(tree) = tree.n + 1
      /\ idt \in 1..Header(tree) /\ k \in Nat
  BY TreeFacts DEF WalkInv, TypeOK, k
<1>2. CASE UNCHANGED vars
  BY <1>2 DEF vars, WalkInv, TypeOK, InKeyOrder, Place, k
<1>3. CASE VisitRight
  <2>1. /\ Visiting /\ tree.right[idt] # 0 /\ visited' = Append(visited, idt)
        /\ idt' = tree.right[idt] /\ pc' = "down" /\ tree' = tree
    BY <1>3 DEF VisitRight
  <2>2. /\ idt = k + 1 /\ idt \in Node(tree) /\ k' = k + 1
        /\ visited' \in Seq(Node(tree)) /\ visited' = [i \in 1..Len(visited') |-> i]
    BY <2>1, VisitStep
  <2>3. idt' \in Node(tree) /\ tree.lo[idt'] = k' + 1
    BY <1>1, <2>1, <2>2, TreeFacts
  <2> QED
    BY <1>1, <2>1, <2>2, <2>3 DEF WalkInv, TypeOK, InKeyOrder, Place, Node
<1>4. CASE Down
  <2>1. pc = "down" /\ tree' = tree /\ visited' = visited /\ k' = k
    BY <1>4 DEF Down, k
  <2>2. idt \in Node(tree) /\ tree.lo[idt] = k + 1
    BY <2>1 DEF WalkInv, Place
  <2>3. CASE tree.left[idt] # 0
    <3>1. idt' = tree.left[idt] /\ pc' = pc
      BY <1>4, <2>3 DEF Down
    <3>2. idt' \in Node(tree) /\ tree.lo[idt'] = k + 1
      BY <1>1, <2>2, <2>3, <3>1, TreeFacts
    <3> QED
      BY <1>1, <2>1, <3>1, <3>2 DEF WalkInv, TypeOK, InKeyOrder, Place, Node
  <2>4. CASE tree.left[idt] = 0
    <3>1. idt' = idt /\ pc' = "visit"
      BY <1>4, <2>4 DEF Down
    <3>2. idt = k + 1
      BY <1>1, <2>2, <2>4, TreeFacts
    <3> QED
      BY <1>1, <2>1, <2>2, <3>1, <3>2 DEF WalkInv, TypeOK, InKeyOrder, Place, Node
  <2> QED
    BY <2>3, <2>4
<1>5. CASE VisitUp
  <2>1. /\ Visiting /\ tree.right[idt] = 0 /\ visited' = Append(visited, idt)
        /\ idt' = tree.parent[idt] /\ tree' = tree
        /\ pc' = IF tree.right[idt'] # idt THEN "visit" ELSE "up"
    BY <1>5 DEF VisitUp
  <2>2. /\ idt = k + 1 /\ idt \in Node(tree) /\ k' = k + 1
        /\ visited' \in Seq(Node(tree)) /\ visited' = [i \in 1..Len(visited') |-> i]
    BY <2>1, VisitStep
  <2>3. tree.hi[idt] = idt /\ tree.n # 0
    BY <1>1, <2>1, <2>2, TreeFacts DEF Node
  <2>4. CASE idt = Root(tree) /\ idt' = Header(tree)
    <3>1. tree.right[Header(tree)] = tree.n /\ tree.hi[Root(tree)] = tree.n
      BY <1>1, <2>3, TreeFacts
    <3>2. idt = tree.n /\ pc' = "up"
      BY <2>1, <2>3, <2>4, <3>1
    <3> QED
      BY <1>1, <2>1, <2>2, <2>4, <3>2 DEF WalkInv, TypeOK, InKeyOrder, Place, Node, Header, Root
  <2>5. CASE idt' \in Node(tree) /\ idt' = tree.hi[idt] + 1 /\ tree.right[idt'] # idt
    <3>1. pc' = "visit" /\ idt' = k' + 1 /\ idt' # Header(tree)
      BY <1>1, <2>1, <2>2, <2>3, <2>5 DEF Node
    <3> QED
      BY <1>1, <2>1, <2>2, <2>5, <3>1 DEF WalkInv, TypeOK, InKeyOrder, Place, Node
  <2>6. CASE idt' \in Node(tree) /\ tree.right[idt'] = idt /\ tree.hi[idt'] = tree.hi[idt]
    <3>1. pc' = "up" /\ tree.hi[idt'] = k' /\ tree.right[idt'] # 0
      BY <1>1, <2>1, <2>2, <2>3, <2>6 DEF Node
    <3> QED
      BY <1>1, <2>1, <2>2, <2>6, <3>1 DEF WalkInv, TypeOK, InKeyOrder, Place, Node
  <2> QED
    BY <1>1, <2>1, <2>2, <2>4, <2>5, <2>6, ParentFacts
<1>6. CASE Up
  <2> DEFINE above == tree.parent[idt]
  <2>1. pc = "up" /\ tree' = tree /\ visited' = visited /\ k' = k
    BY <1>6 DEF Up, k
  <2>2. tree.right[above] = idt => idt' = above /\ pc' = pc
    BY <1>6 DEF Up
  <2>3. tree.right[above] # idt => /\ idt' = IF above = tree.right[idt] THEN idt ELSE above
                                   /\ pc' = "visit"
    BY <1>6 DEF Up
  <2>4. CASE idt = Header(tree) /\ k = tree.n /\ Root(tree) = tree.n /\ tree.n # 0
    <3>1. above = tree.n /\ tree.right[idt] = tree.n /\ tree.n \in Node(tree)
      BY <1>1, <2>4, TreeFacts DEF Root, Node
    <3>2. tree.right[above] # idt
      BY <1>1, <2>4, <3>1, TreeFacts DEF Node
    <3>3. idt' = idt /\ pc' = "visit"
      BY <2>3, <3>1, <3>2
    <3> QED
      BY <1>1, <2>1, <2>4, <3>3 DEF WalkInv, TypeOK, InKeyOrder, Place, k
  <2>5. CASE idt \in Node(tree) /\ tree.hi[idt] = k /\ tree.right[idt] # 0
    <3>1. /\ tree.right[idt] \in Node(tree) /\ tree.right[idt] > idt
          /\ tree.right[idt] <= k /\ tree.n # 0 /\ idt \in Nat
      BY <1>1, <2>5, TreeFacts DEF Node
    <3>2. CASE idt = Root(tree) /\ above = Header(tree)
      <4>1. tree.right[above] = tree.n /\ k = tree.n
        BY <1>1, <2>5, <3>1, <3>2, TreeFacts
      <4>2. tree.right[above] # idt /\ above # tree.right[idt]
        BY <1>1, <3>1, <3>2, <4>1 DEF Node
      <4>3. idt' = k + 1 /\ pc' = "visit" /\ idt' = Header(tree)
        BY <1>1, <2>3, <3>2, <4>1, <4>2
      <4> QED
        BY <1>1, <2>1, <4>1, <4>3 DEF WalkInv, TypeOK, InKeyOrder, Place, k
    <3>3. CASE above \in Node(tree) /\ above = tree.hi[idt] + 1 /\ tree.right[above] # idt
      <4>1. above # tree.right[idt] /\ above # Header(tree)
        BY <1>1, <2>5, <3>1, <3>3 DEF Node
      <4>2. idt' = k + 1 /\ pc' = "visit" /\ idt' \in Node(tree) /\ idt' # Header(tree)
        BY <2>3, <2>5, <3>3, <4>1
      <4> QED
        BY <1>1, <2>1, <4>2 DEF WalkInv, TypeOK, InKeyOrder, Place, Node
    <3>4. CASE above \in Node(tree) /\ tree.right[above] = idt /\ tree.hi[above] = tree.hi[idt]
      <4>1. idt' \in Node(tree) /\ pc' = "up" /\ tree.hi[idt'] = k /\ tree.right[idt'] # 0
        BY <1>1, <2>1, <2>2, <2>5, <3>4 DEF Node
      <4> QED
        BY <1>1, <2>1, <4>1 DEF WalkInv, TypeOK, InKeyOrder, Place, Node
    <3> QED
      BY <1>1, <2>5, <3>2, <3>3, <3>4, ParentFacts
  <2> QED
    BY <2>1, <2>4, <2>5 DEF WalkInv, Place
<1> QED
  BY <1>2, <1>3, <1>4, <1>5, <1>6 DEF Next

LEMMA WalkAlways == Spec => []WalkInv
BY InitWalk, StepWalk, PTL DEF Spec

(* The walk never leaves the tree and its header. *)
THEOREM TypeCorrect == Spec => []TypeOK
<1>1. WalkInv => TypeOK
  BY DEF WalkInv
<1> QED
  BY <1>1, WalkAlways, PTL

(* Every card once, in key order, whatever the tree. *)
THEOREM InKeyOrderAlways == Spec => []InKeyOrder
<1>1. WalkInv => InKeyOrder
  BY DEF WalkInv
<1> QED
  BY <1>1, WalkAlways, PTL

-----------------------------------------------------------------------------
(* PropsWalk *)

(* What the nodes put aside stand for. *)
Rest(c) == UNION {Below(tree.right[c[i]]) : i \in 1..Len(c)}

(* The nodes put aside are behind all that is below the node at hand, each *)
(* behind all that is below the one on top of it.                          *)
Behind ==
  /\ at # 0 => \A i \in 1..Len(cache) : tree.hi[at] < cache[i]
  /\ \A i, j \in 1..Len(cache) : i < j => tree.hi[cache[i]] < cache[j]

PropsTypeOK ==
  /\ tree \in TreeSet /\ at \in {0} \cup Node(tree)
  /\ cache \in Seq(Node(tree)) /\ pool \in Seq(Node(tree))

PropsInv == PropsTypeOK /\ Behind /\ EachOnce

(* What is below a node: itself, and the two sides of it. *)
LEMMA BelowFacts ==
  ASSUME tree \in TreeSet, NEW x \in Node(tree)
  PROVE  /\ Below(x) = {x} \cup Below(tree.left[x]) \cup Below(tree.right[x])
         /\ \A y \in Below(tree.left[x]) : y < x
         /\ \A y \in Below(tree.right[x]) : x < y
         /\ tree.hi[x] \in Nat /\ x <= tree.hi[x] /\ x \in Nat /\ x # 0
         /\ tree.left[x] # 0 => tree.left[x] \in Node(tree) /\ tree.hi[tree.left[x]] < x
         /\ tree.right[x] # 0 => /\ tree.right[x] \in Node(tree)
                                 /\ tree.hi[tree.right[x]] = tree.hi[x]
<1>1. IsTree(tree)
  BY TreeAssumption
<1>2. /\ tree.n \in Nat /\ x \in Nat /\ x # 0
      /\ tree.lo[x] \in Node(tree) /\ tree.hi[x] \in Node(tree)
      /\ tree.lo[x] <= x /\ x <= tree.hi[x] /\ LeftOk(tree, x) /\ RightOk(tree, x)
  BY <1>1 DEF IsTree, Node
<1>3. /\ tree.left[x] = 0 => tree.lo[x] = x
      /\ tree.left[x] # 0 => /\ tree.left[x] \in Node(tree)
                             /\ tree.lo[tree.left[x]] = tree.lo[x]
                             /\ tree.hi[tree.left[x]] = x - 1
  BY <1>2 DEF LeftOk, Node
<1>4. /\ tree.right[x] = 0 => tree.hi[x] = x
      /\ tree.right[x] # 0 => /\ tree.right[x] \in Node(tree)
                              /\ tree.lo[tree.right[x]] = x + 1
                              /\ tree.hi[tree.right[x]] = tree.hi[x]
  BY <1>2 DEF RightOk, Node
<1>5. Below(x) = tree.lo[x]..tree.hi[x]
  BY <1>2 DEF Below
<1>6. Below(tree.left[x]) = tree.lo[x]..(x - 1)
  BY <1>2, <1>3 DEF Below, Node
<1>7. Below(tree.right[x]) = (x + 1)..tree.hi[x]
  BY <1>2, <1>4 DEF Below, Node
<1> QED
  BY <1>2, <1>3, <1>4, <1>5, <1>6, <1>7 DEF Node

LEMMA RestCons ==
  ASSUME NEW S, NEW x \in S, NEW c \in Seq(S)
  PROVE  Rest(<<x>> \o c) = Below(tree.right[x]) \cup Rest(c)
<1> DEFINE d == <<x>> \o c
<1>1. /\ Len(d) = Len(c) + 1 /\ Len(c) \in Nat /\ d[1] = x
      /\ \A i \in 1..Len(c) : d[i + 1] = c[i]
  OBVIOUS
<1> HIDE DEF d
<1>2. ASSUME NEW y \in Rest(d) PROVE y \in Below(tree.right[x]) \cup Rest(c)
  <2>1. PICK i \in 1..Len(d) : y \in Below(tree.right[d[i]])
    BY <1>2 DEF Rest
  <2>2. CASE i = 1
    BY <1>1, <2>1, <2>2
  <2>3. CASE i # 1
    <3>1. i - 1 \in 1..Len(c) /\ d[i] = c[i - 1]
      <4>1. i - 1 \in 1..Len(c)
        BY <1>1, <2>3
      <4>2. d[(i - 1) + 1] = c[i - 1] /\ (i - 1) + 1 = i
        BY <1>1, <4>1
      <4> QED
        BY <4>1, <4>2
    <3> QED
      BY <2>1, <3>1 DEF Rest
  <2> QED
    BY <2>2, <2>3
<1>3. ASSUME NEW y \in Below(tree.right[x]) PROVE y \in Rest(d)
  <2>1. 1 \in 1..Len(d)
    BY <1>1
  <2> QED
    BY <1>1, <1>3, <2>1 DEF Rest
<1>4. ASSUME NEW y \in Rest(c) PROVE y \in Rest(d)
  <2>1. PICK i \in 1..Len(c) : y \in Below(tree.right[c[i]])
    BY <1>4 DEF Rest
  <2>2. i + 1 \in 1..Len(d) /\ d[i + 1] = c[i]
    BY <1>1
  <2> QED
    BY <2>1, <2>2 DEF Rest
<1>5. Rest(d) = Below(tree.right[x]) \cup Rest(c)
  BY <1>2, <1>3, <1>4
<1> QED
  BY <1>5 DEF d

LEMMA PropsStart == PropsInit => PropsInv
<1> SUFFICES ASSUME PropsInit PROVE PropsInv
  OBVIOUS
<1>1. tree \in TreeSet /\ at = Root(tree) /\ cache = <<>> /\ pool = <<>>
  BY DEF PropsInit
<1>2. IsTree(tree)
  BY <1>1, TreeAssumption
<1>3. /\ tree.n \in Nat
      /\ tree.n = 0 => at = 0
      /\ tree.n # 0 => at \in Node(tree) /\ tree.lo[at] = 1 /\ tree.hi[at] = tree.n
  BY <1>1, <1>2 DEF IsTree, HeaderOk, Root
<1>4. Below(at) = Node(tree)
  BY <1>3 DEF Below, Node
<1>5. Walked = {} /\ ToCome = Below(at)
  BY <1>1 DEF Walked, ToCome
<1>6. EachOnce
  BY <1>1, <1>4, <1>5 DEF EachOnce
<1>7. PropsTypeOK
  BY <1>1, <1>3 DEF PropsTypeOK
<1>8. Behind
  BY <1>1 DEF Behind
<1> QED
  BY <1>6, <1>7, <1>8 DEF PropsInv

LEMMA VisitKeeps == PropsInv /\ Visit => PropsInv'
<1> SUFFICES ASSUME PropsInv, Visit PROVE PropsInv'
  OBVIOUS
<1>1. /\ at # 0 /\ pool' = Append(pool, at) /\ cache' = <<at>> \o cache
      /\ at' = tree.left[at] /\ tree' = tree
  BY DEF Visit
<1>2. /\ tree \in TreeSet /\ at \in Node(tree) /\ Node(tree) \subseteq Nat
      /\ cache \in Seq(Node(tree)) /\ pool \in Seq(Node(tree))
  BY <1>1 DEF PropsInv, PropsTypeOK, Node
<1>3. /\ Len(cache) \in Nat /\ Len(cache') = Len(cache) + 1 /\ cache'[1] = at
      /\ cache' \in Seq(Node(tree))
      /\ \A i \in 1..Len(cache) : cache'[i + 1] = cache[i]
      /\ \A i \in 2..Len(cache') : i - 1 \in 1..Len(cache) /\ cache'[i] = cache[i - 1]
  BY <1>1, <1>2
<1>4. /\ Len(pool) \in Nat /\ Len(pool') = Len(pool) + 1 /\ pool'[Len(pool) + 1] = at
      /\ pool' \in Seq(Node(tree))
      /\ \A i \in 1..Len(pool) : pool'[i] = pool[i]
  BY <1>1, <1>2, AppendProperties
<1>5. /\ Below(at) = {at} \cup Below(tree.left[at]) \cup Below(tree.right[at])
      /\ \A y \in Below(tree.left[at]) : y < at
      /\ \A y \in Below(tree.right[at]) : at < y
      /\ tree.hi[at] \in Nat /\ at <= tree.hi[at] /\ at \in Nat
      /\ tree.left[at] # 0 => tree.left[at] \in Node(tree) /\ tree.hi[tree.left[at]] < at
  BY <1>2, BelowFacts
<1>6. PropsTypeOK'
  BY <1>1, <1>2, <1>3, <1>4, <1>5 DEF PropsTypeOK
<1>7. \A i \in 1..Len(cache) : tree.hi[at] < cache[i]
  BY <1>1 DEF PropsInv, Behind
<1>8. Behind'
  <2>1. ASSUME at' # 0, NEW i \in 1..Len(cache') PROVE tree.hi[at'] < cache'[i]
    <3>1. at' \in Node(tree) /\ tree.hi[at'] < at /\ tree.hi[at'] \in Nat
      BY <1>1, <1>2, <1>5, <2>1, BelowFacts
    <3>2. CASE i = 1
      BY <1>3, <3>1, <3>2
    <3>3. CASE i # 1
      <4>1. i - 1 \in 1..Len(cache) /\ cache'[i] = cache[i - 1]
        BY <1>3, <3>3
      <4>2. cache[i - 1] \in Nat /\ tree.hi[at] < cache[i - 1]
        BY <1>2, <1>7, <4>1, ElementOfSeq
      <4> QED
        BY <1>5, <3>1, <4>1, <4>2
    <3> QED
      BY <3>2, <3>3
  <2>2. ASSUME NEW i \in 1..Len(cache'), NEW j \in 1..Len(cache'), i < j
        PROVE  tree.hi[cache'[i]] < cache'[j]
    <3>1. j - 1 \in 1..Len(cache) /\ cache'[j] = cache[j - 1]
      BY <1>3, <2>2
    <3>2. CASE i = 1
      BY <1>3, <1>7, <3>1, <3>2
    <3>3. CASE i # 1
      <4>1. i - 1 \in 1..Len(cache) /\ cache'[i] = cache[i - 1] /\ i - 1 < j - 1
        BY <1>3, <2>2, <3>3
      <4> QED
        BY <3>1, <4>1 DEF PropsInv, Behind
    <3> QED
      BY <3>2, <3>3
  <2> QED
    BY <1>1, <2>1, <2>2 DEF Behind
<1>9. EachOnce'
  <2>1. Walked' = Walked \cup {at}
    <3>1. ASSUME NEW y \in Walked' PROVE y \in Walked \cup {at}
      <4>1. PICK i \in 1..Len(pool') : y = pool'[i]
        BY <3>1 DEF Walked
      <4> QED
        BY <1>4, <4>1 DEF Walked
    <3>2. ASSUME NEW y \in Walked PROVE y \in Walked'
      <4>1. PICK i \in 1..Len(pool) : y = pool[i]
        BY <3>2 DEF Walked
      <4>2. i \in 1..Len(pool') /\ y = pool'[i]
        BY <1>4, <4>1
      <4> QED
        BY <4>2 DEF Walked
    <3>3. at \in Walked'
      BY <1>4 DEF Walked
    <3> QED
      BY <3>1, <3>2, <3>3
  <2>2. ToCome = Below(at) \cup Rest(cache)
    BY DEF ToCome, Rest
  <2>3. ToCome' = Below(at') \cup Rest(cache')
    BY <1>1 DEF ToCome, Rest, Below
  <2>4. Rest(cache') = Below(tree.right[at]) \cup Rest(cache)
    BY <1>1, <1>2, RestCons
  <2>5. at \notin Rest(cache)
    <3>1. SUFFICES ASSUME NEW i \in 1..Len(cache), at \in Below(tree.right[cache[i]])
                   PROVE  FALSE
      BY DEF Rest
    <3>2. cache[i] \in Node(tree) /\ cache[i] \in Nat
      BY <1>2, ElementOfSeq
    <3>3. cache[i] < at
      BY <1>2, <3>1, <3>2, BelowFacts
    <3> QED
      BY <1>5, <1>7, <3>2, <3>3
  <2>6. at \notin ToCome' /\ ToCome = {at} \cup ToCome'
    <3>1. at \notin Below(tree.left[at]) /\ at \notin Below(tree.right[at])
      BY <1>5
    <3>2. ToCome' = Below(tree.left[at]) \cup Below(tree.right[at]) \cup Rest(cache)
      BY <1>1, <2>3, <2>4
    <3>3. ToCome = {at} \cup Below(tree.left[at]) \cup Below(tree.right[at]) \cup Rest(cache)
      BY <1>5, <2>2
    <3> QED
      BY <2>5, <3>1, <3>2, <3>3, Zenon
  <2>7. /\ Walked \cup ToCome = Node(tree) /\ Walked \cap ToCome = {}
        /\ \A i, j \in 1..Len(pool) : pool[i] = pool[j] => i = j
    BY DEF PropsInv, EachOnce
  <2>8. Walked' \cup ToCome' = Node(tree)' /\ Walked' \cap ToCome' = {}
    BY <1>1, <2>1, <2>6, <2>7
  <2>9. \A i \in 1..Len(pool) : pool[i] # at
    BY <2>6, <2>7 DEF Walked
  <2>10. ASSUME NEW i \in 1..Len(pool'), NEW j \in 1..Len(pool'), pool'[i] = pool'[j]
         PROVE  i = j
    BY <1>4, <2>7, <2>9, <2>10
  <2> QED
    BY <2>8, <2>10 DEF EachOnce
<1> QED
  BY <1>6, <1>8, <1>9 DEF PropsInv

LEMMA PopKeeps == PropsInv /\ Pop => PropsInv'
<1> SUFFICES ASSUME PropsInv, Pop PROVE PropsInv'
  OBVIOUS
<1>1. /\ at = 0 /\ cache # <<>> /\ at' = tree.right[Head(cache)] /\ cache' = Tail(cache)
      /\ tree' = tree /\ pool' = pool
  BY DEF Pop
<1>2. /\ tree \in TreeSet /\ Node(tree) \subseteq Nat
      /\ cache \in Seq(Node(tree)) /\ pool \in Seq(Node(tree))
  BY DEF PropsInv, PropsTypeOK, Node
<1>3. /\ Head(cache) \in Node(tree) /\ Head(cache) = cache[1]
      /\ cache' \in Seq(Node(tree)) /\ Len(cache') = Len(cache) - 1 /\ Len(cache) \in Nat
      /\ Len(cache) # 0 /\ \A i \in 1..Len(cache') : cache'[i] = cache[i + 1]
      /\ cache = <<Head(cache)>> \o cache'
  BY <1>1, <1>2, HeadTailProperties
<1>4. /\ at' # 0 => /\ at' \in Node(tree)
                     /\ tree.hi[at'] = tree.hi[cache[1]]
  BY <1>1, <1>2, <1>3, BelowFacts
<1>5. PropsTypeOK'
  BY <1>1, <1>2, <1>3, <1>4 DEF PropsTypeOK
<1>6. Behind'
  <2>1. ASSUME NEW i \in 1..Len(cache')
        PROVE  i + 1 \in 1..Len(cache) /\ 1 \in 1..Len(cache) /\ cache'[i] = cache[i + 1]
    BY <1>3
  <2>2. \A i, j \in 1..Len(cache) : i < j => tree.hi[cache[i]] < cache[j]
    BY DEF PropsInv, Behind
  <2>3. ASSUME NEW i \in 1..Len(cache') PROVE tree.hi[cache[1]] < cache'[i]
    <3>1. 1 < i + 1
      OBVIOUS
    <3> QED
      BY <2>1, <2>2, <3>1
  <2>4. ASSUME NEW i \in 1..Len(cache'), NEW j \in 1..Len(cache'), i < j
        PROVE  tree.hi[cache'[i]] < cache'[j]
    <3>1. i + 1 < j + 1
      BY <2>4
    <3> QED
      BY <2>1, <2>2, <3>1
  <2> QED
    BY <1>1, <1>4, <2>3, <2>4 DEF Behind
<1>7. ToCome' = ToCome
  <2>1. ToCome = Rest(cache)
    BY <1>1 DEF ToCome, Rest, Below
  <2>2. ToCome' = Below(at') \cup Rest(cache')
    BY <1>1 DEF ToCome, Rest, Below
  <2>3. Rest(cache) = Below(tree.right[Head(cache)]) \cup Rest(cache')
    <3> DEFINE x == Head(cache)
               c == cache'
               S == Node(tree)
    <3>1. x \in S /\ c \in Seq(S) /\ cache = <<x>> \o c
      BY <1>3
    <3> HIDE DEF x, c, S
    <3>2. Rest(<<x>> \o c) = Below(tree.right[x]) \cup Rest(c)
      BY <3>1, RestCons
    <3>3. Rest(cache) = Below(tree.right[x]) \cup Rest(c)
      BY <3>1, <3>2
    <3> QED
      BY <3>3 DEF x, c
  <2> QED
    BY <1>1, <2>1, <2>2, <2>3
<1>8. EachOnce'
  BY <1>1, <1>7 DEF PropsInv, EachOnce, Walked
<1> QED
  BY <1>5, <1>6, <1>8 DEF PropsInv

(* Whatever the tree's shape, an entry of a map that has not been added is *)
(* still below the node at hand or behind one put aside: none twice.       *)
THEOREM EachOnceAlways == PropsSpec => []EachOnce
<1>1. PropsInv /\ UNCHANGED propsVars => PropsInv'
  <2> SUFFICES ASSUME PropsInv, UNCHANGED propsVars PROVE PropsInv'
    OBVIOUS
  <2>1. tree' = tree /\ at' = at /\ cache' = cache /\ pool' = pool
    BY DEF propsVars
  <2>2. PropsTypeOK' /\ Behind'
    BY <2>1 DEF PropsInv, PropsTypeOK, Behind
  <2>3. Walked' = Walked /\ ToCome' = ToCome
    BY <2>1 DEF Walked, ToCome, Below
  <2>4. EachOnce'
    BY <2>1, <2>3 DEF PropsInv, EachOnce
  <2> QED
    BY <2>2, <2>4 DEF PropsInv
<1>2. PropsInv /\ [PropsNext]_propsVars => PropsInv'
  BY <1>1, VisitKeeps, PopKeeps DEF PropsNext
<1>3. PropsInv => EachOnce
  BY DEF PropsInv
<1> QED
  BY <1>2, <1>3, PropsStart, PTL DEF PropsSpec

(* The two walks side by side, as they are checked, are each of them.      *)
LEMMA SideBySide == BothSpec => Spec /\ PropsSpec
<1>1. BothInit => Init /\ PropsInit
  BY DEF BothInit
<1>2. [BothNext]_<<vars, propsVars>> => [Next]_vars /\ [PropsNext]_propsVars
  BY DEF BothNext
<1> QED
  BY <1>1, <1>2, PTL DEF BothSpec, Spec, PropsSpec

-----------------------------------------------------------------------------

(* Where the orders agree, a node with the key searched for is below the   *)
(* node at hand.                                                           *)
OnPath ==
  /\ target # 0 => map.key[target] = ident
  /\ OneOrder => \A x \in Node(map.tree) : map.key[x] = ident =>
       IF spc = "done" THEN target = x
       ELSE here # 0 /\ map.tree.lo[here] <= x /\ x <= map.tree.hi[here]

SearchInv == SearchTypeOK /\ OnPath

(* What is below a node, and below its children. *)
LEMMA ChildFacts ==
  ASSUME NEW t, IsTree(t)
  PROVE  /\ t.n \in Nat
         /\ Root(t) \in Node(t) \cup {0}
         /\ t.n # 0 => Root(t) \in Node(t) /\ t.lo[Root(t)] = 1 /\ t.hi[Root(t)] = t.n
         /\ t.n = 0 => Root(t) = 0
         /\ \A x \in Node(t) :
              /\ t.lo[x] \in Node(t) /\ t.hi[x] \in Node(t)
              /\ t.left[x] \in Node(t) \cup {0} /\ t.right[x] \in Node(t) \cup {0}
              /\ t.left[x] = 0 => t.lo[x] = x
              /\ t.left[x] # 0 => t.lo[t.left[x]] = t.lo[x] /\ t.hi[t.left[x]] = x - 1
              /\ t.right[x] = 0 => t.hi[x] = x
              /\ t.right[x] # 0 => t.lo[t.right[x]] = x + 1 /\ t.hi[t.right[x]] = t.hi[x]
<1>1. t.n \in Nat /\ HeaderOk(t)
  BY DEF IsTree
<1>2. ASSUME NEW x \in Node(t)
      PROVE  /\ t.lo[x] \in Node(t) /\ t.hi[x] \in Node(t)
             /\ t.lo[x] <= x /\ x <= t.hi[x] /\ LeftOk(t, x) /\ RightOk(t, x)
  BY <1>2 DEF IsTree
<1>3. ASSUME NEW x \in Node(t)
      PROVE  /\ t.left[x] \in Node(t) \cup {0}
             /\ t.left[x] = 0 => t.lo[x] = x
             /\ t.left[x] # 0 => t.lo[t.left[x]] = t.lo[x] /\ t.hi[t.left[x]] = x - 1
  BY <1>1, <1>2, <1>3 DEF LeftOk, Node
<1>4. ASSUME NEW x \in Node(t)
      PROVE  /\ t.right[x] \in Node(t) \cup {0}
             /\ t.right[x] = 0 => t.hi[x] = x
             /\ t.right[x] # 0 => t.lo[t.right[x]] = x + 1 /\ t.hi[t.right[x]] = t.hi[x]
  BY <1>1, <1>2, <1>4 DEF RightOk, Node
<1>5. /\ Root(t) \in Node(t) \cup {0}
      /\ t.n # 0 => Root(t) \in Node(t) /\ t.lo[Root(t)] = 1 /\ t.hi[Root(t)] = t.n
      /\ t.n = 0 => Root(t) = 0
  BY <1>1 DEF HeaderOk, Root
<1> QED
  BY <1>1, <1>2, <1>3, <1>4, <1>5

(* Where the orders agree, the comparison leads towards the key. *)
LEMMA Leads ==
  ASSUME IsMap(map), OneOrder, Size \in Nat, ident \in Bits,
         NEW x \in Node(map.tree), NEW y \in Node(map.tree), map.key[x] = ident, x # y
  PROVE  Signed(ident) > Signed(map.key[y]) <=> x > y
<1>1. x \in Nat /\ y \in Nat /\ map.key[x] \in Bits /\ map.key[y] \in Bits
  BY DEF IsMap, IsTree, Node
<1>2. CASE map.signed
  <2>1. x < y => Signed(map.key[x]) < Signed(map.key[y])
    BY <1>2 DEF IsMap
  <2>2. y < x => Signed(map.key[y]) < Signed(map.key[x])
    BY <1>2 DEF IsMap
  <2>3. Signed(map.key[x]) \in Int /\ Signed(map.key[y]) \in Int
    BY <1>1 DEF Signed, Bits
  <2> QED
    BY <1>1, <2>1, <2>2, <2>3
<1>3. CASE ~map.signed
  <2>1. (x < y => map.key[x] < map.key[y]) /\ (y < x => map.key[y] < map.key[x])
    BY <1>3 DEF IsMap
  <2>2. 2 * map.key[y] >= Size <=> 2 * ident >= Size
    BY <1>3 DEF OneOrder
  <2> QED
    BY <1>1, <2>1, <2>2 DEF Signed, Bits
<1> QED
  BY <1>2, <1>3

(* No two nodes have one key. *)
LEMMA KeysDiffer ==
  ASSUME IsMap(map), Size \in Nat, NEW x \in Node(map.tree), NEW y \in Node(map.tree),
         map.key[x] = map.key[y]
  PROVE  x = y
<1>1. x \in Nat /\ y \in Nat /\ map.key[x] \in Bits /\ map.key[y] \in Bits
  BY DEF IsMap, IsTree, Node
<1>2. x < y => FALSE
  BY <1>1 DEF IsMap, Signed, Bits
<1>3. y < x => FALSE
  BY <1>1 DEF IsMap, Signed, Bits
<1> QED
  BY <1>1, <1>2, <1>3

LEMMA SearchStart == SearchInit => SearchInv
<1> SUFFICES ASSUME SearchInit PROVE SearchInv
  OBVIOUS
<1>1. /\ IsMap(map) /\ ident \in Bits /\ here = Root(map.tree) /\ target = 0 /\ spc = "search"
  BY MapAssumption DEF SearchInit
<1>2. IsTree(map.tree)
  BY <1>1 DEF IsMap
<1>3. here \in Node(map.tree) \cup {0}
  BY <1>1, <1>2, ChildFacts
<1>4. ASSUME NEW x \in Node(map.tree)
      PROVE  here # 0 /\ map.tree.lo[here] <= x /\ x <= map.tree.hi[here]
  <2>1. map.tree.n \in Nat /\ x \in 1..map.tree.n
    BY <1>2, <1>4 DEF IsTree, Node
  <2>2. here \in Node(map.tree) /\ map.tree.lo[here] = 1 /\ map.tree.hi[here] = map.tree.n
    BY <1>1, <1>2, <2>1, ChildFacts
  <2> QED
    BY <2>1, <2>2 DEF Node
<1> QED
  BY <1>1, <1>3, <1>4 DEF SearchInv, SearchTypeOK, OnPath

LEMMA SearchStep == SearchInv /\ [SearchNext]_searchVars => SearchInv'
<1> SUFFICES ASSUME SearchInv, [SearchNext]_searchVars PROVE SearchInv'
  OBVIOUS
<1> USE MapAssumption
<1>1. IsMap(map) /\ IsTree(map.tree) /\ ident \in Bits /\ SearchTypeOK
  BY DEF SearchInv, SearchTypeOK, IsMap
<1>2. CASE UNCHANGED searchVars
  BY <1>2 DEF searchVars, SearchInv, SearchTypeOK, OnPath, OneOrder
<1>3. CASE Match
  <2>1. /\ spc = "search" /\ here # 0 /\ map.key[here] = ident /\ target' = here /\ spc' = "done"
        /\ map' = map /\ ident' = ident /\ here' = here
    BY <1>3 DEF Match, Searching
  <2>2. here \in Node(map.tree)
    BY <1>1, <2>1 DEF SearchTypeOK
  <2>3. \A x \in Node(map.tree) : map.key[x] = ident => here = x
    BY <1>1, <2>1, <2>2, KeysDiffer
  <2>4. SearchTypeOK'
    BY <1>1, <2>1, <2>2 DEF SearchTypeOK
  <2>5. OnPath'
    BY <2>1, <2>3 DEF OnPath
  <2> QED
    BY <2>4, <2>5 DEF SearchInv
<1>4. CASE Descend
  <2>1. /\ spc = "search" /\ here # 0 /\ map.key[here] # ident
        /\ here' = IF Signed(ident) > Signed(map.key[here])
                    THEN map.tree.right[here] ELSE map.tree.left[here]
        /\ map' = map /\ ident' = ident /\ target' = target /\ spc' = "search"
    BY <1>4 DEF Descend, Searching
  <2>2. here \in Node(map.tree)
    BY <1>1, <2>1 DEF SearchTypeOK
  <2>3. here' \in Node(map.tree) \cup {0}
    BY <1>1, <2>1, <2>2, ChildFacts
  <2>4. SearchTypeOK'
    BY <1>1, <2>1, <2>3 DEF SearchTypeOK
  <2>5. ASSUME OneOrder, NEW x \in Node(map.tree), map.key[x] = ident
        PROVE  here' # 0 /\ map.tree.lo[here'] <= x /\ x <= map.tree.hi[here']
    <3>1. map.tree.lo[here] <= x /\ x <= map.tree.hi[here] /\ x # here /\ x \in Nat /\ here \in Nat
      BY <1>1, <2>1, <2>2, <2>5 DEF SearchInv, OnPath, Node, IsTree
    <3>2. Signed(ident) > Signed(map.key[here]) <=> x > here
      BY <1>1, <2>2, <2>5, <3>1, Leads
    <3>3. map.tree.lo[here] \in Nat /\ map.tree.hi[here] \in Nat
      BY <1>1, <2>2, ChildFacts DEF Node
    <3>4. CASE x > here
      <4>1. here' = map.tree.right[here]
        BY <2>1, <3>2, <3>4
      <4>2. map.tree.right[here] # 0
        BY <1>1, <2>2, <3>1, <3>3, <3>4, ChildFacts
      <4> QED
        BY <1>1, <2>2, <3>1, <3>3, <3>4, <4>1, <4>2, ChildFacts
    <3>5. CASE x < here
      <4>1. here' = map.tree.left[here]
        BY <2>1, <3>1, <3>2, <3>5
      <4>2. map.tree.left[here] # 0
        BY <1>1, <2>2, <3>1, <3>3, <3>5, ChildFacts
      <4> QED
        BY <1>1, <2>2, <3>1, <3>3, <3>5, <4>1, <4>2, ChildFacts
    <3> QED
      BY <3>1, <3>4, <3>5
  <2>6. OnPath'
    <3>1. OneOrder' = OneOrder
      BY <2>1 DEF OneOrder
    <3> QED
      BY <2>1, <2>5, <3>1 DEF SearchInv, OnPath
  <2> QED
    BY <2>4, <2>6 DEF SearchInv
<1>5. CASE Missing
  BY <1>1, <1>5 DEF Missing, SearchInv, SearchTypeOK, OnPath, OneOrder
<1> QED
  BY <1>2, <1>3, <1>4, <1>5 DEF SearchNext

LEMMA SearchAlways == SearchSpec => []SearchInv
BY SearchStart, SearchStep, PTL DEF SearchSpec

(* The search never leaves the tree. *)
THEOREM SearchTypeCorrect == SearchSpec => []SearchTypeOK
<1>1. SearchInv => SearchTypeOK
  BY DEF SearchInv
<1> QED
  BY <1>1, SearchAlways, PTL

(* What is there is found, whatever the tree, as long as the orders agree. *)
THEOREM FindsIfThereAlways == SearchSpec => []FindsIfThere
<1>1. SearchInv => FindsIfThere
  BY DEF SearchInv, OnPath, FindsIfThere
<1> QED
  BY <1>1, SearchAlways, PTL

-----------------------------------------------------------------------------

(* The loop invariant: a key that is in the table is between the bounds,   *)
(* and the upper bound, once it has moved, is not the key's position.      *)
Bounds ==
  vpc = "loop" =>
    /\ loaded /\ found = -1
    /\ \A m \in 0..(Count - 1) : At(m) = key => l <= m /\ m <= r
    /\ r = Count - 1 \/ At(r) # key

ValueInv ==
  /\ ValueTypeOK /\ Bounds /\ FindsAllButLast
  /\ vpc = "entry" => found = -1

(* What the assumption says of the table at hand. *)
LEMMA Sorted ==
  ASSUME table \in Tables
  PROVE  /\ Count \in Nat
         /\ \A m \in 0..(Count - 1) : At(m) \in Int
         /\ \A m, n \in 0..(Count - 1) : m < n => At(m) < At(n)
<1>1. table \in Seq(Int) /\ \A i, j \in 1..Len(table) : i < j => table[i] < table[j]
  BY TableAssumption
<1>2. Len(table) \in Nat /\ \A i \in 1..Len(table) : table[i] \in Int
  BY <1>1
<1>3. \A m \in 0..(Count - 1) : m + 1 \in 1..Len(table)
  BY <1>2 DEF Count
<1> QED
  BY <1>1, <1>2, <1>3 DEF Count, At

LEMMA MiddleBetween ==
  ASSUME l \in Nat, r \in Int, l < r
  PROVE  Middle \in Nat /\ l <= Middle /\ Middle < r
BY DEF Middle

LEMMA ValueStart == ValueInit => ValueInv
BY Sorted, TableAssumption DEF ValueInit, ValueInv, ValueTypeOK, Bounds, FindsAllButLast

LEMMA ValueStep == ValueInv /\ [ValueNext]_valueVars => ValueInv'
<1> SUFFICES ASSUME ValueInv, [ValueNext]_valueVars PROVE ValueInv'
  OBVIOUS
<1> USE DEF ValueInv, ValueTypeOK
<1>1. /\ Count \in Nat
      /\ \A m \in 0..(Count - 1) : At(m) \in Int
      /\ \A m, n \in 0..(Count - 1) : m < n => At(m) < At(n)
  BY Sorted
<1>2. key \in Int
  BY TableAssumption
<1>3. CASE UNCHANGED valueVars
  BY <1>3 DEF valueVars, Bounds, FindsAllButLast, Count, At
<1>4. CASE EnterNull
  <2>1. UNCHANGED <<table, loaded, key, l, r, found>> /\ vpc = "entry" /\ vpc' = "done" /\ ~loaded
    BY <1>4 DEF EnterNull
  <2> QED
    BY <2>1 DEF Bounds, FindsAllButLast, Count, At
<1>5. CASE Enter
  <2>1. /\ UNCHANGED <<table, loaded, key, found>>
        /\ vpc = "entry" /\ vpc' = "loop" /\ loaded /\ l' = 0 /\ r' = Count - 1
    BY <1>5 DEF Enter
  <2> QED
    BY <1>1, <2>1 DEF Bounds, FindsAllButLast, Count, At
<1>6. CASE Hit
  <2>1. /\ UNCHANGED <<table, loaded, key, l, r>> /\ vpc = "loop" /\ vpc' = "done"
        /\ l < r /\ At(Middle) = key /\ found' = Middle
    BY <1>6 DEF Hit
  <2>2. Middle \in 0..(Count - 2)
    BY <1>1, <2>1, MiddleBetween
  <2> QED
    BY <1>1, <2>1, <2>2 DEF Bounds, FindsAllButLast, Count, At
<1>7. CASE Right
  <2>1. /\ UNCHANGED <<table, loaded, key, r, found, vpc>> /\ vpc = "loop"
        /\ l < r /\ At(Middle) < key /\ l' = Middle + 1
    BY <1>7 DEF Right
  <2>2. Middle \in Nat /\ Middle < r /\ Middle \in 0..(Count - 1)
    BY <1>1, <2>1, MiddleBetween
  <2>3. ASSUME NEW m \in 0..(Count - 1), At(m) = key PROVE l' <= m
    BY <1>1, <1>2, <2>1, <2>2, <2>3
  <2> QED
    BY <1>1, <2>1, <2>2, <2>3 DEF Bounds, FindsAllButLast, Count, At
<1>8. CASE Left
  <2>1. /\ UNCHANGED <<table, loaded, key, l, found, vpc>> /\ vpc = "loop"
        /\ l < r /\ At(Middle) > key /\ r' = Middle
    BY <1>8 DEF Left
  <2>2. Middle \in Nat /\ l <= Middle /\ Middle < r /\ Middle \in 0..(Count - 1)
    BY <1>1, <2>1, MiddleBetween
  <2>3. ASSUME NEW m \in 0..(Count - 1), At(m) = key PROVE m <= r'
    BY <1>1, <1>2, <2>1, <2>2, <2>3
  <2>4. At(Middle) # key
    BY <1>1, <1>2, <2>1, <2>2
  <2> QED
    BY <1>1, <2>1, <2>2, <2>3, <2>4 DEF Bounds, FindsAllButLast, Count, At
<1>9. CASE Miss
  <2>1. UNCHANGED <<table, loaded, key, l, r, found>> /\ vpc = "loop" /\ vpc' = "done" /\ l >= r
    BY <1>9 DEF Miss
  <2>2. ASSUME NEW m \in 0..(Count - 2), At(m) = key PROVE FALSE
    <3>1. l <= m /\ m <= r
      BY <1>1, <2>1, <2>2 DEF Bounds
    <3>2. m = r
      BY <1>1, <2>1, <3>1
    <3> QED
      BY <1>1, <2>1, <2>2, <3>2 DEF Bounds
  <2> QED
    BY <1>1, <2>1, <2>2 DEF Bounds, FindsAllButLast, Count, At
<1> QED
  BY <1>3, <1>4, <1>5, <1>6, <1>7, <1>8, <1>9 DEF ValueNext

LEMMA ValueAlways == ValueSpec => []ValueInv
BY ValueStart, ValueStep, PTL DEF ValueSpec

(* No position outside the table is read. *)
THEOREM ValueTypeCorrect == ValueSpec => []ValueTypeOK
<1>1. ValueInv => ValueTypeOK
  BY DEF ValueInv
<1> QED
  BY <1>1, ValueAlways, PTL

(* The search finds every key but the one in the last record. *)
THEOREM FindsAllButLastAlways == ValueSpec => []FindsAllButLast
<1>1. ValueInv => FindsAllButLast
  BY DEF ValueInv
<1> QED
  BY <1>1, ValueAlways, PTL
=============================================================================
