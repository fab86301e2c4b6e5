-------------------------------- MODULE Tree --------------------------------
(***************************************************************************)
(* The game keeps its maps as libstdc++'s red-black trees; spell.cpp,      *)
(* entity.cpp, resource.cpp, actor.cpp and card.cpp walk their nodes by    *)
(* offset: 0x4 the parent, 0x8 the left, 0xc the right child, 0x10 the key.*)
(*                                                                         *)
(* A tree of n nodes has the nodes 1..n, numbered in the order of their    *)
(* keys, 0 for NULL and n + 1 for the header, whose parent is the root     *)
(* and whose children are the first and the last node.  lo[x]..hi[x] are   *)
(* the nodes below x, itself included: they are not stored in the game.    *)
(***************************************************************************)
EXTENDS Naturals

Node(t) == 1..t.n
Header(t) == t.n + 1
Root(t) == t.parent[Header(t)]

(* The left child of x holds what is below x and before it. *)
LeftOk(t, x) ==
  LET y == t.left[x] IN
  IF t.lo[x] = x
    THEN y = 0
    ELSE /\ y \in t.lo[x]..(x - 1) /\ t.parent[y] = x
         /\ t.lo[y] = t.lo[x] /\ t.hi[y] = x - 1

RightOk(t, x) ==
  LET y == t.right[x] IN
  IF t.hi[x] = x
    THEN y = 0
    ELSE /\ y \in (x + 1)..t.hi[x] /\ t.parent[y] = x
         /\ t.lo[y] = x + 1 /\ t.hi[y] = t.hi[x]

ParentOk(t, x) ==
  LET p == t.parent[x] IN
  x = Root(t) \/ (p \in Node(t) /\ x \in {t.left[p], t.right[p]})

HeaderOk(t) ==
  LET h == Header(t) IN
  IF t.n = 0
    THEN t.parent[h] = 0 /\ t.left[h] = h /\ t.right[h] = h
    ELSE /\ Root(t) \in Node(t) /\ t.parent[Root(t)] = h
         /\ t.lo[Root(t)] = 1 /\ t.hi[Root(t)] = t.n
         /\ t.left[h] = 1 /\ t.right[h] = t.n

IsTree(t) ==
  /\ t.n \in Nat
  /\ t.left \in [1..(t.n + 1) -> 0..(t.n + 1)]
  /\ t.right \in [1..(t.n + 1) -> 0..(t.n + 1)]
  /\ t.parent \in [1..(t.n + 1) -> 0..(t.n + 1)]
  /\ t.lo \in [Node(t) -> Node(t)] /\ t.hi \in [Node(t) -> Node(t)]
  /\ HeaderOk(t)
  /\ \A x \in Node(t) :
       /\ t.lo[x] <= x /\ x <= t.hi[x]
       /\ LeftOk(t, x) /\ RightOk(t, x) /\ ParentOk(t, x)
=============================================================================
