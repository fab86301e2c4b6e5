----------------------------- MODULE PropsWalk ------------------------------
(***************************************************************************)
(* Actor::props and Actor::stats (actor.cpp): every entry of one of the    *)
(* game's maps, walked from the root with a stack of the nodes whose right *)
(* subtree is still to come.  Beside it, on the same tree, the walk of     *)
(* card.cpp, which needs no stack: what one meets, the other must meet.    *)
(***************************************************************************)
EXTENDS CardWalk

VARIABLES
  at,      \* props' idt: the node at hand, 0 for none
  cache,   \* the stack, its top first
  pool     \* the nodes added to the document

propsVars == <<tree, at, cache, pool>>

PropsInit ==
  /\ tree \in TreeSet
  /\ at = Root(tree) /\ cache = <<>> /\ pool = <<>>

-----------------------------------------------------------------------------
(* Mutant of Visit: the node is not put aside for its right subtree. *)
VisitNoPush ==
  /\ at # 0
  /\ pool' = Append(pool, at)
  /\ at' = tree.left[at]
  /\ UNCHANGED <<tree, cache>>

Visit ==
  /\ at # 0
  /\ pool' = Append(pool, at)
  /\ cache' = <<at>> \o cache
  /\ at' = tree.left[at]
  /\ UNCHANGED tree

Pop ==
  /\ at = 0 /\ cache # <<>>
  /\ at' = tree.right[Head(cache)]
  /\ cache' = Tail(cache)
  /\ UNCHANGED <<tree, pool>>

PropsNext == Visit \/ Pop

PropsSpec == PropsInit /\ [][PropsNext]_propsVars

(* Both walks, each in its own time. *)
BothInit == Init /\ PropsInit

BothNext ==
  \/ Next /\ UNCHANGED propsVars
  \/ PropsNext /\ UNCHANGED vars

BothSpec == BothInit /\ [][BothNext]_<<vars, propsVars>>

-----------------------------------------------------------------------------
(* Correctness *)

Walked == {pool[i] : i \in 1..Len(pool)}

(* What the node x and the nodes put aside stand for. *)
Below(x) == IF x = 0 THEN {} ELSE tree.lo[x]..tree.hi[x]
ToCome == Below(at) \cup UNION {Below(tree.right[cache[i]]) : i \in 1..Len(cache)}

(* At every moment each entry has either been added or is still to come,   *)
(* never both and never twice: AddMember would keep two members of one     *)
(* name.                                                                   *)
EachOnce ==
  /\ Walked \cup ToCome = Node(tree) /\ Walked \cap ToCome = {}
  /\ \A i, j \in 1..Len(pool) : pool[i] = pool[j] => i = j
=============================================================================
