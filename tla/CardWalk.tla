------------------------------ MODULE CardWalk ------------------------------
(***************************************************************************)
(* Card::getAll (card.cpp): the game's cards in the order of their ids, by *)
(* stepping from a tree node to its successor up to the header, without a  *)
(* stack.                                                                  *)
(***************************************************************************)
EXTENDS Tree, Sequences

CONSTANT TreeSet  \* the trees the game can hold its cards in

ASSUME TreeAssumption == \A t \in TreeSet : IsTree(t)

VARIABLES
  tree,     \* the cards' tree: the walk does not change it
  idt,      \* the node at hand
  visited,  \* the nodes put into the pool
  pc        \* which of the loops the walk is in

vars == <<tree, idt, visited, pc>>

Init ==
  /\ tree \in TreeSet
  /\ idt = tree.left[Header(tree)]
  /\ visited = <<>> /\ pc = "visit"

-----------------------------------------------------------------------------
Visiting == pc = "visit" /\ idt # Header(tree)

(* A right subtree: its first node is next. *)
VisitRight ==
  /\ Visiting /\ tree.right[idt] # 0
  /\ visited' = Append(visited, idt)
  /\ idt' = tree.right[idt] /\ pc' = "down"
  /\ UNCHANGED tree

Down ==
  /\ pc = "down"
  /\ IF tree.left[idt] # 0
       THEN idt' = tree.left[idt] /\ UNCHANGED pc
       ELSE pc' = "visit" /\ UNCHANGED idt
  /\ UNCHANGED <<tree, visited>>

(* No right subtree: a left child's parent is next, otherwise climb. *)
VisitUp ==
  /\ Visiting /\ tree.right[idt] = 0
  /\ visited' = Append(visited, idt)
  /\ idt' = tree.parent[idt]
  /\ pc' = IF tree.right[idt'] # idt THEN "visit" ELSE "up"
  /\ UNCHANGED tree

(* Mutant of Up: the last test, for the header above the root, left out. *)
UpNoHeader ==
  /\ pc = "up"
  /\ idt' = tree.parent[idt]
  /\ pc' = IF tree.right[idt'] = idt THEN "up" ELSE "visit"
  /\ UNCHANGED <<tree, visited>>

(* One turn of do ... while, and the test after it: climbing on from the   *)
(* header, whose parent is the root again, ends at the header.             *)
Up ==
  /\ pc = "up"
  /\ LET above == tree.parent[idt] IN
     IF tree.right[above] = idt
       THEN idt' = above /\ UNCHANGED pc
       ELSE /\ idt' = IF above = tree.right[idt] THEN idt ELSE above
            /\ pc' = "visit"
  /\ UNCHANGED <<tree, visited>>

Next == VisitRight \/ Down \/ VisitUp \/ Up

Spec == Init /\ [][Next]_vars

-----------------------------------------------------------------------------
(* Correctness *)

TypeOK ==
  /\ tree \in TreeSet
  /\ idt \in 1..Header(tree)
  /\ visited \in Seq(Node(tree))
  /\ pc \in {"visit", "down", "up"}

(* Whatever the tree's shape, the cards come in the order of their ids,    *)
(* none left out, none twice, and the walk stops after the last.           *)
InKeyOrder ==
  /\ visited = [i \in 1..Len(visited) |-> i]
  /\ pc = "visit" /\ idt = Header(tree) => Len(visited) = tree.n
=============================================================================
