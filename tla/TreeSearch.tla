----------------------------- MODULE TreeSearch -----------------------------
(***************************************************************************)
(* The searches in the game's maps: Resource::getTable (resource.cpp),     *)
(* getPlayerInGameData (entity.cpp) and isLearned (spell.cpp).  All three  *)
(* compare keys as obj or int, that is signed.  The maps of isLearned and  *)
(* getPlayerInGameData have int keys; the map of getTable has addresses,   *)
(* which the game itself orders unsigned.                                  *)
(***************************************************************************)
EXTENDS Tree, Integers

CONSTANTS
  Maps,  \* the maps searched: a tree, its keys, and how the game orders them
  Size   \* 2^w for keys of w bits

(* A w-bit pattern read as a signed number. *)
Signed(x) == IF 2 * x >= Size THEN x - Size ELSE x

Bits == 0..(Size - 1)

IsMap(map) ==
  /\ IsTree(map.tree) /\ map.key \in [Node(map.tree) -> Bits]
  /\ \A x, y \in Node(map.tree) : x < y =>
       IF map.signed THEN Signed(map.key[x]) < Signed(map.key[y])
                     ELSE map.key[x] < map.key[y]

ASSUME MapAssumption == Size \in Nat /\ \A map \in Maps : IsMap(map)

VARIABLES
  map,     \* the map searched
  ident,   \* the key searched for
  here,     \* idt: the node at hand, 0 at the end of a path
  target,  \* the node found
  spc       \* "search" or "done"

searchVars == <<map, ident, here, target, spc>>

-----------------------------------------------------------------------------
SearchInit ==
  /\ map \in Maps /\ ident \in Bits
  /\ here = Root(map.tree) /\ target = 0 /\ spc = "search"

Searching == spc = "search" /\ here # 0

Match ==
  /\ Searching /\ map.key[here] = ident
  /\ target' = here /\ spc' = "done"
  /\ UNCHANGED <<map, ident, here>>

(* Mutant of Descend: the children swapped. *)
DescendSwapped ==
  /\ Searching /\ map.key[here] # ident
  /\ here' = IF Signed(ident) > Signed(map.key[here])
              THEN map.tree.left[here] ELSE map.tree.right[here]
  /\ UNCHANGED <<map, ident, target, spc>>

Descend ==
  /\ Searching /\ map.key[here] # ident
  /\ here' = IF Signed(ident) > Signed(map.key[here])
              THEN map.tree.right[here] ELSE map.tree.left[here]
  /\ UNCHANGED <<map, ident, target, spc>>

Missing ==
  /\ spc = "search" /\ here = 0
  /\ spc' = "done"
  /\ UNCHANGED <<map, ident, here, target>>

SearchNext == Match \/ Descend \/ Missing

SearchSpec == SearchInit /\ [][SearchNext]_searchVars

-----------------------------------------------------------------------------
(* Correctness *)

SearchTypeOK ==
  /\ IsMap(map) /\ ident \in Bits
  /\ here \in Node(map.tree) \cup {0} /\ target \in Node(map.tree) \cup {0}
  /\ spc \in {"search", "done"}

(* The two orders agree on this map's keys and on the one searched for:    *)
(* the keys are int, or all addresses lie on one side of the middle.       *)
OneOrder ==
  \/ map.signed
  \/ \A x \in Node(map.tree) : 2 * map.key[x] >= Size <=> 2 * ident >= Size

(* A node is found if its key is the one searched for and, where the two   *)
(* orders agree, whenever there is such a node: reading addresses as       *)
(* signed does no harm as long as the library is mapped on one side of the *)
(* middle of the address space.                                            *)
FindsIfThere ==
  spc = "done" =>
    /\ target # 0 => map.key[target] = ident
    /\ OneOrder => (\A x \in Node(map.tree) : map.key[x] = ident => target = x)
=============================================================================
