------------------------------ MODULE MCXpath ------------------------------
(* Xpath on a scene of a root with two children of one name, the second    *)
(* with a child of its own: what lies below it is hidden by the first.     *)
(* That child's name begins with '$', so no route finds it by name.        *)
EXTENDS Xpath, TLC

CONSTANTS top, a, b, c, nameX, nameD, clsA, clsB

MCKids == (top :> <<a, b>>) @@ (a :> <<>>) @@ (b :> <<c>>) @@ (c :> <<>>)
MCParent == (a :> top) @@ (b :> top) @@ (c :> b)
MCName == (top :> Empty) @@ (a :> nameX) @@ (b :> nameX) @@ (c :> nameD)
MCClass == (top :> clsB) @@ (a :> clsA) @@ (b :> clsB) @@ (c :> clsA)

MCDollar == {clsA, clsB, nameD}

(* Everything, the second child closed, its child closed, all closed. *)
MCScenes == {Node, {top, a, c}, {top, a, b}, {a, b, c}}

(* "/", "//x/", "/$B/x//", "/$B/$B/", "/$B/$B/$A", "/$B/$B/$D": to the    *)
(* root, to a child, by name, by class, by a name that begins with '$',    *)
(* with the empty component at the end, and those that end where they      *)
(* start.                                                                  *)
MCRoutes ==
  {<<Empty>>, <<nameX>>, <<Empty, Empty>>, <<nameX, nameX>>,
   <<Empty, Empty, nameX, Empty>>, <<Empty, clsB, nameX, Empty, Empty>>,
   <<Empty, clsB, clsB, Empty>>, <<Empty, clsB, clsB, clsA>>,
   <<Empty, clsB, clsB, nameD>>}
=============================================================================
