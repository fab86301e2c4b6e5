------------------------------- MODULE Xpath -------------------------------
(***************************************************************************)
(* The user interface as scripts see it: UI::genXpath copies the game's    *)
(* scene into a tree of Xpath nodes, UI::travelXpath looks a node up by a  *)
(* route of names and classes (ui.cpp), and Lua holds nodes by userdata,   *)
(* whose collector deletes those that say so (the Xpath functions of       *)
(* api.cpp).  sync_send (engine.cpp) makes a tree of its own and deletes   *)
(* its root.  All of it runs in the tick, on the game's thread.            *)
(***************************************************************************)
EXTENDS Naturals, Sequences

CONSTANTS
  Node,      \* the nodes of the game's scene
  Top,       \* its root
  Kids,      \* their children, in order
  Parent,    \* the node each is a child of
  Name,      \* their names,
  Class,     \* and their classes, as '$' and the class
  Empty,     \* the empty component of a route, and the name of nodes without
  Dollar,    \* the components and names that begin with '$'
  Scenes,    \* the sets of nodes that may be enabled together
  Routes,    \* the routes scripts ask for, split at '/'
  Root,      \* marks the node genXpath puts above the copy of the scene's root
  None,      \* no node, no route
  MaxTrees,  \* bound: trees made
  MaxHandles \* bound: userdata made

ASSUME SceneAssumption ==
  /\ Top \in Node /\ Root \notin Node /\ None \notin Node /\ None # Root
  /\ Kids \in [Node -> Seq(Node)] /\ Parent \in [Node \ {Top} -> Node]
  /\ \A n \in Node : \A i, j \in DOMAIN Kids[n] : Kids[n][i] = Kids[n][j] => i = j
  /\ \A n, m \in Node : (\E i \in DOMAIN Kids[n] : Kids[n][i] = m)
                          <=> m # Top /\ Parent[m] = n
  /\ DOMAIN Name = Node /\ DOMAIN Class = Node
  /\ \A n \in Node : Class[n] \in Dollar
  /\ Empty \notin Dollar
  /\ Routes \subseteq Seq({Name[n] : n \in Node} \cup {Class[n] : n \in Node} \cup {Empty})
  /\ <<>> \notin Routes /\ Scenes \subseteq SUBSET Node
  /\ MaxTrees \in Nat /\ MaxHandles \in Nat
  /\ None \notin (1..MaxTrees) \X (Node \cup {Root})

VARIABLES
  enabled,  \* the scene's nodes that are there and have _enabled set
  shot,     \* for each tree made, the scene's nodes copied
  live,     \* the Xpath nodes allocated: <<tree, node>>
  handle,   \* the userdata: the node of each, and whether the script holds it
  fresh,    \* the trees made since the game last ran or was told something
  walk,     \* travelXpath under way: where it started, where it is, what is left
  asked,    \* the travelXpath that has just ended: from where, along what, to which node
  pc        \* who runs: "game", "script", "travel"

vars == <<enabled, shot, live, handle, fresh, walk, asked, pc>>

-----------------------------------------------------------------------------
(* childXpath: a disabled node is left out, and with it all below it. *)

Above[n \in Node] == IF n = Top THEN {n} ELSE {n} \cup Above[Parent[n]]

(* Mutant of Snapshot: only the scene's root is asked. *)
SnapshotTop == IF Top \in enabled THEN Node ELSE {}

Snapshot == {n \in Node : Above[n] \subseteq enabled}

IsRoot(x) == x[2] = Root

(* xpath->free *)
Owned(x) == IsRoot(x)

(* Mutant of Freed: the children are deleted as well. *)
FreedAll(x) == {y \in live : y[1] = x[1] /\ (IsRoot(x) \/ x[2] \in Above[y[2]])}

(* delete root: the children are pointers, and stay. *)
Freed(x) == {x}

(* The children of the Xpath node x: those of the scene's, in their order, *)
(* that were copied.                                                       *)
Scene(x) == IF IsRoot(x) THEN <<Top>> ELSE Kids[x[2]]
Child(x, i) == <<x[1], Scene(x)[i]>>
Children(x) == {i \in DOMAIN Scene(x) : Scene(x)[i] \in shot[x[1]]}

(* _travelXpath's pattern: a component that begins with '$' is compared    *)
(* with the class only, any other with the name only.                      *)
Pattern(n, c) == IF c \in Dollar THEN Class[n] ELSE Name[n]
Matches(x, c) == c = Pattern(x[2], c)

NewTree == Len(shot) + 1
Hold(x) == [at |-> x, state |-> "held"]
Idle == [from |-> None, at |-> None, route |-> None, left |-> None]

(* travelXpath, entered at x: the first component stands for x itself,     *)
(* whatever it says.                                                       *)
Start(x, route) == [from |-> x, at |-> x, route |-> route, left |-> Tail(route)]

Init ==
  /\ enabled \in Scenes
  /\ shot = <<>> /\ live = {} /\ handle = <<>> /\ fresh = {}
  /\ walk = Idle /\ asked = Idle /\ pc = "game"

-----------------------------------------------------------------------------
(* The game, between two ticks, opens and closes what it likes. *)
GameStep ==
  /\ pc = "game" /\ fresh' = {}
  /\ enabled' \in Scenes /\ pc' = "script"
  /\ asked' = Idle /\ UNCHANGED <<shot, live, handle, walk>>

TickEnd ==
  /\ pc = "script" /\ pc' = "game"
  /\ asked' = Idle /\ UNCHANGED <<enabled, shot, live, handle, fresh, walk>>

Alloc == {<<NewTree, Root>>} \cup {<<NewTree, n>> : n \in Snapshot}

GenXpath ==
  /\ pc = "script" /\ Len(shot) < MaxTrees
  /\ shot' = Append(shot, Snapshot)
  /\ fresh' = fresh \cup {NewTree}

(* UI.travel() *)
TravelWhole ==
  /\ GenXpath /\ Len(handle) < MaxHandles
  /\ live' = live \cup Alloc
  /\ handle' = Append(handle, Hold(<<NewTree, Root>>))
  /\ asked' = Idle /\ UNCHANGED <<enabled, walk, pc>>

(* UI.travel(nil, route): the root's userdata stays behind on the stack. *)
TravelRoute ==
  /\ GenXpath /\ Len(handle) + 2 <= MaxHandles
  /\ live' = live \cup Alloc
  /\ handle' = Append(handle, [at |-> <<NewTree, Root>>, state |-> "loose"])
  /\ \E route \in Routes : walk' = Start(<<NewTree, Root>>, route)
  /\ pc' = "travel"
  /\ asked' = Idle /\ UNCHANGED enabled

Usable(i) == pc = "script" /\ handle[i].state = "held" /\ handle[i].at \in live

(* xpath:travel(route); nothing is said of what reading a freed node does. *)
TravelFrom(i) ==
  /\ Usable(i) /\ Len(handle) < MaxHandles /\ pc' = "travel"
  /\ \E route \in Routes : walk' = Start(handle[i].at, route)
  /\ asked' = Idle /\ UNCHANGED <<enabled, shot, live, handle, fresh>>

Arrived == walk.left = <<>> \/ walk.left = <<Empty>>
Hit == {i \in Children(walk.at) : Matches(Child(walk.at, i), Head(walk.left))}

(* Mutant of TravelStep: the component stays for the child to look at. *)
TravelStepStays ==
  /\ pc = "travel" /\ ~Arrived
  /\ \E i \in Hit :
       /\ \A j \in Hit : i <= j
       /\ walk' = [walk EXCEPT !.at = Child(@, i)]
  /\ asked' = Idle /\ UNCHANGED <<enabled, shot, live, handle, fresh, pc>>

(* The first child that matches is taken, for good. *)
TravelStep ==
  /\ pc = "travel" /\ ~Arrived
  /\ \E i \in Hit :
       /\ \A j \in Hit : i <= j
       /\ walk' = [walk EXCEPT !.at = Child(@, i), !.left = Tail(@)]
  /\ asked' = Idle /\ UNCHANGED <<enabled, shot, live, handle, fresh, pc>>

TravelFound ==
  /\ pc = "travel" /\ Arrived
  /\ handle' = Append(handle, Hold(walk.at))
  /\ asked' = walk /\ walk' = Idle /\ pc' = "script"
  /\ UNCHANGED <<enabled, shot, live, fresh>>

TravelLost ==
  /\ pc = "travel" /\ ~Arrived /\ Hit = {}
  /\ asked' = [walk EXCEPT !.at = None] /\ walk' = Idle /\ pc' = "script"
  /\ UNCHANGED <<enabled, shot, live, handle, fresh>>

(* The game changes the scene within the tick. *)
SceneChanges ==
  /\ enabled' \in Scenes /\ fresh' = {}
  /\ asked' = Idle /\ UNCHANGED <<shot, live, handle, walk, pc>>

(* xpath:click(): the game's own handler runs on the node's instance.  The *)
(* root's is the scene's root, enabled or not, and NULL without a scene.   *)
Click(i) == Usable(i) /\ SceneChanges

(* Any other function that tells the game something, to use an item say:   *)
(* that too may open or close windows.                                     *)
Act == pc = "script" /\ SceneChanges

Drop(i) ==
  /\ pc = "script" /\ handle[i].state = "held"
  /\ handle' = [handle EXCEPT ![i].state = "loose"]
  /\ asked' = Idle /\ UNCHANGED <<enabled, shot, live, fresh, walk, pc>>

(* xpath_gc *)
Collect(i) ==
  /\ pc = "script" /\ handle[i].state = "loose"
  /\ handle' = [handle EXCEPT ![i].state = "gone"]
  /\ live' = IF Owned(handle[i].at) THEN live \ Freed(handle[i].at) ELSE live
  /\ asked' = Idle /\ UNCHANGED <<enabled, shot, fresh, walk, pc>>

(* sync_send: genXpath, xpath2json, delXpath. *)
SyncSend ==
  /\ GenXpath
  /\ live' = (live \cup Alloc) \ Freed(<<NewTree, Root>>)
  /\ asked' = Idle /\ UNCHANGED <<enabled, handle, walk, pc>>

Next ==
  \/ GameStep \/ TickEnd \/ TravelWhole \/ TravelRoute
  \/ TravelStep \/ TravelFound \/ TravelLost \/ SyncSend \/ Act
  \/ \E i \in 1..Len(handle) : TravelFrom(i) \/ Click(i) \/ Drop(i) \/ Collect(i)

Spec == Init /\ [][Next]_vars

-----------------------------------------------------------------------------
(* Correctness *)

XNode == {<<t, n>> : t \in 1..Len(shot), n \in Node \cup {Root}}

TypeOK ==
  /\ enabled \subseteq Node
  /\ shot \in Seq(SUBSET Node) /\ fresh \subseteq 1..Len(shot)
  /\ live \subseteq XNode
  /\ handle \in Seq([at : XNode, state : {"held", "loose", "gone"}])
  /\ pc \in {"game", "script", "travel"}
  /\ IF pc = "travel" THEN walk.at \in XNode ELSE walk = Idle

(* A script's handle leads to a node that is still allocated, unless it is *)
(* the second one to a root and the first has been collected: then what it *)
(* reads, and what its own collection deletes, has been freed.             *)
OnlyAliasesDangle ==
  \A i \in 1..Len(handle) :
    handle[i].state # "gone" /\ handle[i].at \notin live =>
      /\ IsRoot(handle[i].at)
      /\ \E j \in 1..Len(handle) \ {i} :
           handle[j].at = handle[i].at /\ handle[j].state = "gone"

(* The components that name a child. *)
Path(route) ==
  LET p == Tail(route) IN
  IF p # <<>> /\ p[Len(p)] = Empty THEN SubSeq(p, 1, Len(p) - 1) ELSE p

(* y can be reached from x along the path, taking any child that matches.  *)
Along(x, p, y) ==
  \E s \in [1..(Len(p) + 1) -> {x} \cup {<<x[1], n>> : n \in shot[x[1]]}] :
    /\ s[1] = x /\ s[Len(p) + 1] = y
    /\ \A i \in 1..Len(p) :
         \E j \in Children(s[i]) : Child(s[i], j) = s[i + 1] /\ Matches(s[i + 1], p[i])

(* No component of a route matches two children of one node. *)
Unambiguous(p) ==
  \A n \in Node : \A i \in DOMAIN p : \A j, k \in DOMAIN Kids[n] :
      p[i] = Pattern(Kids[n][j], p[i]) /\ p[i] = Pattern(Kids[n][k], p[i]) => j = k

(* What is found lies at the end of the route; and although a child once   *)
(* taken is never taken back, whatever lies there is found where no node   *)
(* has two children the route could mean.                                  *)
FoundIfThere ==
  asked # Idle =>
    LET p == Path(asked.route) IN
    IF asked.at # None THEN Along(asked.from, p, asked.at)
    ELSE Unambiguous(p) =>
           \A n \in shot[asked.from[1]] : ~Along(asked.from, p, <<asked.from[1], n>>)

(* A node found in a tree made in this tick can be clicked: as long as the *)
(* script has told the game nothing since, by a click or otherwise, the    *)
(* node and all above it are there and enabled.                            *)
FreshReachable ==
  \A i \in 1..Len(handle) :
    LET x == handle[i].at IN
    handle[i].state = "held" /\ x[1] \in fresh /\ ~IsRoot(x) => Above[x[2]] \subseteq enabled
=============================================================================
