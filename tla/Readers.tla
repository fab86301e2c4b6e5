------------------------------ MODULE Readers ------------------------------
(***************************************************************************)
(* What the readers of inventory.cpp, buff.cpp, card.cpp, spell.cpp,       *)
(* entity.cpp, actor.cpp and map.cpp make of the game's memory: documents, *)
(* records here, with the members AddMember is called for.                 *)
(*                                                                         *)
(* A game g has up, the managers and tables whose pointers are not NULL,   *)
(* the static tables' rows, sorted by key, and the lists and maps the      *)
(* readers run through (their walks are the modules Tree, CardWalk,        *)
(* PropsWalk and TreeSearch).                                              *)
(***************************************************************************)
EXTENDS Integers, SequencesExt

CONSTANTS
  IntMax,   \* the largest int
  Wide,     \* one more than the largest uint64_t
  Second,   \* ticks of the game in a second
  MaxKeep,  \* 0x278CFF: a buff kept longer is kept for ever
  None      \* a NULL pointer of the game, nil in a script

ASSUME WidthAssumption ==
  /\ IntMax \in Nat /\ IntMax >= 2 /\ Second \in Nat \ {0} /\ MaxKeep \in 0..IntMax
  /\ Wide \in Nat /\ Wide > 2 * IntMax + 1 /\ Wide > Second * IntMax

(* The members of f, then those of g it has not. *)
f ++ g == [x \in DOMAIN f \cup DOMAIN g |-> IF x \in DOMAIN f THEN f[x] ELSE g[x]]

(* int surplus = ...: the low bits. *)
ToInt(x) ==
  LET low == x % (2 * IntMax + 2) IN
  IF low > IntMax THEN low - (2 * IntMax + 2) ELSE low

(* getTable's NULL and getValuePtr: a table that is not there has no       *)
(* record, and the search never finds the last one (ValueSearch).          *)
Table(g, t) == IF t \in g.up THEN g.table[t] ELSE <<>>
Rows(g, t, key) == {m \in 1..(Len(Table(g, t)) - 1) : Table(g, t)[m].key = key}
Row(g, t, key) == Table(g, t)[CHOOSE m \in Rows(g, t, key) : TRUE]

GetName(g, nameId) ==
  IF Rows(g, "DescData", nameId) = {} THEN "?" ELSE Row(g, "DescData", nameId).name
Named(g, nameId) == [nameId |-> nameId, name |-> GetName(g, nameId)]

(* getValue<int>: 0 for a record that is not found. *)
NameId(g, t, key) == IF Rows(g, t, key) = {} THEN 0 ELSE Row(g, t, key).nameId

ItemDoc(g, item) == item ++ Named(g, NameId(g, "ItemClass", item.itemId))
Items(g) == [i \in DOMAIN g.items |-> ItemDoc(g, g.items[i])]

(* getBootTick *)
BootTick(g) == IF "GameLoop" \in g.up THEN g.bootTick ELSE 0

BuffDoc(g, buff) ==
  LET keep == IF buff.keep > MaxKeep THEN -1 ELSE buff.keep
      left == ToInt(((buff.tick - BootTick(g)) % Wide) \div Second)
  IN [buffId |-> buff.buffId, keep |-> keep,
      surplus |-> IF keep < 0 THEN -1 ELSE left] ++ Named(g, buff.nameId)
Buffs(g) == [i \in DOMAIN g.buffs |-> BuffDoc(g, g.buffs[i])]

CardDoc(g, id) == [cardId |-> id] ++ Named(g, NameId(g, "BuffCard", id))
Cards(g) == [i \in DOMAIN g.cards |-> CardDoc(g, g.cards[i])]

(* An entity may have no position and no clan, or a clan of level 0; the   *)
(* members of pos and clan are written flat.                               *)
EntityDoc(e) ==
  [f \in {"ptr", "name", "jobName", "type", "id"} |-> e[f]]
  ++ (IF e.pos = None THEN [x |-> 0, y |-> 0] ELSE e.pos)
  ++ (IF e.clan # None /\ e.clan.lv # 0
        THEN [lv |-> e.clan.lv, clanName |-> e.clan.name] ELSE << >>)
Entities(seq) == [i \in DOMAIN seq |-> EntityDoc(seq[i])]

(* The entities of an id by their places, and those of each enemy by the   *)
(* enemy's place and their own: the order they are listed in.              *)
WithId(g, id) == {i \in DOMAIN g.entities : g.entities[i].id = id}
Enemies(g) ==
  [p \in {q \in (DOMAIN g.enemies) \X (DOMAIN g.entities) :
            g.enemies[q[1]] # None /\ q[2] \in WithId(g, g.enemies[q[1]])} |->
     g.entities[p[2]]]

(* The spells a role of this job can learn, of those with a class. *)
SpellIds(g) ==
  {row.spellId : row \in {s \in ToSet(Table(g, "SpellLearnLimit")) :
                            s.jobId = g.job /\ Rows(g, "SpellClass", s.spellId) # {}}}
SpellDoc(g, id) ==
  LET class == Row(g, "SpellClass", id) IN
  [f \in DOMAIN class \ {"key", "nameId"} |-> class[f]]
  ++ [spellId |-> id, learned |-> IF id \in g.learned THEN 1 ELSE 0]
  ++ Named(g, class.nameId)

PropMap ==
  0 :> "Lv" @@ 1 :> "Exp" @@ 2 :> "ExpPercen" @@ 3 :> "MaxHp" @@ 4 :> "NowHp" @@
  5 :> "MaxMp" @@ 6 :> "NowMp" @@ 7 :> "Propensity" @@ 9 :> "Diamond" @@ 11 :> "Leaf"
PropKey(id) ==
  IF id \in DOMAIN PropMap THEN PropMap[id] ELSE "unknown" \o ToString(id)
Props(g) ==
  [k \in {PropKey(id) : id \in DOMAIN g.props} |->
     g.props[CHOOSE id \in DOMAIN g.props : PropKey(id) = k]] ++ [Job |-> g.job]
Stats(g) ==
  [k \in {ToString(id) : id \in DOMAIN g.stats} |->
     g.stats[CHOOSE id \in DOMAIN g.stats : ToString(id) = k]]

(* The map's world and area, each of which the game may not know, and the  *)
(* MapTag of the place.                                                    *)
Describe(g) ==
  [worldId   |-> IF g.world = None THEN -1 ELSE g.world.id,
   worldName |-> IF g.world = None THEN "" ELSE GetName(g, g.world.nameId),
   areaId    |-> IF g.area = None THEN -1 ELSE g.area.id,
   areaName  |-> IF g.area = None THEN "" ELSE GetName(g, g.area.nameId),
   tag       |-> IF g.safe THEN 1 ELSE IF g.fight THEN 2 ELSE 0]

Pos(g) ==
  IF g.actor = None THEN [x |-> 0, y |-> 0, mapId |-> 0]
  ELSE [x |-> g.actor.x, y |-> g.actor.y, mapId |-> g.mapId]
=============================================================================
