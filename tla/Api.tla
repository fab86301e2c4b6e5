-------------------------------- MODULE Api --------------------------------
(***************************************************************************)
(* api.cpp: what scripts call.  A reader makes a document of what the game *)
(* holds (module Readers), the function copies members of it, with typed   *)
(* getters, into a Lua table; others hand a pointer or a flag on to the    *)
(* game.  Nothing here is asked whether the game is ready: that is what    *)
(* Resource.isReady is for, and it answers once and for all.               *)
(*                                                                         *)
(* Scripts and the game take turns on one thread.  A script may keep the   *)
(* pointer of an item or an entity from one turn to another.               *)
(***************************************************************************)
EXTENDS Readers

CONSTANT Games  \* the states of the game

Int32 == (-IntMax - 1)..IntMax
UInt64 == 0..(Wide - 1)

(* The game's memory, by the types it is read with. *)
WellFormed(g) ==
  /\ \A i \in DOMAIN g.items :
       g.items[i] \in [ptr : Int32, itemId : Int32, categoryId : Int32, count : UInt64]
  /\ DOMAIN g.items \cup DOMAIN g.entities \subseteq Nat
  /\ \A i \in DOMAIN g.entities :
       LET e == g.entities[i] IN
       /\ e.ptr \in Int32 /\ e.type \in Int32 /\ e.id \in UInt64
       /\ e.pos = None \/ e.pos \in [x : Int32, y : Int32]
       /\ e.clan = None \/ e.clan.lv \in Int32
  /\ \A i \in DOMAIN g.buffs :
       LET b == g.buffs[i] IN
       b.buffId \in Int32 /\ b.nameId \in Int32 /\ b.keep \in Int32 /\ b.tick \in UInt64
  /\ g.bootTick \in UInt64
  /\ \A i \in DOMAIN g.cards : g.cards[i] \in Int32
  /\ \A t \in {"ItemClass", "BuffCard", "SpellClass"} :
       /\ Len(g.table[t]) \in Nat
       /\ \A i \in 1..Len(g.table[t]) : g.table[t][i].nameId \in Int32
  /\ \A i \in 1..Len(g.table["SpellClass"]) :
       g.table["SpellClass"][i] \in
         [key : Int32, nameId : Int32, common : Int32, level : Int32, spellType : Int32,
          materialId : Int32, materialCount : Int32, useHp : Int32, useMp : Int32]
  /\ \A i \in DOMAIN g.table["SpellLearnLimit"] : g.table["SpellLearnLimit"][i].spellId \in Int32
  /\ g.job \in Int32 /\ \A k \in DOMAIN g.props : g.props[k] \in UInt64
  /\ \A k \in DOMAIN g.stats : g.stats[k] \in Int32
  /\ g.world # None => g.world.id \in Int32
  /\ g.area # None => g.area.id \in Int32

ASSUME GamesAssumption == \A g \in Games : WellFormed(g)

VARIABLES
  game,   \* the game's memory
  ready,  \* isReady's static latch
  out,    \* a manager or table that was there has gone (history)
  held,   \* the pointer a script has kept; left: its object has gone since
  last,   \* the last call of this turn, what it returned and told the game
  fault   \* what killed the process: pointers that were NULL, or a misuse

vars == <<game, ready, out, held, last, fault>>

Nothing == [fn |-> "none", told |-> None]
Ptrs(seq) == {seq[i].ptr : i \in DOMAIN seq}

Init ==
  /\ game \in Games
  /\ ready = FALSE /\ out = FALSE /\ held = None
  /\ last = Nothing /\ fault = {}

-----------------------------------------------------------------------------
(* Getters and pushes *)

(* rapidjson's getters insist on the member and on its range. *)
Fits(doc, reads) ==
  /\ reads.int \cup reads.uint64 \cup reads.string \subseteq DOMAIN doc
  /\ \A f \in reads.int : doc[f] \in (-IntMax - 1)..IntMax
  /\ \A f \in reads.uint64 : doc[f] >= 0

(* lua_pushinteger of a uint64_t *)
LuaInteger(x) == IF 2 * x >= Wide THEN x - Wide ELSE x

Copy(doc, reads) ==
  [f \in reads.int \cup reads.uint64 \cup reads.string |->
     IF f \in reads.uint64 THEN LuaInteger(doc[f]) ELSE doc[f]]

(* Mutant of ItemReads: the count read as the ids are. *)
ItemReadsInt(doc) ==
  [int |-> {"ptr", "itemId", "categoryId", "nameId", "count"},
   uint64 |-> {}, string |-> {"name"}]

ItemReads(doc) ==
  [int |-> {"ptr", "itemId", "categoryId", "nameId"},
   uint64 |-> {"count"}, string |-> {"name"}]

BuffReads(doc) ==
  [int |-> {"buffId", "nameId", "keep", "surplus"}, uint64 |-> {}, string |-> {"name"}]
CardReads(doc) == [int |-> {"cardId", "nameId"}, uint64 |-> {}, string |-> {"name"}]

(* entity_warp: the clan if there is one. *)
EntityWarp(doc) ==
  LET clan == "lv" \in DOMAIN doc IN
  [int    |-> {"ptr", "type", "x", "y"} \cup (IF clan THEN {"lv"} ELSE {}),
   uint64 |-> {"id"},
   string |-> {"name", "jobName"} \cup (IF clan THEN {"clanName"} ELSE {})]

(* The level, which Spell::getAll writes, is not among them. *)
SpellReads(doc) ==
  [int |-> {"spellId", "common", "spellType", "materialId", "materialCount",
            "useHp", "useMp", "learned", "nameId"},
   uint64 |-> {}, string |-> {"name"}]

(* Every prop is read as uint64_t, the job, an int, among them. *)
PropReads(doc) == [int |-> {}, uint64 |-> DOMAIN doc, string |-> {}]
StatReads(doc) == [int |-> DOMAIN doc, uint64 |-> {}, string |-> {}]
MapReads(doc) ==
  [int |-> {"worldId", "areaId", "tag"}, uint64 |-> {}, string |-> {"worldName", "areaName"}]

-----------------------------------------------------------------------------
(* A call dereferences the pointers of need; what it returns and tells the *)
(* game is worked out only if none is NULL and every getter fits.          *)
Call(fn, need, fits, value, told) ==
  /\ fault = {}
  /\ fault' = IF need \subseteq game.up
                THEN IF fits THEN {} ELSE {"getter"}
                ELSE need \ game.up
  /\ last' = IF fault' = {} THEN [fn |-> fn, value |-> value, told |-> told] ELSE Nothing

Stays == UNCHANGED <<game, ready, out, held>>

ReturnDocs(fn, need, docs, Reads(_)) ==
  /\ Call(fn, need, \A i \in DOMAIN docs : Fits(docs[i], Reads(docs[i])),
          [i \in DOMAIN docs |-> Copy(docs[i], Reads(docs[i]))], None)
  /\ Stays

ReturnDoc(fn, need, doc, Reads(_)) ==
  Call(fn, need, Fits(doc, Reads(doc)), Copy(doc, Reads(doc)), None) /\ Stays

Return(fn, need, value, told) == Call(fn, need, TRUE, value, told) /\ Stays

-----------------------------------------------------------------------------
InventoryAll ==
  ReturnDocs("Inventory.all", {"MobileInventory", "StaticData"}, Items(game), ItemReads)

InventoryLimit == Return("Inventory.limit", {"MobileInventory"}, game.limit, None)

InventoryUseByPtr ==
  /\ held # None /\ held.list = "items"
  /\ Return("Inventory.useByPtr", {"MobileInventory"}, None, [item |-> held.ptr])

(* Mutant of InventoryUseById: an id that is not found is used as well. *)
InventoryUseByIdAlways(itemId) ==
  LET with == {i \in DOMAIN game.items : game.items[i].itemId = itemId}
      ptr == IF with = {} THEN 0 ELSE game.items[Min(with)].ptr
  IN Return("Inventory.useById", {"MobileInventory", "StaticData"}, ptr # 0, [item |-> ptr])

(* The first item of the id, asked for and used in one call. *)
InventoryUseById(itemId) ==
  LET with == {i \in DOMAIN game.items : game.items[i].itemId = itemId}
      ptr == IF with = {} THEN 0 ELSE game.items[Min(with)].ptr
  IN Return("Inventory.useById", {"MobileInventory", "StaticData"}, ptr # 0,
            IF ptr = 0 THEN None ELSE [item |-> ptr])

BuffAll == ReturnDocs("Buff.all", {"BuffManager", "StaticData"}, Buffs(game), BuffReads)

CardAll == ReturnDocs("Card.all", {"BuffCardSystem", "StaticData"}, Cards(game), CardReads)

EntityAll ==
  ReturnDocs("Entity.all", {"UserObject"}, Entities(game.entities), EntityWarp)

(* The entities are looked at for each enemy that has a luid. *)
EntityEnemy ==
  ReturnDocs("Entity.enemy",
    {"PlayerInGameData"} \cup (IF ToSet(game.enemies) \subseteq {None} THEN {} ELSE {"UserObject"}),
    Entities(Enemies(game)), EntityWarp)

(* The limits are read through their table's pointer, whatever it is. *)
SpellAll ==
  LET ids == SpellIds(game)
      docs == [k \in {ToString(id) : id \in ids} |->
                 SpellDoc(game, CHOOSE id \in ids : ToString(id) = k)]
  IN ReturnDocs("Spell.all",
       {"StaticData", "CharacterInfo", "SpellLearnLimit"}
         \cup (IF ids = {} THEN {} ELSE {"SpellManager"}), docs, SpellReads)

(* The flag is set for the time of the game's call and then put back. *)
SpellUse(spellId, isSelf) ==
  Return("Spell.use",
    {"SpellManager"} \cup (IF isSelf = None THEN {} ELSE {"ClientDataManager"}), None,
    [spell |-> spellId, self |-> IF isSelf = None THEN game.self ELSE isSelf])

ActorProps == ReturnDoc("Actor.props", {"CharacterInfo"}, Props(game), PropReads)
ActorStats == ReturnDoc("Actor.stats", {"StatManager"}, Stats(game), StatReads)
ActorPos ==
  Return("Actor.pos", {"Actor"} \cup (IF game.actor = None THEN {} ELSE {"MapSystem"}),
         Pos(game), None)

(* The flag as it was; setting it is left to the game. *)
ActorAuto(op) ==
  Return("Actor.auto", {"AutoSelector"}, game.auto, IF op = None THEN None ELSE [auto |-> op])
ActorSelf(op) ==
  Return("Actor.self", {"ClientDataManager"}, game.self, IF op = None THEN None ELSE [self |-> op])

(* Actor::attach only reads, whatever it is given. *)
ActorAttach(op) == Return("Actor.attach", {"CharacterPlayManager"}, game.attach, None)

ActorSelect ==
  /\ held # None /\ held.list = "entities"
  /\ Return("Actor.select", {}, None, [entity |-> held.ptr])

(* nil, or the first entity of the selected id. *)
ActorSelected ==
  LET with == WithId(game, game.selected) IN
  IF game.selected = None \/ with = {}
    THEN Return("Actor.selected", {"SelectedObjectManager"}
           \cup (IF game.selected = None THEN {} ELSE {"UserObject"}), None, None)
    ELSE ReturnDoc("Actor.selected", {"SelectedObjectManager", "UserObject"},
                   EntityDoc(game.entities[Min(with)]), EntityWarp)

MapDescribe == ReturnDoc("Map.desc", {"StaticData", "MapSystem"}, Describe(game), MapReads)

ChatLog == Return("Chat.log", {}, None, [chat |-> "text"])

(* A text that is no string makes std::string throw through Lua. *)
NetLog(text) ==
  /\ fault = {} /\ fault' = IF text = None THEN {"text"} ELSE {}
  /\ last' = Nothing /\ Stays

-----------------------------------------------------------------------------
Checked ==
  {"StaticData", "UserObject", "MobileInventory", "BuffCardSystem", "BuffManager",
   "StatManager", "CharacterInfo", "SpellManager", "MapSystem",
   "DescData", "ItemClass", "SpellClass", "BuffCard"}

(* Mutant of IsReady: the latch is set whatever came of the tests. *)
IsReadyLatches == TRUE

IsReady == ready \/ Checked \subseteq game.up

ResourceIsReady ==
  /\ Call("Resource.isReady", {}, TRUE, IsReady, None)
  /\ ready' = IsReady /\ UNCHANGED <<game, out, held>>

(* sync_actor, on the sync tick: the props go into the message. *)
SyncActor ==
  /\ Call("sync", IF IsReady THEN {"CharacterInfo"} ELSE {},
          IsReady => Fits(Props(game), PropReads(Props(game))), None, None)
  /\ ready' = IsReady /\ UNCHANGED <<game, out, held>>

-----------------------------------------------------------------------------
(* The script keeps a pointer of the table it has just been given. *)
Keep ==
  /\ fault = {} /\ last.fn \in {"Inventory.all", "Entity.all", "Entity.enemy"}
  /\ \E i \in DOMAIN last.value :
       held' = [ptr |-> last.value[i].ptr, left |-> FALSE,
                list |-> IF last.fn = "Inventory.all" THEN "items" ELSE "entities"]
  /\ UNCHANGED <<game, ready, out, last, fault>>

(* The game's turn: anything may come, go or change. *)
GameStep ==
  /\ fault = {} /\ game' \in Games \ {game}
  /\ out' = (out \/ ~(game.up \subseteq game'.up))
  /\ held' = IF held = None THEN None
             ELSE [held EXCEPT !.left = @ \/ held.ptr \notin Ptrs(game'[held.list])]
  /\ last' = Nothing /\ UNCHANGED <<ready, fault>>

Script ==
  \/ InventoryAll \/ InventoryLimit \/ InventoryUseByPtr \/ BuffAll \/ CardAll
  \/ EntityAll \/ EntityEnemy \/ SpellAll
  \/ ActorProps \/ ActorStats \/ ActorPos \/ ActorSelect \/ ActorSelected
  \/ MapDescribe \/ ChatLog \/ ResourceIsReady \/ Keep
  \/ \E itemId \in {item.itemId : item \in UNION {ToSet(g.items) : g \in Games}} :
       InventoryUseById(itemId)
  \/ \E op \in {None, TRUE, FALSE} :
       ActorAuto(op) \/ ActorSelf(op) \/ ActorAttach(op) \/ SpellUse(1, op)
  \/ \E text \in {None, "text"} : NetLog(text)

Next == Script \/ SyncActor \/ GameStep

Spec == Init /\ [][Next]_vars

-----------------------------------------------------------------------------
(* Correctness *)

TypeOK ==
  /\ game \in Games
  /\ ready \in BOOLEAN /\ out \in BOOLEAN
  /\ held # None => held.list \in {"items", "entities"} /\ held.left \in BOOLEAN

(* What isReady looks at is enough: once it has said yes, and until the    *)
(* game has let something go, a call dies only of a pointer it does not    *)
(* look at, and the sync, which asks it each time, never dies of one.      *)
ReadyMeansReadable ==
  ready /\ ~out => fault \cap Checked = {}

(* Lists and Inventory.useById name only what is there; the game is told   *)
(* of an item or an entity that is not there only if the script has kept   *)
(* its pointer over the turn in which it went.                             *)
PointersLive ==
  /\ last.fn = "Inventory.all" => Ptrs(last.value) \subseteq Ptrs(game.items)
  /\ last.fn \in {"Entity.all", "Entity.enemy"} =>
       Ptrs(last.value) \subseteq Ptrs(game.entities)
  /\ last.told # None =>
       /\ "item" \in DOMAIN last.told =>
            \/ last.told.item \in Ptrs(game.items)
            \/ last.fn = "Inventory.useByPtr" /\ held.left
       /\ "entity" \in DOMAIN last.told =>
            last.told.entity \in Ptrs(game.entities) \/ held.left

(* The time a buff has left, in whole seconds, where it is a number an int *)
(* holds: there is a game loop and the buff's time is not over.  None is   *)
(* given of a buff kept for ever.                                          *)
TimeLeft(buff) ==
  LET ticks == buff.tick - game.bootTick IN
  IF buff.keep \notin 0..MaxKeep THEN {-1}
  ELSE IF "GameLoop" \in game.up /\ ticks \in 0..(Second * IntMax) THEN {ticks \div Second}
  ELSE (-IntMax - 1)..IntMax

(* What a script reads is what the game has: no getter is used out of its  *)
(* range but the one for a negative job, no count is lost to the way       *)
(* through int, uint64_t and lua_Integer, a buff's time is its time.       *)
NumbersTrue ==
  /\ fault = {"getter"} => game.job < 0
  /\ last.fn = "Inventory.all" =>
       \A i \in DOMAIN game.items : last.value[i].count % Wide = game.items[i].count
  /\ last.fn = "Buff.all" =>
       \A i \in DOMAIN game.buffs : last.value[i].surplus \in TimeLeft(game.buffs[i])
=============================================================================
