----------------------------- MODULE ApiProofs -----------------------------
(***************************************************************************)
(* Proofs about Api: what isReady is worth, what becomes of pointers and   *)
(* of numbers, for every set of games whose memory has the types it is     *)
(* read with.                                                              *)
(***************************************************************************)
EXTENDS Api, WellFoundedInduction, TLAPS

(***************************************************************************)
(* What a call does to the state: it kills the process, if it does, with   *)
(* pointers that are NULL, a getter or a text; the latch is left alone, or *)
(* set as isReady sets it.                                                 *)
(***************************************************************************)
Turn ==
  /\ fault = {} /\ fault' \cap game.up \subseteq {"getter", "text"}
  /\ ready' \in {ready, IsReady}
  /\ UNCHANGED <<game, out, held>>

(* Every call a script makes is one. *)
LEMMA ScriptTurn == ASSUME Script PROVE Turn \/ Keep
<1>1. ASSUME NEW fn, NEW need, NEW value, NEW told, Return(fn, need, value, told)
      PROVE  Turn
  BY <1>1 DEF Return, Call, Stays, Turn
<1>2. CASE InventoryAll BY <1>2 DEF InventoryAll, ReturnDocs, Call, Stays, Turn
<1>3. CASE InventoryLimit BY <1>3, <1>1 DEF InventoryLimit
<1>4. CASE InventoryUseByPtr BY <1>4, <1>1 DEF InventoryUseByPtr
<1>5. CASE BuffAll BY <1>5 DEF BuffAll, ReturnDocs, Call, Stays, Turn
<1>6. CASE CardAll BY <1>6 DEF CardAll, ReturnDocs, Call, Stays, Turn
<1>7. CASE EntityAll BY <1>7 DEF EntityAll, ReturnDocs, Call, Stays, Turn
<1>8. CASE EntityEnemy BY <1>8 DEF EntityEnemy, ReturnDocs, Call, Stays, Turn
<1>9. CASE SpellAll BY <1>9 DEF SpellAll, ReturnDocs, Call, Stays, Turn
<1>10. CASE ActorProps BY <1>10 DEF ActorProps, ReturnDoc, Call, Stays, Turn
<1>11. CASE ActorStats BY <1>11 DEF ActorStats, ReturnDoc, Call, Stays, Turn
<1>12. CASE ActorPos BY <1>12, <1>1 DEF ActorPos
<1>13. CASE ActorSelect BY <1>13, <1>1 DEF ActorSelect
<1>14. CASE ActorSelected
  BY <1>14, <1>1 DEF ActorSelected, ReturnDoc, Call, Stays, Turn
<1>15. CASE MapDescribe BY <1>15 DEF MapDescribe, ReturnDoc, Call, Stays, Turn
<1>16. CASE ChatLog BY <1>16, <1>1 DEF ChatLog
<1>17. CASE ResourceIsReady BY <1>17 DEF ResourceIsReady, Call, Turn
<1>18. ASSUME NEW itemId, InventoryUseById(itemId) PROVE Turn
  BY <1>18, <1>1 DEF InventoryUseById
<1>19. ASSUME NEW op, ActorAuto(op) \/ ActorSelf(op) \/ ActorAttach(op) \/ SpellUse(1, op)
       PROVE  Turn
  BY <1>19, <1>1 DEF ActorAuto, ActorSelf, ActorAttach, SpellUse
<1>20. ASSUME NEW text, NetLog(text) PROVE Turn
  BY <1>20 DEF NetLog, Stays, Turn
<1> QED
  BY <1>2, <1>3, <1>4, <1>5, <1>6, <1>7, <1>8, <1>9, <1>10, <1>11, <1>12, <1>13, <1>14,
     <1>15, <1>16, <1>17, <1>18, <1>19, <1>20 DEF Script

(* The sync tick's is one too. *)
LEMMA SyncTurn == ASSUME SyncActor PROVE Turn
BY DEF SyncActor, Call, Turn

-----------------------------------------------------------------------------
(* What isReady is worth *)

(* The invariant: while nothing has gone since isReady first said yes, all *)
(* it looks at is there.                                                   *)
ReadyInv ==
  /\ ready \in BOOLEAN /\ out \in BOOLEAN
  /\ ready /\ ~out => Checked \subseteq game.up
  /\ ready /\ ~out => fault \cap Checked = {}

(* Every step keeps it: a call finds what it looks at there, and if the    *)
(* game lets something go the history variable says so.                    *)
LEMMA ReadyStep == ASSUME ReadyInv, [Next]_vars PROVE ReadyInv'
<1> USE DEF ReadyInv
<1>1. CASE Turn
  BY <1>1 DEF Turn, IsReady, Checked
<1>2. CASE Keep BY <1>2 DEF Keep, Checked
<1>3. CASE GameStep BY <1>3 DEF GameStep, Checked
<1>4. CASE UNCHANGED vars BY <1>4 DEF vars, Checked
<1> QED BY <1>1, <1>2, <1>3, <1>4, ScriptTurn, SyncTurn DEF Next

(***************************************************************************)
(* However the game comes and goes: once Resource.isReady has said yes,    *)
(* and until the game lets something go, no function of the API dies of a  *)
(* pointer isReady looks at (resource.cpp, and every r(...) of the         *)
(* readers).                                                               *)
(***************************************************************************)
THEOREM ReadyMeansReadableAlways == Spec => []ReadyMeansReadable
<1>1. Init => ReadyInv
  BY DEF Init, ReadyInv
<1>2. ReadyInv /\ [Next]_vars => ReadyInv'
  BY ReadyStep
<1>3. ReadyInv => ReadyMeansReadable
  BY DEF ReadyInv, ReadyMeansReadable
<1> QED BY <1>1, <1>2, <1>3, PTL DEF Spec

-----------------------------------------------------------------------------
(* Lemmas about the operators *)

(* The least of a set of natural numbers is one of it. *)
LEMMA LeastIn ==
  ASSUME NEW S, S \subseteq Nat, S # {} PROVE Min(S) \in S
<1>1. OpToRel(<, Nat) = {ss \in Nat \X Nat : ss[1] < ss[2]}
  BY DEF OpToRel
<1>2. PICK x \in S : \A y \in S : ~(<<y, x>> \in {ss \in Nat \X Nat : ss[1] < ss[2]})
  BY <1>1, WFMin, NatLessThanWellFounded
<1>3. ASSUME NEW y \in S PROVE x =< y
  <2>1. x \in Nat /\ y \in Nat OBVIOUS
  <2>2. ~(y < x) BY <1>2, <2>1
  <2> QED BY <2>1, <2>2
<1> QED BY <1>3 DEF Min

(* A member read as int or string is copied as it is. *)
LEMMA CopyPtr ==
  ASSUME NEW doc, NEW reads, "ptr" \in reads.int, "ptr" \notin reads.uint64
  PROVE  Copy(doc, reads).ptr = doc.ptr
BY DEF Copy

LEMMA ItemPtr ==
  ASSUME NEW g, NEW item, "ptr" \in DOMAIN item PROVE ItemDoc(g, item).ptr = item.ptr
BY DEF ItemDoc, ++

LEMMA EntityPtr == ASSUME NEW e PROVE EntityDoc(e).ptr = e.ptr
<1>1. ASSUME NEW f, NEW h, NEW k, "ptr" \in DOMAIN f PROVE (f ++ h ++ k).ptr = f.ptr
  BY <1>1 DEF ++
<1> QED BY <1>1 DEF EntityDoc
-----------------------------------------------------------------------------
(* What becomes of pointers *)

(* The invariant: a pointer the script keeps is of the list it was read    *)
(* from until its object leaves the list.                                  *)
Kept(h, g) ==
  h # None =>
    /\ h = [ptr |-> h.ptr, left |-> h.left, list |-> h.list]
    /\ h.left \in BOOLEAN /\ h.list \in {"items", "entities"}
    /\ ~h.left => h.ptr \in Ptrs(g[h.list])
HeldInv == Kept(held, game)

(* A call that returns a list tells the game nothing, so that a pointer    *)
(* kept afterwards is not taken for one it was told of.                    *)
LastInv ==
  /\ PointersLive
  /\ last.fn \in {"Inventory.all", "Entity.all", "Entity.enemy"} => last.told = None

PtrInv == game \in Games /\ HeldInv /\ LastInv

(* What the last call has left behind if it says nothing of pointers. *)
Silent ==
  /\ last'.fn \notin {"Inventory.all", "Entity.all", "Entity.enemy"}
  /\ last'.told # None => DOMAIN last'.told \cap {"item", "entity"} = {}

LEMMA SilentLive == ASSUME Silent PROVE LastInv'
BY DEF Silent, LastInv, PointersLive

(* What a call that returns a value and tells the game something says. *)
LEMMA ReturnSays ==
  ASSUME NEW fn, NEW need, NEW value, NEW told, Return(fn, need, value, told)
  PROVE  last' \in {Nothing, [fn |-> fn, value |-> value, told |-> told]}
BY DEF Return, Call

(* What a call that returns documents says, where every getter fits. *)
LEMMA ItemsLive == ASSUME PtrInv, InventoryAll PROVE LastInv'
<1>1. last' = Nothing \/
      last' = [fn |-> "Inventory.all", told |-> None,
               value |-> [i \in DOMAIN Items(game) |->
                            Copy(Items(game)[i], ItemReads(Items(game)[i]))]]
  BY DEF InventoryAll, ReturnDocs, Call
<1>2. CASE last' = Nothing BY <1>2, SilentLive DEF Nothing, Silent
<1>3. ASSUME NEW i \in DOMAIN Items(game)
      PROVE  Copy(Items(game)[i], ItemReads(Items(game)[i])).ptr = game.items[i].ptr
  <2>1. i \in DOMAIN game.items /\ Items(game)[i] = ItemDoc(game, game.items[i])
    BY DEF Items
  <2>2. "ptr" \in DOMAIN game.items[i]
    BY <2>1, GamesAssumption DEF PtrInv, WellFormed
  <2>3. Copy(Items(game)[i], ItemReads(Items(game)[i])).ptr = Items(game)[i].ptr
    BY CopyPtr DEF ItemReads
  <2> QED BY <2>1, <2>2, <2>3, ItemPtr
<1>4. DOMAIN Items(game) = DOMAIN game.items BY DEF Items
<1>5. CASE last' # Nothing
  BY <1>1, <1>3, <1>4, <1>5 DEF LastInv, PointersLive, Ptrs, InventoryAll, ReturnDocs, Stays
<1> QED BY <1>2, <1>5
(* The same of entities, each read with entity_warp. *)
LEMMA EntityCopied ==
  ASSUME NEW seq, NEW i \in DOMAIN Entities(seq)
  PROVE  Copy(Entities(seq)[i], EntityWarp(Entities(seq)[i])).ptr = seq[i].ptr
<1>1. Copy(Entities(seq)[i], EntityWarp(Entities(seq)[i])).ptr = Entities(seq)[i].ptr
  BY CopyPtr DEF EntityWarp
<1> QED BY <1>1, EntityPtr DEF Entities

LEMMA EntitiesLive ==
  ASSUME EntityAll \/ EntityEnemy PROVE LastInv'
<1>1. CASE last' = Nothing BY <1>1, SilentLive DEF Nothing, Silent
<1>2. CASE EntityAll /\ last' # Nothing
  <2>1. last' = [fn |-> "Entity.all", told |-> None,
                 value |-> [i \in DOMAIN Entities(game.entities) |->
                              Copy(Entities(game.entities)[i],
                                   EntityWarp(Entities(game.entities)[i]))]]
    BY <1>2 DEF EntityAll, ReturnDocs, Call
  <2>2. DOMAIN Entities(game.entities) = DOMAIN game.entities BY DEF Entities
  <2> QED BY <1>2, <2>1, <2>2, EntityCopied
          DEF LastInv, PointersLive, Ptrs, EntityAll, ReturnDocs, Stays
<1>3. CASE EntityEnemy /\ last' # Nothing
  <2>1. last' = [fn |-> "Entity.enemy", told |-> None,
                 value |-> [i \in DOMAIN Entities(Enemies(game)) |->
                              Copy(Entities(Enemies(game))[i],
                                   EntityWarp(Entities(Enemies(game))[i]))]]
    BY <1>3 DEF EntityEnemy, ReturnDocs, Call
  <2>2. DOMAIN Entities(Enemies(game)) = DOMAIN Enemies(game) BY DEF Entities
  <2>3. ASSUME NEW p \in DOMAIN Enemies(game)
        PROVE  p[2] \in DOMAIN game.entities /\ Enemies(game)[p] = game.entities[p[2]]
    BY DEF Enemies
  <2> QED BY <1>3, <2>1, <2>2, <2>3, EntityCopied
          DEF LastInv, PointersLive, Ptrs, EntityEnemy, ReturnDocs, Stays
<1> QED BY <1>1, <1>2, <1>3

(* The item used by its id is one of the inventory. *)
LEMMA UseByIdLive ==
  ASSUME PtrInv, NEW itemId, InventoryUseById(itemId) PROVE LastInv'
<1> DEFINE with == {i \in DOMAIN game.items : game.items[i].itemId = itemId}
           ptr == IF with = {} THEN 0 ELSE game.items[Min(with)].ptr
<1>1. /\ last' \in {Nothing, [fn |-> "Inventory.useById", value |-> ptr # 0,
                             told |-> IF ptr = 0 THEN None ELSE [item |-> ptr]]}
      /\ game' = game
  BY DEF InventoryUseById, Return, Call, Stays
<1>2. CASE ptr = 0 \/ last' = Nothing
  BY <1>1, <1>2, SilentLive DEF Nothing, Silent
<1>3. CASE ptr # 0 /\ last' # Nothing
  <2>1. with # {} BY <1>3
  <2>2. with \subseteq Nat BY GamesAssumption DEF PtrInv, WellFormed
  <2>3. Min(with) \in DOMAIN game.items BY <2>1, <2>2, LeastIn
  <2>4. ptr \in Ptrs(game.items) BY <2>1, <2>3 DEF Ptrs
  <2> HIDE DEF ptr
  <2> QED BY <1>1, <1>3, <2>4 DEF LastInv, PointersLive
<1> QED BY <1>2, <1>3

(* What the script has kept is of its list, or its object has left it. *)
LEMMA HeldLive ==
  ASSUME PtrInv, InventoryUseByPtr \/ ActorSelect PROVE LastInv'
<1>1. CASE InventoryUseByPtr
  <2>1. /\ last' \in {Nothing, [fn |-> "Inventory.useByPtr", value |-> None,
                               told |-> [item |-> held.ptr]]}
        /\ game' = game /\ held' = held
    BY <1>1 DEF InventoryUseByPtr, Return, Call, Stays
  <2>2. held.ptr \in Ptrs(game.items) \/ held.left
    BY <1>1 DEF InventoryUseByPtr, PtrInv, HeldInv, Kept
  <2> QED BY <2>1, <2>2 DEF LastInv, PointersLive, Nothing
<1>2. CASE ActorSelect
  <2>1. /\ last' \in {Nothing, [fn |-> "Actor.select", value |-> None,
                               told |-> [entity |-> held.ptr]]}
        /\ game' = game /\ held' = held
    BY <1>2 DEF ActorSelect, Return, Call, Stays
  <2>2. held.ptr \in Ptrs(game.entities) \/ held.left
    BY <1>2 DEF ActorSelect, PtrInv, HeldInv, Kept
  <2> QED BY <2>1, <2>2 DEF LastInv, PointersLive, Nothing
<1> QED BY <1>1, <1>2
(* The calls that neither return pointers nor tell the game of any. *)
LEMMA OthersSilent ==
  ASSUME \/ InventoryLimit \/ BuffAll \/ CardAll \/ SpellAll \/ ActorProps \/ ActorStats
         \/ ActorPos \/ ActorSelected \/ MapDescribe \/ ChatLog \/ ResourceIsReady \/ SyncActor
         \/ \E op : ActorAuto(op) \/ ActorSelf(op) \/ ActorAttach(op) \/ SpellUse(1, op)
         \/ \E text : NetLog(text)
  PROVE  Silent
<1> USE DEF Silent, Nothing
<1>1. CASE InventoryLimit BY <1>1, ReturnSays DEF InventoryLimit
<1>2. CASE BuffAll BY <1>2 DEF BuffAll, ReturnDocs, Call
<1>3. CASE CardAll BY <1>3 DEF CardAll, ReturnDocs, Call
<1>4. CASE SpellAll BY <1>4 DEF SpellAll, ReturnDocs, Call
<1>5. CASE ActorProps BY <1>5 DEF ActorProps, ReturnDoc, Call
<1>6. CASE ActorStats BY <1>6 DEF ActorStats, ReturnDoc, Call
<1>7. CASE ActorPos BY <1>7, ReturnSays DEF ActorPos
<1>8. CASE ActorSelected BY <1>8, ReturnSays DEF ActorSelected, ReturnDoc, Call
<1>9. CASE MapDescribe BY <1>9 DEF MapDescribe, ReturnDoc, Call
<1>10. CASE ChatLog BY <1>10, ReturnSays DEF ChatLog
<1>11. CASE ResourceIsReady BY <1>11 DEF ResourceIsReady, Call
<1>12. CASE SyncActor BY <1>12 DEF SyncActor, Call
<1>13. ASSUME NEW op, ActorAuto(op) PROVE Silent
  BY <1>13, ReturnSays DEF ActorAuto
<1>14. ASSUME NEW op, ActorSelf(op) PROVE Silent
  BY <1>14, ReturnSays DEF ActorSelf
<1>15. ASSUME NEW op, ActorAttach(op) PROVE Silent
  BY <1>15, ReturnSays DEF ActorAttach
<1>16. ASSUME NEW op, SpellUse(1, op) PROVE Silent
  BY <1>16, ReturnSays DEF SpellUse
<1>17. ASSUME NEW text, NetLog(text) PROVE Silent
  BY <1>17 DEF NetLog
<1> QED BY <1>1, <1>2, <1>3, <1>4, <1>5, <1>6, <1>7, <1>8, <1>9, <1>10, <1>11, <1>12,
           <1>13, <1>14, <1>15, <1>16, <1>17

(* Every step keeps the invariant. *)
LEMMA PtrStep == ASSUME PtrInv, [Next]_vars PROVE PtrInv'
<1>1. CASE Turn /\ LastInv'
  BY <1>1 DEF Turn, PtrInv, HeldInv
<1>2. CASE Keep
  <2> DEFINE list == IF last.fn = "Inventory.all" THEN "items" ELSE "entities"
  <2>1. PICK i \in DOMAIN last.value :
          held' = [ptr |-> last.value[i].ptr, left |-> FALSE, list |-> list]
    BY <1>2 DEF Keep
  <2>2. last.value[i].ptr \in Ptrs(last.value) BY DEF Ptrs
  <2>3. game' = game /\ last' = last /\ last.fn \in {"Inventory.all", "Entity.all", "Entity.enemy"}
    BY <1>2 DEF Keep
  <2>4. list \in {"items", "entities"} OBVIOUS
  <2>5. last.value[i].ptr \in Ptrs(game[list])
    BY <2>2, <2>3 DEF PtrInv, LastInv, PointersLive
  <2> HIDE DEF list
  <2>6. held'.ptr \in Ptrs(game'[held'.list]) BY <2>1, <2>3, <2>5
  <2>7. HeldInv'
    <3>1. /\ held' = [ptr |-> held'.ptr, left |-> held'.left, list |-> held'.list]
          /\ held'.left \in BOOLEAN /\ held'.list \in {"items", "entities"}
      BY <2>1, <2>4
    <3> QED BY <2>6, <3>1 DEF HeldInv, Kept
  <2>8. LastInv' BY <2>1, <2>3 DEF PtrInv, LastInv, PointersLive, Ptrs
  <2> QED BY <2>3, <2>7, <2>8 DEF PtrInv
<1>3. CASE GameStep
  <2>1. LastInv' BY <1>3, SilentLive DEF GameStep, Silent, Nothing
  <2>2. HeldInv'
    <3>1. CASE held = None BY <1>3, <3>1 DEF GameStep, HeldInv, Kept
    <3>2. CASE held # None
      <4>1. held' = [ptr |-> held.ptr, list |-> held.list,
                     left |-> held.left \/ held.ptr \notin Ptrs(game'[held.list])]
        BY <1>3, <3>2 DEF GameStep, PtrInv, HeldInv, Kept
      <4>2. held.left \in BOOLEAN /\ held.list \in {"items", "entities"}
        BY <3>2 DEF PtrInv, HeldInv, Kept
      <4> QED BY <4>1, <4>2 DEF HeldInv, Kept
    <3> QED BY <3>1, <3>2
  <2> QED BY <1>3, <2>1, <2>2 DEF GameStep, PtrInv
<1>4. CASE UNCHANGED vars
  <2>1. game' = game /\ held' = held /\ last' = last BY <1>4 DEF vars
  <2>2. HeldInv' BY <2>1 DEF PtrInv, HeldInv
  <2>3. LastInv' BY <2>1 DEF PtrInv, LastInv, PointersLive
  <2> QED BY <2>1, <2>2, <2>3 DEF PtrInv
<1>5. CASE Script /\ ~Keep
  <2>1. Turn BY <1>5, ScriptTurn
  <2>2. LastInv'
    BY <1>5, OthersSilent, SilentLive, ItemsLive, EntitiesLive, HeldLive, UseByIdLive DEF Script
  <2> QED BY <1>1, <2>1, <2>2
<1>6. CASE SyncActor BY <1>1, <1>6, SyncTurn, OthersSilent, SilentLive
<1> QED BY <1>2, <1>3, <1>4, <1>5, <1>6 DEF Next

(***************************************************************************)
(* For every set of games and every script: Inventory.all, Entity.all and  *)
(* Entity.enemy name only what is there, Inventory.useById uses only what  *)
(* is there, and the game is handed a pointer whose object has gone only   *)
(* by a script that kept it over the turn in which it went                 *)
(* (inventory.cpp, entity.cpp, Actor::select).                             *)
(***************************************************************************)
THEOREM PointersLiveAlways == Spec => []PointersLive
<1>1. Init => PtrInv
  BY DEF Init, PtrInv, HeldInv, Kept, LastInv, PointersLive, Nothing
<1>2. PtrInv /\ [Next]_vars => PtrInv'
  BY PtrStep
<1>3. PtrInv => PointersLive
  BY DEF PtrInv, LastInv
<1> QED BY <1>1, <1>2, <1>3, PTL DEF Spec
(* The state's types. *)
THEOREM TypeCorrect == Spec => []TypeOK
<1>1. Init => ReadyInv /\ PtrInv
  <2>1. Init => ReadyInv BY DEF Init, ReadyInv
  <2>2. Init => PtrInv
    BY DEF Init, PtrInv, HeldInv, Kept, LastInv, PointersLive, Nothing
  <2> QED BY <2>1, <2>2
<1>2. ReadyInv /\ PtrInv /\ [Next]_vars => (ReadyInv /\ PtrInv)'
  BY ReadyStep, PtrStep
<1>3. ReadyInv /\ PtrInv => TypeOK
  BY DEF ReadyInv, PtrInv, HeldInv, Kept, TypeOK
<1> QED BY <1>1, <1>2, <1>3, PTL DEF Spec

-----------------------------------------------------------------------------
(* What becomes of numbers *)

LEMMA Widths ==
  /\ IntMax \in Nat /\ IntMax >= 2 /\ Second \in Nat \ {0} /\ MaxKeep \in 0..IntMax
  /\ Wide \in Nat /\ Wide > 2 * IntMax + 1 /\ Wide > Second * IntMax
BY WidthAssumption

(* A quotient is determined by its bounds. *)
LEMMA Remainder ==
  ASSUME NEW n \in Nat \ {0}, NEW q \in Int, NEW r \in 0..(n - 1)
  PROVE  (n * q + r) % n = r /\ (n * q + r) \div n = q
OBVIOUS

(* A uint64_t pushed as a lua_Integer is the same number modulo 2^64. *)
LEMMA IntegerKept == ASSUME NEW x \in UInt64 PROVE LuaInteger(x) % Wide = x
<1>1. Wide \in Nat \ {0} /\ x \in 0..(Wide - 1) BY Widths DEF UInt64
<1>2. (Wide * 0 + x) % Wide = x /\ (Wide * (-1) + x) % Wide = x BY <1>1, Remainder
<1>3. Wide * 0 + x = x /\ Wide * (-1) + x = x - Wide BY <1>1
<1> QED BY <1>2, <1>3 DEF LuaInteger
(* int: the low bits are in its range, and those of a number in its range  *)
(* are that number.                                                        *)
LEMMA ToIntRange == ASSUME NEW x \in Int PROVE ToInt(x) \in Int32
<1>1. x % (2 * IntMax + 2) \in 0..(2 * IntMax + 1) BY Widths
<1> QED BY <1>1, Widths DEF ToInt, Int32

LEMMA ToIntSmall == ASSUME NEW x \in 0..IntMax PROVE ToInt(x) = x
<1> DEFINE n == 2 * IntMax + 2
<1>1. x \in 0..(n - 1) /\ n \in Nat \ {0} BY Widths
<1>2. (n * 0 + x) % n = x
  <2> HIDE DEF n
  <2> QED BY <1>1, Remainder
<1>3. x % n = x
  <2> HIDE DEF n
  <2> QED BY <1>1, <1>2
<1> QED BY <1>3, Widths DEF ToInt

(* Ticks divided into seconds. *)
LEMMA Seconds ==
  ASSUME NEW ticks \in Nat PROVE ticks \div Second \in Nat
BY Widths

LEMMA SecondsSmall ==
  ASSUME NEW ticks \in 0..(Second * IntMax) PROVE ticks \div Second \in 0..IntMax
<1> DEFINE q == ticks \div Second
<1>1. q \in Nat /\ Second * q =< ticks BY Widths
<1>2. CASE q > IntMax
  <2>1. Second * q >= Second * (IntMax + 1) BY <1>1, <1>2, Widths
  <2> QED BY <1>1, <2>1, Widths
<1> QED BY <1>1, <1>2, Widths

(* The time left of a buff, as Buff::getAll works it out. *)
LEMMA SurplusTrue ==
  ASSUME NEW i \in DOMAIN game.buffs, game \in Games
  PROVE  BuffDoc(game, game.buffs[i]).surplus \in TimeLeft(game.buffs[i]) \cap Int32
<1> DEFINE b == game.buffs[i]
           past == (b.tick - BootTick(game)) % Wide
           left == ToInt(past \div Second)
<1>1. b.keep \in Int32 /\ b.tick \in UInt64 /\ game.bootTick \in UInt64
  BY GamesAssumption DEF WellFormed
<1>2. BuffDoc(game, b).surplus = IF b.keep \notin 0..MaxKeep THEN -1 ELSE left
  BY <1>1, Widths DEF BuffDoc, ++, Int32
<1>3. BootTick(game) \in UInt64 BY <1>1, Widths DEF BootTick, UInt64
<1>4. past \in Nat BY <1>1, <1>3, Widths DEF UInt64
<1>5. left \in Int32 BY <1>4, Seconds, ToIntRange
<1>6. ASSUME "GameLoop" \in game.up, b.tick - game.bootTick \in 0..(Second * IntMax)
      PROVE  left = (b.tick - game.bootTick) \div Second
  <2> DEFINE t == b.tick - game.bootTick
  <2>1. t \in 0..(Wide - 1) BY <1>6, Widths
  <2>2. BootTick(game) = game.bootTick BY <1>6 DEF BootTick
  <2>3. (Wide * 0 + t) % Wide = t BY <2>1, Widths, Remainder
  <2>4. past = t BY <2>1, <2>2, <2>3, Widths
  <2>5. t \div Second \in 0..IntMax BY <1>6, SecondsSmall
  <2> QED BY <2>4, <2>5, ToIntSmall
<1> HIDE DEF left
<1>7. -1 \in Int32 BY Widths DEF Int32
<1> QED BY <1>1, <1>2, <1>5, <1>6, <1>7 DEF TimeLeft, Int32
(* A row that is found is one of the table, and never the last. *)
LEMMA RowFound ==
  ASSUME NEW g, NEW t, NEW key, Rows(g, t, key) # {}, Len(g.table[t]) \in Nat
  PROVE  \E m \in 1..Len(g.table[t]) : Row(g, t, key) = g.table[t][m]
<1>1. t \in g.up
  <2>1. CASE t \notin g.up
    <3>1. Table(g, t) = <<>> BY <2>1 DEF Table
    <3>2. 1..(Len(Table(g, t)) - 1) = {} BY <3>1
    <3> QED BY <3>2 DEF Rows
  <2> QED BY <2>1
<1>2. Table(g, t) = g.table[t] BY <1>1 DEF Table
<1>3. Rows(g, t, key) \subseteq 1..Len(g.table[t]) BY <1>2 DEF Rows
<1> QED BY <1>2, <1>3 DEF Row

LEMMA NameIdRange ==
  ASSUME NEW g \in Games, NEW t \in {"ItemClass", "BuffCard", "SpellClass"}, NEW key
  PROVE  NameId(g, t, key) \in Int32
<1>1. /\ Len(g.table[t]) \in Nat
      /\ \A m \in 1..Len(g.table[t]) : g.table[t][m].nameId \in Int32
  BY GamesAssumption DEF WellFormed
<1>2. 0 \in Int32 BY Widths DEF Int32
<1> QED BY <1>1, <1>2, RowFound DEF NameId

(* The members of two parts of a document. *)
LEMMA Joined ==
  ASSUME NEW f, NEW h
  PROVE  /\ DOMAIN (f ++ h) = DOMAIN f \cup DOMAIN h
         /\ \A x \in DOMAIN f : (f ++ h)[x] = f[x]
         /\ \A x \in (DOMAIN h) \ DOMAIN f : (f ++ h)[x] = h[x]
BY DEF ++

LEMMA NamedMembers ==
  ASSUME NEW g, NEW nameId
  PROVE  /\ DOMAIN Named(g, nameId) = {"nameId", "name"}
         /\ Named(g, nameId).nameId = nameId
BY DEF Named

(* Every getter used on an item fits, and its count is the game's. *)
LEMMA ItemFits ==
  ASSUME game \in Games, NEW i \in DOMAIN Items(game)
  PROVE  /\ Fits(Items(game)[i], ItemReads(Items(game)[i]))
         /\ Items(game)[i].count = game.items[i].count /\ game.items[i].count \in UInt64
<1> DEFINE item == game.items[i]
           nameId == NameId(game, "ItemClass", item.itemId)
           doc == item ++ Named(game, nameId)
<1>1. /\ item \in [ptr : Int32, itemId : Int32, categoryId : Int32, count : UInt64]
      /\ Items(game)[i] = doc
  BY GamesAssumption DEF WellFormed, Items, ItemDoc
<1>2. nameId \in Int32 BY NameIdRange
<1>3. DOMAIN item = {"ptr", "itemId", "categoryId", "count"} BY <1>1
<1>4. /\ DOMAIN doc = {"ptr", "itemId", "categoryId", "count", "nameId", "name"}
      /\ doc.ptr = item.ptr /\ doc.itemId = item.itemId
      /\ doc.categoryId = item.categoryId /\ doc.count = item.count
      /\ doc.nameId = nameId
  <2> DEFINE more == Named(game, nameId)
  <2>1. DOMAIN more = {"nameId", "name"} /\ more.nameId = nameId BY NamedMembers
  <2>2. /\ DOMAIN doc = DOMAIN item \cup DOMAIN more
        /\ \A x \in DOMAIN item : doc[x] = item[x]
        /\ \A x \in (DOMAIN more) \ DOMAIN item : doc[x] = more[x]
    BY Joined
  <2> HIDE DEF item, nameId, more, doc
  <2> QED BY <1>3, <2>1, <2>2
<1>5. item.count >= 0 BY <1>1, Widths DEF UInt64
<1> HIDE DEF item, nameId, doc
<1>6. Fits(doc, ItemReads(doc))
  BY <1>1, <1>2, <1>4, <1>5 DEF Fits, ItemReads, Int32
<1> QED BY <1>1, <1>4, <1>6 DEF item
(* A document whose members read as int are in int's range, and those read *)
(* as uint64_t not negative, with the members there are.                   *)
LEMMA BuffFits ==
  ASSUME game \in Games, NEW i \in DOMAIN Buffs(game)
  PROVE  /\ Fits(Buffs(game)[i], BuffReads(Buffs(game)[i]))
         /\ i \in DOMAIN game.buffs
         /\ Buffs(game)[i].surplus \in TimeLeft(game.buffs[i])
<1> DEFINE b == game.buffs[i]
           doc == BuffDoc(game, b)
           more == Named(game, b.nameId)
<1>1. /\ i \in DOMAIN game.buffs /\ Buffs(game)[i] = doc
      /\ b.buffId \in Int32 /\ b.nameId \in Int32 /\ b.keep \in Int32
  BY GamesAssumption DEF WellFormed, Buffs
<1>2. doc.surplus \in TimeLeft(b) \cap Int32 BY <1>1, SurplusTrue
<1>3. DOMAIN more = {"nameId", "name"} /\ more.nameId = b.nameId BY NamedMembers
<1>4. /\ DOMAIN doc = {"buffId", "keep", "surplus", "nameId", "name"}
      /\ doc.buffId = b.buffId /\ doc.nameId = b.nameId
      /\ doc.keep = IF b.keep > MaxKeep THEN -1 ELSE b.keep
  <2> HIDE DEF b
  <2> QED BY <1>3 DEF BuffDoc, ++
<1>5. doc.keep \in Int32 BY <1>1, <1>4, Widths DEF Int32
<1> HIDE DEF doc, b
<1>6. Fits(doc, BuffReads(doc))
  BY <1>1, <1>2, <1>4, <1>5 DEF Fits, BuffReads, Int32
<1> QED BY <1>1, <1>2, <1>6 DEF b

LEMMA CardFits ==
  ASSUME game \in Games, NEW i \in DOMAIN Cards(game)
  PROVE  Fits(Cards(game)[i], CardReads(Cards(game)[i]))
<1> DEFINE nameId == NameId(game, "BuffCard", game.cards[i])
           doc == Cards(game)[i]
           more == Named(game, nameId)
           head == [cardId |-> game.cards[i]]
<1>1. doc = head ++ more /\ game.cards[i] \in Int32
  BY GamesAssumption DEF WellFormed, Cards, CardDoc
<1>2. nameId \in Int32 BY NameIdRange
<1>3. DOMAIN more = {"nameId", "name"} /\ more.nameId = nameId BY NamedMembers
<1> HIDE DEF nameId, more, doc
<1>4. DOMAIN doc = {"cardId", "nameId", "name"} /\ doc.cardId = game.cards[i] /\ doc.nameId = nameId
  BY <1>1, <1>3 DEF ++
<1>5. Fits(doc, CardReads(doc)) BY <1>1, <1>2, <1>4 DEF Fits, CardReads, Int32
<1> QED BY <1>5 DEF doc

(* Where there is no clan, or one of level 0, there is no level to read.   *)
LEMMA EntityFits ==
  ASSUME game \in Games, NEW e, \E i \in DOMAIN game.entities : e = game.entities[i]
  PROVE  Fits(EntityDoc(e), EntityWarp(EntityDoc(e)))
<1> DEFINE head == [f \in {"ptr", "name", "jobName", "type", "id"} |-> e[f]]
           pos == IF e.pos = None THEN [x |-> 0, y |-> 0] ELSE e.pos
           has == e.clan # None /\ e.clan.lv # 0
           clan == IF has THEN [lv |-> e.clan.lv, clanName |-> e.clan.name] ELSE << >>
           front == head ++ pos
           doc == EntityDoc(e)
<1>1. /\ e.ptr \in Int32 /\ e.type \in Int32 /\ e.id \in UInt64
      /\ e.pos = None \/ e.pos \in [x : Int32, y : Int32]
      /\ e.clan = None \/ e.clan.lv \in Int32
  BY GamesAssumption DEF WellFormed
<1>2. 0 \in Int32 /\ \A x \in UInt64 : x >= 0 BY Widths DEF Int32, UInt64
<1>3. DOMAIN pos = {"x", "y"} /\ pos.x \in Int32 /\ pos.y \in Int32 BY <1>1, <1>2
<1>4. DOMAIN << >> = {} OBVIOUS
<1>5. /\ DOMAIN clan = IF has THEN {"lv", "clanName"} ELSE {}
      /\ has => clan.lv \in Int32
  BY <1>1, <1>4
<1>6. doc = front ++ clan BY DEF EntityDoc
<1>7. /\ DOMAIN front = {"ptr", "name", "jobName", "type", "id", "x", "y"}
      /\ front.ptr = e.ptr /\ front.type = e.type /\ front.id = e.id
      /\ front.x = pos.x /\ front.y = pos.y
  <2>1. /\ DOMAIN head = {"ptr", "name", "jobName", "type", "id"}
        /\ head.ptr = e.ptr /\ head.type = e.type /\ head.id = e.id
    OBVIOUS
  <2> HIDE DEF has, pos, clan, head
  <2>2. /\ DOMAIN front = DOMAIN head \cup DOMAIN pos
        /\ \A x \in DOMAIN head : front[x] = head[x]
        /\ \A x \in (DOMAIN pos) \ DOMAIN head : front[x] = pos[x]
    BY Joined
  <2> HIDE DEF front
  <2> QED BY <1>3, <2>1, <2>2
<1> HIDE DEF has, pos, clan, doc, front
<1>8. /\ DOMAIN doc = {"ptr", "name", "jobName", "type", "id", "x", "y"} \cup DOMAIN clan
      /\ \A x \in DOMAIN front : doc[x] = front[x]
      /\ \A x \in (DOMAIN clan) \ DOMAIN front : doc[x] = clan[x]
  <2>1. /\ DOMAIN (front ++ clan) = (DOMAIN front) \cup DOMAIN clan
        /\ \A x \in DOMAIN front : (front ++ clan)[x] = front[x]
        /\ \A x \in (DOMAIN clan) \ DOMAIN front : (front ++ clan)[x] = clan[x]
    BY Joined
  <2>2. /\ DOMAIN doc = (DOMAIN front) \cup DOMAIN clan
        /\ \A x \in DOMAIN front : doc[x] = front[x]
        /\ \A x \in (DOMAIN clan) \ DOMAIN front : doc[x] = clan[x]
    BY <1>6, <2>1
  <2> QED BY <1>7, <2>2
<1>9. /\ doc.ptr = e.ptr /\ doc.type = e.type /\ doc.id = e.id
      /\ doc.x = pos.x /\ doc.y = pos.y
  BY <1>7, <1>8
<1>10. has => doc.lv = clan.lv BY <1>5, <1>7, <1>8
<1>11. Fits(doc, EntityWarp(doc))
  BY <1>1, <1>2, <1>3, <1>5, <1>8, <1>9, <1>10 DEF Fits, EntityWarp, Int32
<1> QED BY <1>11 DEF doc
LEMMA SpellFits ==
  ASSUME game \in Games, NEW id \in SpellIds(game)
  PROVE  Fits(SpellDoc(game, id), SpellReads(SpellDoc(game, id)))
<1> DEFINE class == Row(game, "SpellClass", id)
           own == {"common", "level", "spellType", "materialId", "materialCount",
                   "useHp", "useMp"}
           head == [f \in (DOMAIN class) \ {"key", "nameId"} |-> class[f]]
           mine == [spellId |-> id, learned |-> IF id \in game.learned THEN 1 ELSE 0]
           front == head ++ mine
           more == Named(game, class.nameId)
           doc == SpellDoc(game, id)
<1>1. /\ Len(game.table["SpellClass"]) \in Nat
      /\ \A m \in 1..Len(game.table["SpellClass"]) : game.table["SpellClass"][m] \in
           [key : Int32, nameId : Int32, common : Int32, level : Int32, spellType : Int32,
            materialId : Int32, materialCount : Int32, useHp : Int32, useMp : Int32]
      /\ \A m \in DOMAIN game.table["SpellLearnLimit"] :
           game.table["SpellLearnLimit"][m].spellId \in Int32
  BY GamesAssumption DEF WellFormed
<1>2. Rows(game, "SpellClass", id) # {} /\ id \in Int32
  <2>1. PICK row \in ToSet(Table(game, "SpellLearnLimit")) :
          id = row.spellId /\ Rows(game, "SpellClass", row.spellId) # {}
    BY DEF SpellIds
  <2>2. row \in ToSet(game.table["SpellLearnLimit"])
    BY <2>1 DEF Table, ToSet
  <2> QED BY <1>1, <2>1, <2>2 DEF ToSet
<1>3. class \in [key : Int32, nameId : Int32, common : Int32, level : Int32, spellType : Int32,
                 materialId : Int32, materialCount : Int32, useHp : Int32, useMp : Int32]
  BY <1>1, <1>2, RowFound
<1>4. doc = front ++ more BY DEF SpellDoc
<1> HIDE DEF class
<1>5. DOMAIN head = own /\ \A f \in own : head[f] \in Int32 BY <1>3
<1>6. /\ DOMAIN mine = {"spellId", "learned"} /\ mine.spellId = id
      /\ mine.learned \in Int32
  BY Widths DEF Int32
<1>7. /\ DOMAIN more = {"nameId", "name"} /\ more.nameId \in Int32
  BY <1>3, NamedMembers
<1> HIDE DEF head, mine
<1>8. /\ DOMAIN front = own \cup {"spellId", "learned"}
      /\ \A f \in DOMAIN front : front[f] \in Int32
  <2>1. /\ DOMAIN front = (DOMAIN head) \cup DOMAIN mine
        /\ \A x \in DOMAIN head : front[x] = head[x]
        /\ \A x \in (DOMAIN mine) \ DOMAIN head : front[x] = mine[x]
    BY Joined
  <2> HIDE DEF front
  <2> QED BY <1>2, <1>5, <1>6, <2>1
<1> HIDE DEF front, more, doc
<1>9. /\ DOMAIN doc = own \cup {"spellId", "learned", "nameId", "name"}
      /\ \A f \in DOMAIN doc : f = "name" \/ doc[f] \in Int32
  <2>1. /\ DOMAIN (front ++ more) = (DOMAIN front) \cup DOMAIN more
        /\ \A x \in DOMAIN front : (front ++ more)[x] = front[x]
        /\ \A x \in (DOMAIN more) \ DOMAIN front : (front ++ more)[x] = more[x]
    BY Joined
  <2>2. /\ DOMAIN doc = (DOMAIN front) \cup DOMAIN more
        /\ \A x \in DOMAIN front : doc[x] = front[x]
        /\ \A x \in (DOMAIN more) \ DOMAIN front : doc[x] = more[x]
    BY <1>4, <2>1
  <2>3. ASSUME NEW f \in DOMAIN doc, f # "name" PROVE doc[f] \in Int32
    BY <1>7, <1>8, <2>2, <2>3
  <2> QED BY <1>7, <1>8, <2>2, <2>3
<1>10. Fits(doc, SpellReads(doc)) BY <1>9 DEF Fits, SpellReads, Int32
<1> QED BY <1>10 DEF doc

(* Every prop is a uint64_t; only the job, if it is negative, does not fit. *)
LEMMA PropsFit ==
  ASSUME game \in Games, game.job >= 0
  PROVE  Fits(Props(game), PropReads(Props(game)))
<1> DEFINE keys == {PropKey(id) : id \in DOMAIN game.props}
           head == [k \in keys |-> game.props[CHOOSE id \in DOMAIN game.props : PropKey(id) = k]]
           more == [Job |-> game.job]
           doc == Props(game)
<1>1. \A k \in DOMAIN game.props : game.props[k] >= 0
  BY GamesAssumption, Widths DEF WellFormed, UInt64
<1>2. \A k \in keys : head[k] >= 0
  <2> SUFFICES ASSUME NEW k \in keys PROVE head[k] >= 0 OBVIOUS
  <2>1. \E id \in DOMAIN game.props : PropKey(id) = k OBVIOUS
  <2>2. (CHOOSE id \in DOMAIN game.props : PropKey(id) = k) \in DOMAIN game.props BY <2>1
  <2> QED BY <1>1, <2>2
<1>3. doc = head ++ more /\ DOMAIN head = keys BY DEF Props
<1>4. DOMAIN more = {"Job"} /\ more.Job >= 0 OBVIOUS
<1> HIDE DEF keys, head, more, doc
<1>5. \A f \in DOMAIN doc : doc[f] >= 0 BY <1>2, <1>3, <1>4 DEF ++
<1>6. Fits(doc, PropReads(doc)) BY <1>5 DEF Fits, PropReads
<1> QED BY <1>6 DEF doc

LEMMA StatsFit ==
  ASSUME game \in Games PROVE Fits(Stats(game), StatReads(Stats(game)))
<1>1. \A k \in DOMAIN game.stats : game.stats[k] \in Int32
  BY GamesAssumption DEF WellFormed
<1>2. ASSUME NEW k \in DOMAIN Stats(game) PROVE Stats(game)[k] \in Int32
  <2>1. \E id \in DOMAIN game.stats : ToString(id) = k BY DEF Stats
  <2>2. (CHOOSE id \in DOMAIN game.stats : ToString(id) = k) \in DOMAIN game.stats BY <2>1
  <2>3. Stats(game)[k] = game.stats[CHOOSE id \in DOMAIN game.stats : ToString(id) = k]
    BY DEF Stats
  <2> QED BY <1>1, <2>2, <2>3
<1> QED BY <1>2 DEF Fits, StatReads, Int32

LEMMA MapFits ==
  ASSUME game \in Games PROVE Fits(Describe(game), MapReads(Describe(game)))
<1> DEFINE doc == Describe(game)
<1>1. /\ game.world # None => game.world.id \in Int32
      /\ game.area # None => game.area.id \in Int32
  BY GamesAssumption DEF WellFormed
<1>2. /\ DOMAIN doc = {"worldId", "worldName", "areaId", "areaName", "tag"}
      /\ doc.worldId = IF game.world = None THEN -1 ELSE game.world.id
      /\ doc.areaId = IF game.area = None THEN -1 ELSE game.area.id
      /\ doc.tag \in {0, 1, 2}
  BY DEF Describe
<1>3. -1 \in Int32 BY Widths DEF Int32
<1>4. {0, 1, 2} \subseteq Int32 BY Widths DEF Int32
<1> HIDE DEF doc
<1>5. doc.worldId \in Int32 /\ doc.areaId \in Int32 /\ doc.tag \in Int32
  BY <1>1, <1>2, <1>3, <1>4
<1>6. Fits(doc, MapReads(doc)) BY <1>2, <1>5 DEF Fits, MapReads, Int32
<1> QED BY <1>6 DEF doc
(* The invariant, its parts named. *)
GettersFit == fault = {"getter"} => game.job < 0
CountsTrue ==
  last.fn = "Inventory.all" =>
    \A i \in DOMAIN game.items : last.value[i].count % Wide = game.items[i].count
TimesTrue ==
  last.fn = "Buff.all" =>
    \A i \in DOMAIN game.buffs : last.value[i].surplus \in TimeLeft(game.buffs[i])
NumInv == game \in Games /\ GettersFit /\ CountsTrue /\ TimesTrue

(* No call uses a getter that does not fit, where the job is none below 0. *)
LEMMA CallGetters ==
  ASSUME game \in Games, \/ Script /\ ~Keep
                         \/ SyncActor
  PROVE  GettersFit'
<1> SUFFICES ASSUME game.job >= 0 PROVE fault' # {"getter"}
  <2>1. game' = game BY ScriptTurn, SyncTurn DEF Turn
  <2>2. game.job \in Int BY GamesAssumption, Widths DEF WellFormed, Int32
  <2> QED BY <2>1, <2>2 DEF GettersFit
<1>1. ASSUME NEW fn, NEW need, NEW value, NEW told, Return(fn, need, value, told),
             "getter" \notin need
      PROVE  fault' # {"getter"}
  BY <1>1 DEF Return, Call
<1>2. CASE InventoryAll BY <1>2, ItemFits DEF InventoryAll, ReturnDocs, Call
<1>3. CASE BuffAll BY <1>3, BuffFits DEF BuffAll, ReturnDocs, Call
<1>4. CASE CardAll BY <1>4, CardFits DEF CardAll, ReturnDocs, Call
<1>5. ASSUME NEW seq, NEW i \in DOMAIN Entities(seq), i \in DOMAIN seq,
             \E j \in DOMAIN game.entities : seq[i] = game.entities[j]
      PROVE  Fits(Entities(seq)[i], EntityWarp(Entities(seq)[i]))
  BY <1>5, EntityFits DEF Entities
<1>6. CASE EntityAll
  <2>1. \A i \in DOMAIN Entities(game.entities) :
          Fits(Entities(game.entities)[i], EntityWarp(Entities(game.entities)[i]))
    BY <1>5 DEF Entities
  <2> QED BY <1>6, <2>1 DEF EntityAll, ReturnDocs, Call
<1>7. CASE EntityEnemy
  <2>1. \A i \in DOMAIN Entities(Enemies(game)) :
          Fits(Entities(Enemies(game))[i], EntityWarp(Entities(Enemies(game))[i]))
    <3> SUFFICES ASSUME NEW i \in DOMAIN Entities(Enemies(game))
                 PROVE  Fits(Entities(Enemies(game))[i], EntityWarp(Entities(Enemies(game))[i]))
      OBVIOUS
    <3>1. i \in DOMAIN Enemies(game) BY DEF Entities
    <3>2. i[2] \in DOMAIN game.entities /\ Enemies(game)[i] = game.entities[i[2]]
      BY <3>1 DEF Enemies
    <3> QED BY <1>5, <3>1, <3>2
  <2> QED BY <1>7, <2>1 DEF EntityEnemy, ReturnDocs, Call
<1>8. CASE SpellAll
  <2> DEFINE keys == {ToString(id) : id \in SpellIds(game)}
             doc(k) == SpellDoc(game, CHOOSE id \in SpellIds(game) : ToString(id) = k)
  <2>1. ASSUME NEW k \in keys PROVE Fits(doc(k), SpellReads(doc(k)))
    <3>1. \E id \in SpellIds(game) : ToString(id) = k OBVIOUS
    <3>2. (CHOOSE id \in SpellIds(game) : ToString(id) = k) \in SpellIds(game) BY <3>1
    <3> QED BY <3>2, SpellFits
  <2> QED BY <1>8, <2>1 DEF SpellAll, ReturnDocs, Call
<1>9. CASE ActorProps BY <1>9, PropsFit DEF ActorProps, ReturnDoc, Call
<1>10. CASE ActorStats BY <1>10, StatsFit DEF ActorStats, ReturnDoc, Call
<1>11. CASE ActorSelected
  <2> DEFINE with == WithId(game, game.selected)
  <2>1. CASE game.selected = None \/ with = {}
    BY <1>1, <1>11, <2>1 DEF ActorSelected
  <2>2. CASE ~(game.selected = None \/ with = {})
    <3>1. with \subseteq Nat BY GamesAssumption DEF WellFormed, WithId
    <3>2. Min(with) \in DOMAIN game.entities BY <2>2, <3>1, LeastIn DEF WithId
    <3>3. Fits(EntityDoc(game.entities[Min(with)]), EntityWarp(EntityDoc(game.entities[Min(with)])))
      BY <3>2, EntityFits
    <3> HIDE DEF with
    <3>4. ReturnDoc("Actor.selected", {"SelectedObjectManager", "UserObject"},
                    EntityDoc(game.entities[Min(with)]), EntityWarp)
      BY <1>11, <2>2 DEF ActorSelected, with
    <3> QED BY <3>3, <3>4 DEF ReturnDoc, Call
  <2> QED BY <2>1, <2>2
<1>12. CASE MapDescribe BY <1>12, MapFits DEF MapDescribe, ReturnDoc, Call
<1>13. CASE ResourceIsReady BY <1>13 DEF ResourceIsReady, Call
<1>14. CASE SyncActor BY <1>14, PropsFit DEF SyncActor, Call
<1>15. CASE \/ InventoryLimit \/ InventoryUseByPtr \/ ActorPos \/ ActorSelect \/ ChatLog
            \/ \E itemId : InventoryUseById(itemId)
            \/ \E op : ActorAuto(op) \/ ActorSelf(op) \/ ActorAttach(op) \/ SpellUse(1, op)
  BY <1>1, <1>15 DEF InventoryLimit, InventoryUseByPtr, ActorPos, ActorSelect, ChatLog,
     InventoryUseById, ActorAuto, ActorSelf, ActorAttach, SpellUse
<1>16. CASE \E text : NetLog(text) BY <1>16 DEF NetLog
<1> QED BY <1>2, <1>3, <1>4, <1>6, <1>7, <1>8, <1>9, <1>10, <1>11, <1>12, <1>13, <1>14, <1>15,
           <1>16 DEF Script
(* What the inventory and the buffs are returned as. *)
LEMMA ItemsCounted == ASSUME game \in Games, InventoryAll PROVE (CountsTrue /\ TimesTrue)'
<1>1. /\ game' = game
      /\ \/ last' = Nothing
         \/ last' = [fn |-> "Inventory.all", told |-> None,
                     value |-> [i \in DOMAIN Items(game) |->
                                  Copy(Items(game)[i], ItemReads(Items(game)[i]))]]
  BY DEF InventoryAll, ReturnDocs, Call, Stays
<1>2. ASSUME NEW i \in DOMAIN game.items
      PROVE  Copy(Items(game)[i], ItemReads(Items(game)[i])).count % Wide = game.items[i].count
  <2>1. i \in DOMAIN Items(game) BY DEF Items
  <2>2. /\ Items(game)[i].count = game.items[i].count
        /\ game.items[i].count \in UInt64
    BY <2>1, ItemFits
  <2>3. Copy(Items(game)[i], ItemReads(Items(game)[i])).count = LuaInteger(Items(game)[i].count)
    BY DEF Copy, ItemReads
  <2> QED BY <2>2, <2>3, IntegerKept
<1>3. DOMAIN Items(game) = DOMAIN game.items BY DEF Items
<1> QED BY <1>1, <1>2, <1>3 DEF CountsTrue, TimesTrue, Nothing

LEMMA BuffsTimed == ASSUME game \in Games, BuffAll PROVE (CountsTrue /\ TimesTrue)'
<1>1. /\ game' = game
      /\ \/ last' = Nothing
         \/ last' = [fn |-> "Buff.all", told |-> None,
                     value |-> [i \in DOMAIN Buffs(game) |->
                                  Copy(Buffs(game)[i], BuffReads(Buffs(game)[i]))]]
  BY DEF BuffAll, ReturnDocs, Call, Stays
<1>2. ASSUME NEW i \in DOMAIN game.buffs
      PROVE  Copy(Buffs(game)[i], BuffReads(Buffs(game)[i])).surplus \in TimeLeft(game.buffs[i])
  <2>1. i \in DOMAIN Buffs(game) BY DEF Buffs
  <2>2. Buffs(game)[i].surplus \in TimeLeft(game.buffs[i]) BY <2>1, BuffFits
  <2>3. Copy(Buffs(game)[i], BuffReads(Buffs(game)[i])).surplus = Buffs(game)[i].surplus
    BY DEF Copy, BuffReads
  <2> QED BY <2>2, <2>3
<1>3. DOMAIN Buffs(game) = DOMAIN game.buffs BY DEF Buffs
<1>4. \A i \in DOMAIN game.buffs : (TimeLeft(game.buffs[i]))' = TimeLeft(game.buffs[i])
  BY <1>1 DEF TimeLeft
<1>5. CountsTrue' BY <1>1 DEF CountsTrue, Nothing
<1>6. TimesTrue' BY <1>1, <1>2, <1>3, <1>4 DEF TimesTrue, Nothing
<1> QED BY <1>5, <1>6

(* No other call returns either. *)
LEMMA OthersCountless ==
  ASSUME Script \/ SyncActor, ~Keep, ~InventoryAll, ~BuffAll PROVE (CountsTrue /\ TimesTrue)'
<1> SUFFICES last'.fn \notin {"Inventory.all", "Buff.all"} BY DEF CountsTrue, TimesTrue
<1> USE DEF Nothing
<1>1. CASE InventoryLimit \/ InventoryUseByPtr \/ ActorPos \/ ActorSelect \/ ChatLog
  BY <1>1, ReturnSays DEF InventoryLimit, InventoryUseByPtr, ActorPos, ActorSelect, ChatLog
<1>2. CASE CardAll BY <1>2 DEF CardAll, ReturnDocs, Call
<1>3. CASE EntityAll BY <1>3 DEF EntityAll, ReturnDocs, Call
<1>4. CASE EntityEnemy BY <1>4 DEF EntityEnemy, ReturnDocs, Call
<1>5. CASE SpellAll BY <1>5 DEF SpellAll, ReturnDocs, Call
<1>6. CASE ActorProps BY <1>6 DEF ActorProps, ReturnDoc, Call
<1>7. CASE ActorStats BY <1>7 DEF ActorStats, ReturnDoc, Call
<1>8. CASE ActorSelected BY <1>8, ReturnSays DEF ActorSelected, ReturnDoc, Call
<1>9. CASE MapDescribe BY <1>9 DEF MapDescribe, ReturnDoc, Call
<1>10. CASE ResourceIsReady BY <1>10 DEF ResourceIsReady, Call
<1>11. CASE SyncActor BY <1>11 DEF SyncActor, Call
<1>12. ASSUME NEW itemId, InventoryUseById(itemId) PROVE last'.fn \notin {"Inventory.all", "Buff.all"}
  BY <1>12, ReturnSays DEF InventoryUseById
<1>13. ASSUME NEW op, ActorAuto(op) \/ ActorSelf(op) \/ ActorAttach(op) \/ SpellUse(1, op)
       PROVE  last'.fn \notin {"Inventory.all", "Buff.all"}
  BY <1>13, ReturnSays DEF ActorAuto, ActorSelf, ActorAttach, SpellUse
<1>14. ASSUME NEW text, NetLog(text) PROVE last'.fn \notin {"Inventory.all", "Buff.all"}
  BY <1>14 DEF NetLog
<1> QED BY <1>1, <1>2, <1>3, <1>4, <1>5, <1>6, <1>7, <1>8, <1>9, <1>10, <1>11, <1>12, <1>13,
           <1>14 DEF Script

(* Every step keeps the invariant. *)
LEMMA NumStep == ASSUME NumInv, [Next]_vars PROVE NumInv'
<1>1. CASE game' = game /\ last' = last /\ fault' = fault
  <2>1. GettersFit' BY <1>1 DEF NumInv, GettersFit
  <2>2. CountsTrue' BY <1>1 DEF NumInv, CountsTrue
  <2>3. TimesTrue' BY <1>1 DEF NumInv, TimesTrue, TimeLeft
  <2> QED BY <1>1, <2>1, <2>2, <2>3 DEF NumInv
<1>2. CASE Keep BY <1>1, <1>2 DEF Keep
<1>3. CASE UNCHANGED vars BY <1>1, <1>3 DEF vars
<1>4. CASE GameStep BY <1>4 DEF GameStep, NumInv, GettersFit, CountsTrue, TimesTrue, Nothing
<1>5. CASE (Script \/ SyncActor) /\ ~Keep
  <2>1. game' \in Games BY <1>5, ScriptTurn, SyncTurn DEF NumInv, Turn
  <2>2. GettersFit' BY <1>5, CallGetters DEF NumInv
  <2>3. (CountsTrue /\ TimesTrue)'
    BY <1>5, ItemsCounted, BuffsTimed, OthersCountless DEF NumInv
  <2> QED BY <2>1, <2>2, <2>3 DEF NumInv
<1> QED BY <1>2, <1>3, <1>4, <1>5 DEF Next

(***************************************************************************)
(* For numbers of any width and every set of games: no getter is used out  *)
(* of its range but the one for a negative job, an item's count comes      *)
(* through uint64_t and lua_Integer, and a buff's time is its time         *)
(* (inventory.cpp, buff.cpp, api.cpp).                                     *)
(***************************************************************************)
THEOREM NumbersTrueAlways == Spec => []NumbersTrue
<1>1. Init => NumInv
  BY DEF Init, NumInv, GettersFit, CountsTrue, TimesTrue, Nothing
<1>2. NumInv /\ [Next]_vars => NumInv'
  BY NumStep
<1>3. NumInv => NumbersTrue
  BY DEF NumInv, GettersFit, CountsTrue, TimesTrue, NumbersTrue
<1> QED BY <1>1, <1>2, <1>3, PTL DEF Spec

=============================================================================
