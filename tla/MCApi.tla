------------------------------- MODULE MCApi -------------------------------
(* Games in which one or two things are missing or otherwise than usual.   *)
EXTENDS Api

Managers ==
  Checked \cup {"ClientDataManager", "SelectedObjectManager", "AutoSelector",
    "CharacterPlayManager", "PlayerInGameData", "Actor", "SpellLearnLimit", "GameLoop"}

(* An address above the middle is a negative int; a count may pass half    *)
(* of uint64_t.                                                            *)
Sword == [ptr |-> -3, itemId |-> 1, categoryId |-> 1, count |-> 1]
Coins == [ptr |-> 2, itemId |-> 3, categoryId |-> 2, count |-> 50]

(* The third has no position and a clan of level 0. *)
Knight == [ptr |-> 4, name |-> "k", jobName |-> "j", type |-> 1, id |-> 60,
           pos |-> [x |-> 1, y |-> -2], clan |-> [lv |-> 2, name |-> "c"]]
Wolf   == [Knight EXCEPT !.ptr = -5, !.id = 7, !.clan = None]
Elf    == [Wolf EXCEPT !.ptr = 6, !.pos = None, !.clan = [lv |-> 0, name |-> "c"]]

Class(key, nameId) ==
  [key |-> key, nameId |-> nameId, common |-> 0, level |-> 1, spellType |-> 2,
   materialId |-> 0, materialCount |-> 0, useHp |-> 0, useMp |-> 3]

Tables ==
  [DescData |-> <<[key |-> 1, name |-> "one"], [key |-> 2, name |-> "two"],
                  [key |-> 3, name |-> "last"]>>,
   ItemClass |-> <<[key |-> 1, nameId |-> 2], [key |-> 3, nameId |-> 1]>>,
   BuffCard |-> <<[key |-> 1, nameId |-> 1], [key |-> 2, nameId |-> 2]>>,
   SpellClass |-> <<Class(1, 1), Class(2, 3), Class(4, 2)>>,
   SpellLearnLimit |-> <<[spellId |-> 1, jobId |-> 1], [spellId |-> 2, jobId |-> 2],
                         [spellId |-> 4, jobId |-> 1], [spellId |-> 2, jobId |-> 1]>>]

Plain ==
  [up |-> Managers, table |-> Tables, limit |-> 5,
   items |-> <<Coins, Sword>>, entities |-> <<Knight, Wolf>>,
   enemies |-> <<7, None>>, selected |-> 60,
   buffs |-> <<[buffId |-> 1, nameId |-> 1, keep |-> 3, tick |-> 30],
               [buffId |-> 2, nameId |-> 2, keep |-> 6, tick |-> 40]>>,
   bootTick |-> 21, cards |-> <<1, 2>>, learned |-> {2}, job |-> 1,
   props |-> (0 :> 4 @@ 8 :> 50), stats |-> (1 :> -2),
   world |-> [id |-> 1, nameId |-> 1], area |-> None, safe |-> FALSE, fight |-> TRUE,
   actor |-> [x |-> 3, y |-> 4], mapId |-> 2,
   self |-> FALSE, auto |-> TRUE, attach |-> FALSE]

MCGames ==
  {Plain} \cup {[Plain EXCEPT !.up = @ \ {m}] : m \in Managers}
  \cup {[Plain EXCEPT !.up = {}],
        [Plain EXCEPT !.items = <<Coins>>, !.entities = <<Elf, Wolf>>],
        [Plain EXCEPT !.items = <<>>, !.entities = <<>>, !.enemies = <<>>],
        [Plain EXCEPT !.job = -1, !.selected = None, !.actor = None],
        [Plain EXCEPT !.bootTick = 35, !.area = [id |-> 2, nameId |-> 2],
                      !.world = None, !.safe = TRUE]}
=============================================================================
