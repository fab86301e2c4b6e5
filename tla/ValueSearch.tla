---------------------------- MODULE ValueSearch ----------------------------
(***************************************************************************)
(* Resource::getValuePtr (resource.cpp): the binary search for a record in *)
(* one of the game's static tables, an array of records sorted by key.     *)
(* Every name and every class of an item, spell or card comes through it.  *)
(*                                                                         *)
(* The array is a sequence of keys; position m of the code is m + 1 here.  *)
(***************************************************************************)
EXTENDS Integers, Sequences

CONSTANTS
  Tables,  \* the key columns a table can have
  Keys     \* what a caller may look for

(* The game keeps its tables sorted, one record for each key. *)
ASSUME TableAssumption ==
  /\ Keys \subseteq Int
  /\ Tables \subseteq Seq(Int)
  /\ \A t \in Tables : \A i, j \in 1..Len(t) : i < j => t[i] < t[j]

VARIABLES
  table,   \* the keys of the table
  loaded,  \* the table pointer is not NULL
  key,     \* the key looked for
  l, r,    \* the two bounds
  found,   \* the position of the record found, -1 for none
  vpc       \* where the call is: entry, loop, done

valueVars == <<table, loaded, key, l, r, found, vpc>>

Count == Len(table)
At(m) == table[m + 1]

(* (l + r) / 2, on two non-negative ints *)
Middle == (l + r) \div 2

ValueInit ==
  /\ table \in Tables /\ loaded \in BOOLEAN /\ key \in Keys
  /\ l = 0 /\ r = 0 /\ found = -1 /\ vpc = "entry"

-----------------------------------------------------------------------------
(* if (!table) return 0 *)
EnterNull ==
  /\ vpc = "entry" /\ ~loaded /\ vpc' = "done"
  /\ UNCHANGED <<table, loaded, key, l, r, found>>

(* r is the last position, -1 for an empty table. *)
Enter ==
  /\ vpc = "entry" /\ loaded /\ vpc' = "loop"
  /\ l' = 0 /\ r' = Count - 1
  /\ UNCHANGED <<table, loaded, key, found>>

(* while (l < r) ... break *)
Hit ==
  /\ vpc = "loop" /\ l < r /\ At(Middle) = key
  /\ found' = Middle /\ vpc' = "done"
  /\ UNCHANGED <<table, loaded, key, l, r>>

Right ==
  /\ vpc = "loop" /\ l < r /\ At(Middle) < key
  /\ l' = Middle + 1
  /\ UNCHANGED <<table, loaded, key, r, found, vpc>>

(* Mutant of Left: as if r were a position still to be tested. *)
LeftPast ==
  /\ vpc = "loop" /\ l < r /\ At(Middle) > key
  /\ r' = Middle - 1
  /\ UNCHANGED <<table, loaded, key, l, found, vpc>>

Left ==
  /\ vpc = "loop" /\ l < r /\ At(Middle) > key
  /\ r' = Middle
  /\ UNCHANGED <<table, loaded, key, l, found, vpc>>

(* The position l = r is left untested. *)
Miss ==
  /\ vpc = "loop" /\ l >= r /\ vpc' = "done"
  /\ UNCHANGED <<table, loaded, key, l, r, found>>

ValueNext == EnterNull \/ Enter \/ Hit \/ Right \/ Left \/ Miss

ValueSpec == ValueInit /\ [][ValueNext]_valueVars

-----------------------------------------------------------------------------
(* Correctness *)

(* Nothing outside the table is read: the middle of two bounds that have   *)
(* not met is a position of the table, the bounds themselves never leave   *)
(* it by more than one.                                                    *)
ValueTypeOK ==
  /\ table \in Tables /\ loaded \in BOOLEAN /\ key \in Keys
  /\ found \in -1..(Count - 1)
  /\ vpc \in {"entry", "loop", "done"}
  /\ l \in Nat /\ r \in Int
  /\ vpc = "loop" => l <= r + 1 /\ r < Count

(* A key of the table is found wherever its record is, except in the last  *)
(* place: r starts there, the loop never tests r, and every other r it has *)
(* was tested as a middle.  A key that is not in the table is not found.   *)
FindsAllButLast ==
  vpc = "done" =>
    IF loaded /\ \E m \in 0..(Count - 2) : At(m) = key
      THEN found >= 0 /\ At(found) = key
      ELSE found = -1

=============================================================================
