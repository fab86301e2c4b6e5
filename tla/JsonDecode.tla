----------------------------- MODULE JsonDecode -----------------------------
(***************************************************************************)
(* update_config (engine.cpp) and the JSON decoder under it (json2lua.cpp):*)
(* rapidjson's reader calls the handler for every token, the handler puts  *)
(* values on the Lua stack and stores them in the table below them.  The   *)
(* stack is the engine's own: nothing cleans up behind a mistake.          *)
(***************************************************************************)
EXTENDS Naturals, Sequences, FiniteSets

CONSTANTS
  Below,     \* what is on the stack before
  MaxTables, \* bound: objects and arrays in a document
  MaxCount   \* bound: members or elements of each

ASSUME BoundAssumption == Below \in Nat /\ MaxTables \in Nat /\ MaxCount \in Nat

VARIABLES
  stack,    \* the Lua stack: what each slot holds, and which table
  open,     \* the reader's open objects and arrays, outermost first
  context,  \* handler.context,
  outer,    \* and handler.stack, the contexts of what is around it
  writes,   \* how many values each table has been given; 0 is no table
  tops,     \* how many values the document has been given: at most one
  made,     \* how many tables it has had
  pc,       \* "reading", "one" and "two" for what decode returned, "done"
  peak,     \* the most slots the stack has had (history),
  deep      \* and the most objects and arrays open at once (history)

vars == <<stack, open, context, outer, writes, tops, made, pc, peak, deep>>

Slot(is) == [is |-> is, table |-> 0]
Table(id) == [is |-> "table", table |-> id]
NoContext == [fn |-> "none", index |-> 0]
Object == [fn |-> "object", index |-> 0]
Array == [fn |-> "array", index |-> 0]

Init ==
  /\ stack = [i \in 1..Below |-> Slot("below")]
  /\ open = <<>> /\ context = NoContext /\ outer = <<>>
  /\ writes = [id \in 0..MaxTables |-> 0] /\ tops = 0 /\ made = 0 /\ pc = "reading"
  /\ peak = Below /\ deep = 0

Most(m, n) == IF n > m THEN n ELSE m

-----------------------------------------------------------------------------
(* The reader: what may come next, and what it has counted. *)

Inner == open[Len(open)]

WantsValue ==
  /\ pc = "reading"
  /\ IF open = <<>> THEN tops = 0
     ELSE Inner.count < MaxCount /\ (Inner.kind = "object" => Inner.last = "key")

(* A value has been read: what was read last is no key. *)
Counted(s) ==
  IF s = <<>> THEN s
  ELSE [s EXCEPT ![Len(s)].count = @ + 1, ![Len(s)].last = "value"]

-----------------------------------------------------------------------------
(* Ctx::submit: lua_rawset(L, -3) or lua_rawseti(L, -2, ++index) on the    *)
(* stack s, with the value on its top.                                     *)

Popped(c) == CASE c.fn = "object" -> 2 [] c.fn = "array" -> 1 [] OTHER -> 0
Target(c, s) == s[Len(s) - Popped(c)]

(* Mutant of Submit: an element stays on the stack behind lua_rawseti.     *)
SubmitArrayKeeps(c, s) ==
  /\ stack' = IF c.fn = "array" THEN s ELSE SubSeq(s, 1, Len(s) - Popped(c))
  /\ context' = IF c.fn = "array" THEN [c EXCEPT !.index = @ + 1] ELSE c
  /\ writes' = IF c.fn = "none" THEN writes
               ELSE [writes EXCEPT ![Target(c, s).table] = @ + 1]

Submit(c, s) ==
  /\ stack' = SubSeq(s, 1, Len(s) - Popped(c))
  /\ context' = IF c.fn = "array" THEN [c EXCEPT !.index = @ + 1] ELSE c
  /\ writes' = IF c.fn = "none" THEN writes
               ELSE [writes EXCEPT ![Target(c, s).table] = @ + 1]

(* Null, Bool, Int, Double, String ...: the value is pushed, and then has  *)
(* a slot of its own until Ctx::submit has stored it.                      *)
Scalar ==
  /\ WantsValue
  /\ LET pushed == Append(stack, Slot("value")) IN
       Submit(context, pushed) /\ peak' = Most(peak, Len(pushed))
  /\ tops' = 1 /\ open' = Counted(open)
  /\ UNCHANGED <<outer, made, pc, deep>>

Key ==
  /\ pc = "reading" /\ open # <<>> /\ Inner.kind = "object" /\ Inner.last = "value"
  /\ Inner.count < MaxCount
  /\ stack' = Append(stack, Slot("key"))
  /\ open' = [open EXCEPT ![Len(open)].last = "key"]
  /\ peak' = Most(peak, Len(stack'))
  /\ UNCHANGED <<context, outer, writes, tops, made, pc, deep>>

(* Mutant of Saved: Ctx's copy constructor without the index. *)
SavedFresh(c) == [c EXCEPT !.index = 0]

(* Ctx's copy: fn and index. *)
Saved(c) == c

(* Mutant of Start: the new context is not taken. *)
StartKeepsContext(kind, c) ==
  /\ WantsValue /\ made < MaxTables /\ made' = made + 1
  /\ stack' = Append(stack, Table(made'))
  /\ outer' = Append(outer, Saved(context))
  /\ open' = Append(open, [kind |-> kind, table |-> made', count |-> 0, last |-> "value"])
  /\ peak' = Most(peak, Len(stack')) /\ deep' = Most(deep, Len(open'))
  /\ tops' = 1 /\ UNCHANGED <<context, writes, pc>>

(* lua_createtable, and a context of its own for what it will hold. *)
Start(kind, c) ==
  /\ WantsValue /\ made < MaxTables /\ made' = made + 1
  /\ stack' = Append(stack, Table(made'))
  /\ outer' = Append(outer, Saved(context)) /\ context' = c
  /\ open' = Append(open, [kind |-> kind, table |-> made', count |-> 0, last |-> "value"])
  /\ peak' = Most(peak, Len(stack')) /\ deep' = Most(deep, Len(open'))
  /\ tops' = 1 /\ UNCHANGED <<writes, pc>>

StartObject == Start("object", Object)
StartArray == Start("array", Array)

(* The context around it is back, and the table stored as its value. *)
End(kind) ==
  /\ pc = "reading" /\ open # <<>> /\ Inner.kind = kind /\ Inner.last = "value"
  /\ Submit(outer[Len(outer)], stack)
  /\ outer' = SubSeq(outer, 1, Len(outer) - 1)
  /\ open' = Counted(SubSeq(open, 1, Len(open) - 1))
  /\ UNCHANGED <<tops, made, pc, peak, deep>>

EndObject == End("object")
EndArray == End("array")

(* Mutant of Failed: nil and the message on top of what is there. *)
FailedKeeps ==
  /\ pc = "reading" /\ pc' = "two"
  /\ stack' = stack \o <<Slot("nil"), Slot("message")>>
  /\ peak' = Most(peak, Len(stack'))
  /\ UNCHANGED <<open, context, outer, writes, tops, made, deep>>

(* The text may turn out wrong at any token, after the last one as well:   *)
(* lua_settop(top), then nil and the message.                              *)
Failed ==
  /\ pc = "reading" /\ pc' = "two"
  /\ stack' = SubSeq(stack, 1, Below) \o <<Slot("nil"), Slot("message")>>
  /\ peak' = Most(peak, Len(stack'))
  /\ UNCHANGED <<open, context, outer, writes, tops, made, deep>>

Read ==
  /\ pc = "reading" /\ open = <<>> /\ tops = 1 /\ pc' = "one"
  /\ UNCHANGED <<stack, open, context, outer, writes, tops, made, peak, deep>>

Drop(n) == stack' = SubSeq(stack, 1, Len(stack) - n)

(* lua_pop(GL, 2), lua_pop(GL, 1) for what is no table, lua_setglobal.     *)
UpdateConfig ==
  /\ \/ pc = "two" /\ Drop(2)
     \/ pc = "one" /\ Drop(1)
  /\ pc' = "done"
  /\ UNCHANGED <<open, context, outer, writes, tops, made, peak, deep>>

Next ==
  \/ Scalar \/ Key \/ StartObject \/ StartArray
  \/ EndObject \/ EndArray \/ Failed \/ Read \/ UpdateConfig

Spec == Init /\ [][Next]_vars

-----------------------------------------------------------------------------
(* Correctness *)

Context == [fn : {"none", "object", "array"}, index : Nat]
Container == [kind : {"object", "array"}, table : 1..MaxTables, count : Nat, last : {"key", "value"}]

TypeOK ==
  /\ stack \in Seq([is : {"below", "table", "key", "value", "nil", "message"},
                    table : 0..MaxTables])
  /\ open \in Seq(Container) /\ context \in Context
  /\ outer \in Seq(Context) /\ Len(outer) = Len(open)
  /\ writes \in [0..MaxTables -> Nat] /\ tops \in 0..1 /\ made \in 0..MaxTables
  /\ pc \in {"reading", "one", "two", "done"} /\ peak \in Nat /\ deep \in Nat

(* assert(elementCount == context.index) in EndArray never fails: the      *)
(* indices a nested array uses do not disturb those of the one around it.  *)
CountsAgree ==
  pc = "reading" /\ open # <<>> /\ Inner.kind = "array" => context.index = Inner.count

(* The keys below the table of the d-th open container are those of the    *)
(* objects around it.                                                      *)
Place(d) == Below + d + Cardinality({e \in 1..(d - 1) : open[e].last = "key"})

(* While a document is read, the stack holds the tables of what is open,   *)
(* one above the other, with the key between where a member's value is     *)
(* being read, and every value has been stored in the table it belongs to. *)
StoresInPlace ==
  /\ writes[0] = 0
  /\ pc = "reading" => \A d \in 1..Len(open) :
       /\ Place(d) <= Len(stack) /\ stack[Place(d)] = Table(open[d].table)
       /\ open[d].last = "key" => /\ Place(d) < Len(stack)
                         /\ stack[Place(d) + 1] = Slot("key")
       /\ writes[open[d].table] = open[d].count

(* Nothing calls lua_checkstack, so the height must depend on how deep the *)
(* document is and never on how long: two slots for each container, its    *)
(* table and the key that waits, and one for the value at hand; without a  *)
(* container the document's own, or two for nil and a message.             *)
HeightBound == peak <= Below + (IF deep = 0 THEN 2 ELSE 2 * deep + 1)

(* Whatever the text, update_config leaves the stack as it was, and its    *)
(* error branch finds the message on top.                                  *)
Balanced ==
  /\ pc = "done" => stack = [i \in 1..Below |-> Slot("below")]
  /\ pc = "two" => stack[Len(stack)] = Slot("message")
=============================================================================
