-------------------------- MODULE JsonDecodeProofs --------------------------
(***************************************************************************)
(* Proofs about JsonDecode, for documents of any size and depth.  Every    *)
(* open container has a context that agrees with it: the handler's for the *)
(* innermost one, and the next on handler.stack for each of the others.    *)
(* And the Lua stack's height is known at every token: a slot for each     *)
(* open container, and one for each key that waits for its value.          *)
(***************************************************************************)
EXTENDS JsonDecode, SequenceTheorems, FiniteSetTheorems, TLAPS

Cell == [is : {"below", "table", "key", "value", "nil", "message"}, table : 0..MaxTables]

Agrees(c, o) == c.fn = o.kind /\ (o.kind = "array" => c.index = o.count)

(* c is the context for the values of the innermost container of s. *)
Fits(c, s) == IF s = <<>> THEN c = NoContext ELSE Agrees(c, s[Len(s)])

(* And outer holds those of the containers around it. *)
Saves(o, s) ==
  \A d \in 1..Len(s) : IF d = 1 THEN o[d] = NoContext ELSE Agrees(o[d], s[d - 1])

ContextInv == TypeOK /\ Fits(context, open) /\ Saves(outer, open)

KeySet(s) == {e \in 1..Len(s) : s[e].last = "key"}
Keys(s) == Cardinality(KeySet(s))

(* A value may come next: in an object only behind its key. *)
Ready(o) == (o.kind = "object") <=> (o.last = "key")

(* All containers but the innermost one wait for the one inside. *)
KeyInv ==
  /\ open # <<>> => tops = 1
  /\ \A d \in 1..Len(open) : open[d].kind = "array" => open[d].last = "value"
  /\ \A d \in 1..(Len(open) - 1) : Ready(open[d])

(* What was on the stack before is there, and nothing else on top of it    *)
(* than what h says.                                                       *)
Upon(s, h) == Len(s) = Below + h /\ \A i \in 1..Below : s[i] = Slot("below")

StackInv ==
  CASE pc = "reading" -> Upon(stack, Len(open) + Keys(open) + (IF open = <<>> THEN tops ELSE 0))
    [] pc = "one" -> Upon(stack, 1)
    [] pc = "two" -> Upon(stack, 2) /\ stack[Below + 2] = Slot("message")
    [] pc = "done" -> Upon(stack, 0)

DecodeInv == ContextInv /\ KeyInv /\ StackInv

(* Where the table of the d-th container of s is: above those of the ones  *)
(* around it and the keys that wait for it.                                *)
KeysBefore(s, d) == {e \in 1..(d - 1) : s[e].last = "key"}
Spot(s, d) == Below + d + Cardinality(KeysBefore(s, d))

(* The tables of the containers o are in their places in st, and w says    *)
(* how many values each has been given.                                    *)
Stored(o, st, w) ==
  \A d \in 1..Len(o) :
    /\ st[Spot(o, d)] = Table(o[d].table)
    /\ o[d].last = "key" => st[Spot(o, d) + 1] = Slot("key")
    /\ w[o[d].table] = o[d].count

(* No two of them are one table. *)
Apart(o) ==
  \A d \in 1..Len(o) :
    /\ o[d].table \in 1..made
    /\ \A e \in 1..Len(o) : o[e].table = o[d].table => e = d

StoreInv ==
  /\ writes[0] = 0
  /\ pc = "reading" =>
       /\ Stored(open, stack, writes) /\ Apart(open)
       /\ \A id \in (made + 1)..MaxTables : writes[id] = 0

(* Ctx::submit's context after it has stored a value. *)
Bumped(c) == IF c.fn = "array" THEN [c EXCEPT !.index = @ + 1] ELSE c

(* What the reader has open after a value. *)
LEMMA CountedFacts ==
  ASSUME NEW s \in Seq(Container)
  PROVE  /\ Counted(s) \in Seq(Container) /\ Len(Counted(s)) = Len(s)
         /\ \A d \in 1..(Len(s) - 1) : Counted(s)[d] = s[d]
         /\ s # <<>> => /\ Counted(s)[Len(s)].kind = s[Len(s)].kind
                        /\ Counted(s)[Len(s)].count = s[Len(s)].count + 1
                        /\ Counted(s)[Len(s)].last = "value"
<1>0. ASSUME NEW o \in Container
      PROVE  /\ [o EXCEPT !.count = @ + 1, !.last = "value"] \in Container
             /\ [o EXCEPT !.count = @ + 1, !.last = "value"].kind = o.kind
             /\ [o EXCEPT !.count = @ + 1, !.last = "value"].count = o.count + 1
             /\ [o EXCEPT !.count = @ + 1, !.last = "value"].last = "value"
  <2> DEFINE more == [o EXCEPT !.count = @ + 1]
  <2> DEFINE c == o.count + 1
  <2>c. c \in Nat
    BY DEF Container
  <2>m. more = [o EXCEPT !.count = c]
    OBVIOUS
  <2> HIDE DEF c
  <2>n. [o EXCEPT !.count = c] \in Container
    BY <2>c DEF Container
  <2>o. [o EXCEPT !.count = c].kind = o.kind /\ [o EXCEPT !.count = c].count = c
    BY <2>c DEF Container
  <2>1. more \in Container /\ more.kind = o.kind /\ more.count = o.count + 1
    BY <2>m, <2>n, <2>o DEF c
  <2>2. [o EXCEPT !.count = @ + 1, !.last = "value"] = [more EXCEPT !.last = "value"]
    OBVIOUS
  <2> HIDE DEF more
  <2> QED
    BY <2>1, <2>2 DEF Container
<1>1. CASE s = <<>>
  BY <1>1, EmptySeq DEF Counted
<1>2. CASE s # <<>>
  <2> DEFINE n == Len(s)
             new == [s[n] EXCEPT !.count = @ + 1, !.last = "value"]
  <2>1. n \in 1..n /\ n \in Nat
    BY <1>2, EmptySeq
  <2>2. s[n] \in Container
    BY <2>1, ElementOfSeq
  <2>3. new \in Container /\ new.kind = s[n].kind /\ new.count = s[n].count + 1 /\ new.last = "value"
    BY <1>0, <2>2
  <2>4. Counted(s) = [s EXCEPT ![n] = new]
    BY <1>2, <2>1, <2>2 DEF Counted, Container
  <2> HIDE DEF new
  <2>5. /\ [s EXCEPT ![n] = new] \in Seq(Container)
        /\ Len([s EXCEPT ![n] = new]) = n
        /\ \A j \in 1..n : [s EXCEPT ![n] = new][j] = IF j = n THEN new ELSE s[j]
    BY <2>1, <2>3, ExceptSeq
  <2>6. \A d \in 1..(n - 1) : Counted(s)[d] = s[d]
    BY <2>1, <2>4, <2>5
  <2>7. Counted(s)[n] = new
    BY <2>1, <2>4, <2>5
  <2> QED
    BY <2>3, <2>4, <2>5, <2>6, <2>7
<1> QED
  BY <1>1, <1>2

(* Counting the value keeps the context in step with the container. *)
LEMMA BumpedFits ==
  ASSUME NEW s \in Seq(Container), NEW c \in Context, Fits(c, s)
  PROVE  Bumped(c) \in Context /\ Fits(Bumped(c), Counted(s))
<1>1. Bumped(c) \in Context
  BY DEF Bumped, Context
<1>2. CASE s = <<>>
  BY <1>2 DEF Fits, Bumped, NoContext, Counted
<1>3. CASE s # <<>>
  <2>1. Len(s) \in 1..Len(s) /\ Len(Counted(s)) = Len(s) /\ Counted(s) # <<>>
    BY <1>3, EmptySeq, CountedFacts
  <2>2. /\ Counted(s)[Len(s)].kind = s[Len(s)].kind
        /\ Counted(s)[Len(s)].count = s[Len(s)].count + 1
    BY <1>3, CountedFacts
  <2>3. s[Len(s)] \in Container /\ Agrees(c, s[Len(s)])
    BY <1>3, <2>1, ElementOfSeq DEF Fits
  <2>4. Agrees(Bumped(c), Counted(s)[Len(s)])
    BY <2>2, <2>3 DEF Agrees, Bumped, Context, Container
  <2> QED
    BY <1>1, <2>1, <2>4 DEF Fits
<1> QED
  BY <1>1, <1>2, <1>3

(* The containers around are untouched by it. *)
LEMMA CountedSaves ==
  ASSUME NEW s \in Seq(Container), NEW o \in Seq(Context), Len(o) = Len(s), Saves(o, s)
  PROVE  Saves(o, Counted(s))
<1>1. Len(Counted(s)) = Len(s) /\ \A d \in 1..(Len(s) - 1) : Counted(s)[d] = s[d]
  BY CountedFacts
<1>2. Len(s) \in Nat
  BY LenProperties
<1> QED
  BY <1>1, <1>2 DEF Saves

(* Submit leaves what the type says. *)
LEMMA SubmitTypes ==
  ASSUME NEW c \in Context, NEW s \in Seq(Cell), writes \in [0..MaxTables -> Nat],
         Submit(c, s)
  PROVE  /\ stack' \in Seq(Cell) /\ writes' \in [0..MaxTables -> Nat]
         /\ context' = Bumped(c)
<1>1. Popped(c) \in Nat /\ Len(s) \in Nat
  BY LenProperties DEF Popped
<1>2. stack' \in Seq(Cell)
  BY <1>1, SubSeqProperties DEF Submit
<1>3. writes' \in [0..MaxTables -> Nat]
  <2>1. CASE c.fn = "none"
    BY <2>1 DEF Submit
  <2>2. CASE c.fn # "none"
    <3> DEFINE id == Target(c, s).table
    <3>1. writes' = [writes EXCEPT ![id] = writes[id] + 1]
      BY <2>2 DEF Submit
    <3> HIDE DEF id
    <3>2. ASSUME NEW t \in 0..MaxTables PROVE writes'[t] \in Nat
      BY <3>1
    <3> QED
      BY <3>1, <3>2
  <2> QED
    BY <2>1, <2>2
<1> QED
  BY <1>2, <1>3 DEF Submit, Bumped

(* The keys left once a value has been counted. *)
LEMMA KeysFacts ==
  ASSUME NEW s \in Seq(Container)
  PROVE  /\ IsFiniteSet(KeySet(s)) /\ Keys(s) \in Nat /\ KeySet(s) \subseteq 1..Len(s)
         /\ s = <<>> => Keys(s) = 0
         /\ s # <<>> => Keys(Counted(s)) =
              IF s[Len(s)].last = "key" THEN Keys(s) - 1 ELSE Keys(s)
<1>1. KeySet(s) \subseteq 1..Len(s) /\ Len(s) \in Nat
  BY LenProperties DEF KeySet
<1>2. IsFiniteSet(KeySet(s)) /\ Keys(s) \in Nat
  <2>1. IsFiniteSet(1..Len(s))
    BY <1>1, FS_Interval
  <2>2. IsFiniteSet(KeySet(s))
    BY <1>1, <2>1, FS_Subset
  <2> QED
    BY <2>2, FS_CardinalityType DEF Keys
<1>3. s = <<>> => Keys(s) = 0
  <2>1. s = <<>> => KeySet(s) = {}
    BY <1>1, EmptySeq
  <2> QED
    BY <2>1, FS_EmptySet DEF Keys
<1>4. ASSUME s # <<>>
      PROVE  Keys(Counted(s)) = IF s[Len(s)].last = "key" THEN Keys(s) - 1 ELSE Keys(s)
  <2>1. Len(s) \in 1..Len(s)
    BY <1>4, EmptySeq
  <2>2. /\ Len(Counted(s)) = Len(s) /\ Counted(s)[Len(s)].last = "value"
        /\ \A d \in 1..(Len(s) - 1) : Counted(s)[d] = s[d]
    BY <1>4, CountedFacts
  <2>3. KeySet(Counted(s)) = KeySet(s) \ {Len(s)}
    BY <1>1, <2>1, <2>2 DEF KeySet
  <2>4. Len(s) \in KeySet(s) <=> s[Len(s)].last = "key"
    BY <2>1 DEF KeySet
  <2> QED
    BY <1>2, <2>3, <2>4, FS_RemoveElement DEF Keys
<1> QED
  BY <1>1, <1>2, <1>3, <1>4

LEMMA DecodeInit == Init => DecodeInv
<1> SUFFICES ASSUME Init PROVE DecodeInv
  OBVIOUS
<1>1. Below \in Nat /\ MaxTables \in Nat
  BY BoundAssumption
<1>2. stack \in Seq(Cell) /\ Len(stack) = Below
  <2>1. stack \in [1..Below -> Cell]
    BY <1>1 DEF Init, Slot, Cell
  <2> QED
    BY <1>1, <2>1, SeqDef
<1>3. /\ open \in Seq(Container) /\ outer \in Seq(Context) /\ Len(outer) = Len(open)
      /\ Len(open) = 0 /\ open = <<>>
  BY EmptySeq DEF Init
<1>4. context \in Context /\ writes \in [0..MaxTables -> Nat]
  BY <1>1 DEF Init, NoContext, Context
<1>5. tops \in 0..1 /\ made \in 0..MaxTables /\ pc = "reading" /\ tops = 0
  BY <1>1 DEF Init
<1>6. TypeOK
  BY <1>1, <1>2, <1>3, <1>4, <1>5 DEF Init, TypeOK, Cell
<1>7. Fits(context, open) /\ Saves(outer, open)
  BY <1>3 DEF Init, Fits, Saves
<1>8. KeyInv
  BY <1>3 DEF KeyInv
<1>9. Keys(open) = 0
  BY <1>3, KeysFacts
<1>10. Upon(stack, 0)
  BY <1>1, <1>2 DEF Init, Upon
<1>11. StackInv
  BY <1>3, <1>5, <1>9, <1>10 DEF StackInv
<1> QED
  BY <1>6, <1>7, <1>8, <1>11 DEF DecodeInv, ContextInv

(* Steps that push nothing. *)
Level == EndObject \/ EndArray \/ Read \/ UpdateConfig \/ UNCHANGED vars

(* What each step does to the height and the depth reached.                *)
LEMMA PeakMoves ==
  ASSUME TypeOK, [Next]_vars,
         pc = "reading" => Below <= Len(stack)
  PROVE  \/ Level /\ UNCHANGED <<peak, deep>>
         \/ /\ Scalar \/ Key
            /\ peak' = Most(peak, Len(stack) + 1) /\ deep' = deep
         \/ /\ StartObject \/ StartArray
            /\ peak' = Most(peak, Len(stack) + 1)
            /\ deep' = Most(deep, Len(open) + 1) /\ Len(open') = Len(open) + 1
         \/ Failed /\ peak' = Most(peak, Below + 2) /\ deep' = deep
<1>a. /\ Below \in Nat /\ MaxTables \in Nat /\ stack \in Seq(Cell)
      /\ open \in Seq(Container) /\ made \in 0..MaxTables /\ Len(stack) \in Nat
  BY BoundAssumption, LenProperties DEF TypeOK, Cell
<1>s. \A e \in Cell : Len(Append(stack, e)) = Len(stack) + 1
  BY <1>a, AppendProperties
<1>t. \A k \in {"key", "value", "nil", "message"} : Slot(k) \in Cell
  BY <1>a DEF Slot, Cell
<1>1. CASE Scalar
  BY <1>1, <1>s, <1>t DEF Scalar
<1>2. CASE Key
  BY <1>2, <1>s, <1>t DEF Key
<1>3. ASSUME NEW kind \in {"object", "array"}, NEW c \in {Object, Array}, Start(kind, c)
      PROVE  /\ peak' = Most(peak, Len(stack) + 1)
             /\ deep' = Most(deep, Len(open) + 1) /\ Len(open') = Len(open) + 1
  <2> DEFINE new == [kind |-> kind, table |-> made', count |-> 0, last |-> "value"]
  <2>1. made' \in 1..MaxTables
    BY <1>3, <1>a DEF Start
  <2>2. new \in Container /\ Table(made') \in Cell
    BY <2>1 DEF Container, Cell, Table
  <2>3. Len(stack') = Len(stack) + 1
    BY <1>3, <1>s, <2>2 DEF Start
  <2>4. open' = Append(open, new)
    BY <1>3 DEF Start
  <2> HIDE DEF new
  <2>5. Len(open') = Len(open) + 1
    BY <1>a, <2>2, <2>4, AppendProperties
  <2> QED
    BY <1>3, <2>3, <2>5 DEF Start
<1>4. CASE StartObject \/ StartArray
  BY <1>3, <1>4 DEF StartObject, StartArray
<1>5. CASE EndObject \/ EndArray
  BY <1>5 DEF EndObject, EndArray, End, Level
<1>6. CASE Failed
  <2> DEFINE two == <<Slot("nil"), Slot("message")>>
             bottom == SubSeq(stack, 1, Below)
  <2>1. two \in Seq(Cell) /\ Len(two) = 2
    BY <1>t
  <2>2. bottom \in Seq(Cell) /\ Len(bottom) = Below
    <3>1. Below <= Len(stack)
      BY <1>6 DEF Failed
    <3>2. \A i \in 1..Below : stack[i] \in Cell
      BY <1>a, <3>1, ElementOfSeq
    <3> QED
      BY <1>a, <3>2, SubSeqProperties
  <2>3. stack' = bottom \o two
    BY <1>6 DEF Failed
  <2> HIDE DEF two, bottom
  <2>4. Len(bottom \o two) = Len(bottom) + Len(two)
    BY <2>1, <2>2, ConcatProperties
  <2>5. Len(stack') = Below + 2
    BY <2>1, <2>2, <2>3, <2>4
  <2> QED
    BY <1>6, <2>5 DEF Failed
<1>7. CASE Read \/ UpdateConfig \/ UNCHANGED vars
  BY <1>7 DEF Read, UpdateConfig, vars, Level
<1> QED
  BY <1>1, <1>2, <1>4, <1>5, <1>6, <1>7 DEF Next

LEMMA PeakTypes ==
  ASSUME DecodeInv, [Next]_vars
  PROVE  peak' \in Nat /\ deep' \in Nat
<1>1. /\ TypeOK /\ Below \in Nat /\ peak \in Nat /\ deep \in Nat
      /\ Len(stack) \in Nat /\ Len(open) \in Nat /\ open \in Seq(Container)
  BY BoundAssumption, LenProperties DEF DecodeInv, ContextInv, TypeOK
<1>2. pc = "reading" => Below <= Len(stack)
  BY <1>1, KeysFacts DEF DecodeInv, ContextInv, TypeOK, StackInv, Upon
<1>3. /\ peak' \in {peak, Most(peak, Len(stack) + 1), Most(peak, Below + 2)}
      /\ deep' \in {deep, Most(deep, Len(open) + 1)}
  BY <1>1, <1>2, PeakMoves
<1> QED
  BY <1>1, <1>3 DEF Most

(* Contexts and containers stay in step. *)
LEMMA ContextStep == DecodeInv /\ [Next]_vars => ContextInv'
<1> SUFFICES ASSUME DecodeInv, [Next]_vars PROVE ContextInv'
  OBVIOUS
<1>a. Below \in Nat /\ MaxTables \in Nat
  BY BoundAssumption
<1>b. /\ stack \in Seq(Cell) /\ open \in Seq(Container) /\ context \in Context
      /\ outer \in Seq(Context) /\ Len(outer) = Len(open)
      /\ writes \in [0..MaxTables -> Nat] /\ tops \in 0..1 /\ made \in 0..MaxTables
      /\ pc \in {"reading", "one", "two", "done"}
      /\ peak' \in Nat /\ deep' \in Nat
  BY PeakTypes DEF DecodeInv, ContextInv, TypeOK, Cell
<1>c. Fits(context, open) /\ Saves(outer, open)
  BY DEF DecodeInv, ContextInv
<1>d. Len(open) \in Nat /\ Len(stack) \in Nat
  BY <1>b, LenProperties
<1>1. CASE Scalar
  <2>1. Slot("value") \in Cell
    BY <1>a DEF Slot, Cell
  <2>2. Append(stack, Slot("value")) \in Seq(Cell)
    BY <1>b, <2>1, AppendProperties
  <2>3. /\ stack' \in Seq(Cell) /\ writes' \in [0..MaxTables -> Nat]
        /\ context' = Bumped(context)
    BY <1>1, <1>b, <2>2, SubmitTypes DEF Scalar
  <2>4. open' \in Seq(Container) /\ Len(open') = Len(open)
    BY <1>1, <1>b, CountedFacts DEF Scalar
  <2>5. context' \in Context /\ Fits(context', open')
    BY <1>1, <1>b, <1>c, <2>3, BumpedFits DEF Scalar
  <2>6. Saves(outer', open')
    BY <1>1, <1>b, <1>c, CountedSaves DEF Scalar
  <2> QED
    BY <1>1, <1>b, <2>3, <2>4, <2>5, <2>6 DEF Scalar, ContextInv, TypeOK, Cell
<1>2. CASE Key
  <2> DEFINE n == Len(open)
             last == [open[n] EXCEPT !.last = "key"]
  <2>1. n \in 1..Len(open)
    BY <1>2, <1>b, EmptySeq DEF Key
  <2>2. open[n] \in Container
    BY <1>b, <2>1, ElementOfSeq
  <2>3. last \in Container /\ last.kind = open[n].kind /\ last.count = open[n].count
    BY <2>2 DEF Container
  <2>4. open' = [open EXCEPT ![n] = last]
    BY <1>2, <2>1, <2>2 DEF Key, Container
  <2> HIDE DEF last
  <2>5. /\ open' \in Seq(Container) /\ Len(open') = Len(open)
        /\ \A j \in 1 .. Len(open) : open'[j] = IF j = n THEN last ELSE open[j]
    BY <1>b, <2>1, <2>3, <2>4, ExceptSeq
  <2>6. Slot("key") \in Cell
    BY <1>a DEF Slot, Cell
  <2>7. stack' \in Seq(Cell)
    BY <1>2, <1>b, <2>6, AppendProperties DEF Key
  <2>8. open # <<>> /\ open' # <<>> /\ context' = context /\ outer' = outer
    BY <1>2, <1>b, <1>d, <2>1, <2>5, EmptySeq DEF Key
  <2>9. Fits(context', open')
    BY <1>c, <2>1, <2>3, <2>5, <2>8 DEF Fits, Agrees
  <2>10. Saves(outer', open')
    BY <1>c, <1>d, <2>5, <2>8 DEF Saves
  <2> QED
    BY <1>2, <1>b, <2>5, <2>7, <2>8, <2>9, <2>10 DEF Key, ContextInv, TypeOK, Cell
<1>3. ASSUME NEW kind \in {"object", "array"}, NEW c \in Context, Start(kind, c),
             c.fn = kind, c.index = 0
      PROVE  ContextInv'
  <2> DEFINE new == [kind |-> kind, table |-> made', count |-> 0, last |-> "value"]
  <2>1. made' \in 1..MaxTables
    BY <1>3, <1>a, <1>b DEF Start
  <2>2. new \in Container /\ Table(made') \in Cell
    BY <2>1 DEF Container, Cell, Table
  <2>3. open' = Append(open, new)
    BY <1>3 DEF Start
  <2>4. Agrees(c, new)
    BY <1>3 DEF Agrees
  <2> HIDE DEF new
  <2>5. /\ open' \in Seq(Container) /\ Len(open') = Len(open) + 1
        /\ open'[Len(open) + 1] = new /\ \A d \in 1..Len(open) : open'[d] = open[d]
    BY <1>b, <2>2, <2>3, AppendProperties
  <2>6. /\ outer' \in Seq(Context) /\ Len(outer') = Len(outer) + 1
        /\ outer'[Len(outer) + 1] = context /\ \A d \in 1..Len(outer) : outer'[d] = outer[d]
    BY <1>3, <1>b, AppendProperties DEF Start, Saved
  <2>7. stack' \in Seq(Cell)
    BY <1>3, <1>b, <2>2, AppendProperties DEF Start
  <2>8. open' # <<>> /\ context' = c
    BY <1>3, <1>d, <2>5, EmptySeq DEF Start
  <2>9. Fits(context', open')
    BY <2>4, <2>5, <2>8 DEF Fits
  <2>10. Saves(outer', open')
    <3> SUFFICES ASSUME NEW d \in 1..Len(open')
                 PROVE  IF d = 1 THEN outer'[d] = NoContext
                        ELSE Agrees(outer'[d], open'[d - 1])
      BY DEF Saves
    <3>1. CASE d <= Len(open)
      <4>1. d \in 1..Len(open) /\ outer'[d] = outer[d]
        BY <1>b, <1>d, <2>5, <2>6, <3>1
      <4>2. d # 1 => open'[d - 1] = open[d - 1]
        BY <1>d, <2>5, <4>1
      <4> QED
        BY <1>c, <4>1, <4>2 DEF Saves
    <3>2. CASE d = Len(open) + 1
      <4>1. outer'[d] = context
        BY <1>b, <2>6, <3>2
      <4>2. CASE d = 1
        BY <1>b, <1>c, <1>d, <3>2, <4>1, <4>2, EmptySeq DEF Fits
      <4>3. CASE d # 1
        <5>1. open # <<>> /\ d - 1 = Len(open) /\ d - 1 \in 1..Len(open)
          BY <1>b, <1>d, <3>2, <4>3, EmptySeq
        <5> QED
          BY <1>c, <2>5, <4>1, <4>3, <5>1 DEF Fits
      <4> QED
        BY <4>2, <4>3
    <3> QED
      BY <1>d, <2>5, <3>1, <3>2
  <2> QED
    BY <1>3, <1>b, <2>1, <2>5, <2>6, <2>7, <2>8, <2>9, <2>10
    DEF Start, ContextInv, TypeOK, Cell
<1>4. ASSUME NEW kind, End(kind) PROVE ContextInv'
  <2> DEFINE n == Len(open)
             s == SubSeq(open, 1, n - 1)
             o == SubSeq(outer, 1, n - 1)
  <2>1. n \in 1..Len(open) /\ n \in 1..Len(outer) /\ n - 1 \in Nat
    BY <1>4, <1>b, EmptySeq DEF End
  <2>2. s \in Seq(Container) /\ Len(s) = n - 1 /\ \A d \in 1..(n - 1) : s[d] = open[d]
    BY <1>b, <2>1, SubSeqProperties
  <2>3. o \in Seq(Context) /\ Len(o) = n - 1 /\ \A d \in 1..(n - 1) : o[d] = outer[d]
    BY <1>b, <2>1, SubSeqProperties
  <2>4. open' = Counted(s) /\ outer' = o
    BY <1>4, <1>b DEF End
  <2>5. outer[n] \in Context
    BY <1>b, <2>1, ElementOfSeq
  <2>6. /\ stack' \in Seq(Cell) /\ writes' \in [0..MaxTables -> Nat]
        /\ context' = Bumped(outer[n])
    BY <1>4, <1>b, <2>5, SubmitTypes DEF End
  <2> HIDE DEF n, s, o
  <2>7. Fits(outer[n], s)
    <3>1. CASE n = 1
      <4>1. s = <<>>
        BY <2>2, <3>1, EmptySeq
      <4> QED
        BY <1>c, <2>1, <3>1, <4>1 DEF Saves, Fits
    <3>2. CASE n # 1
      <4>1. s # <<>> /\ n - 1 \in 1..(n - 1) /\ s[Len(s)] = open[n - 1]
        BY <2>1, <2>2, <3>2, EmptySeq
      <4> QED
        BY <1>c, <2>1, <3>2, <4>1 DEF Saves, Fits
    <3> QED
      BY <3>1, <3>2
  <2>8. Saves(o, s)
    <3> SUFFICES ASSUME NEW d \in 1..Len(s)
                 PROVE  IF d = 1 THEN o[d] = NoContext ELSE Agrees(o[d], s[d - 1])
      BY DEF Saves
    <3>1. d \in 1..Len(open) /\ o[d] = outer[d]
      BY <1>d, <2>1, <2>2, <2>3
    <3>2. CASE d = 1
      BY <1>c, <3>1, <3>2 DEF Saves
    <3>3. CASE d # 1
      <4>1. d - 1 \in 1..(n - 1) /\ s[d - 1] = open[d - 1]
        BY <2>1, <2>2, <3>3
      <4> QED
        BY <1>c, <3>1, <3>3, <4>1 DEF Saves
    <3> QED
      BY <3>2, <3>3
  <2>9. open' \in Seq(Container) /\ Len(open') = Len(s)
    BY <2>2, <2>4, CountedFacts
  <2>10. context' \in Context /\ Fits(context', open')
    BY <2>2, <2>4, <2>5, <2>6, <2>7, BumpedFits
  <2>11. Saves(outer', open')
    BY <2>2, <2>3, <2>4, <2>8, CountedSaves
  <2> QED
    BY <1>4, <1>b, <2>2, <2>3, <2>4, <2>6, <2>9, <2>10, <2>11
    DEF End, ContextInv, TypeOK, Cell
<1>5. CASE StartObject
  BY <1>3, <1>5 DEF StartObject, Object, Context
<1>6. CASE StartArray
  BY <1>3, <1>6 DEF StartArray, Array, Context
<1>7. CASE EndObject
  BY <1>4, <1>7 DEF EndObject
<1>8. CASE EndArray
  BY <1>4, <1>8 DEF EndArray
<1>9. CASE Failed
  <2> DEFINE two == <<Slot("nil"), Slot("message")>>
  <2>1. two \in Seq(Cell)
    BY <1>a DEF Slot, Cell
  <2>2. SubSeq(stack, 1, Below) \in Seq(Cell)
    <3>1. Keys(open) \in Nat
      BY <1>b, KeysFacts
    <3>2. Below <= Len(stack)
      BY <1>9, <1>a, <1>b, <1>d, <3>1 DEF Failed, DecodeInv, StackInv, Upon
    <3>3. \A i \in 1..Below : stack[i] \in Cell
      BY <1>a, <1>b, <1>d, <3>2, ElementOfSeq
    <3> QED
      BY <1>a, <3>3, SubSeqProperties
  <2> HIDE DEF two
  <2>3. SubSeq(stack, 1, Below) \o two \in Seq(Cell)
    BY <2>1, <2>2, ConcatProperties
  <2>4. stack' \in Seq(Cell)
    BY <1>9, <2>3 DEF Failed, two
  <2> QED
    BY <1>9, <1>b, <1>c, <2>4 DEF Failed, ContextInv, TypeOK, Cell
<1>10. CASE Read
  BY <1>10, <1>b, <1>c DEF Read, ContextInv, TypeOK, Cell
<1>11. CASE UpdateConfig
  <2>1. PICK n \in {1, 2} : stack' = SubSeq(stack, 1, Len(stack) - n)
    BY <1>11 DEF UpdateConfig, Drop
  <2>2. \A i \in 1..(Len(stack) - n) : stack[i] \in Cell
    BY <1>b, <1>d, ElementOfSeq
  <2>3. stack' \in Seq(Cell)
    BY <1>d, <2>1, <2>2, SubSeqProperties
  <2> QED
    BY <1>11, <1>b, <1>c, <2>3 DEF UpdateConfig, ContextInv, TypeOK, Cell
<1>12. CASE UNCHANGED vars
  BY <1>12, <1>b, <1>c DEF vars, ContextInv, TypeOK, Cell
<1> QED
  BY <1>1, <1>2, <1>5, <1>6, <1>7, <1>8, <1>9, <1>10, <1>11, <1>12 DEF Next

(* One more on the stack. *)
LEMMA PushUpon ==
  ASSUME NEW s \in Seq(Cell), NEW x \in Cell, NEW h \in Nat, Upon(s, h)
  PROVE  Append(s, x) \in Seq(Cell) /\ Upon(Append(s, x), h + 1)
<1>1. Below \in Nat
  BY BoundAssumption
<1> QED
  BY <1>1, AppendProperties DEF Upon

(* And some less. *)
LEMMA PopUpon ==
  ASSUME NEW s \in Seq(Cell), NEW h \in Nat, NEW n \in 0..h, Upon(s, h)
  PROVE  Upon(SubSeq(s, 1, Len(s) - n), h - n)
<1>1. Below \in Nat /\ Len(s) = Below + h
  BY BoundAssumption DEF Upon
<1>2. \A i \in 1..(Len(s) - n) : s[i] \in Cell
  BY <1>1, ElementOfSeq
<1>3. /\ Len(SubSeq(s, 1, Len(s) - n)) = Below + h - n
      /\ \A i \in 1..(Len(s) - n) : SubSeq(s, 1, Len(s) - n)[i] = s[i]
  BY <1>1, <1>2, SubSeqProperties
<1> QED
  BY <1>1, <1>3 DEF Upon

(* Storing a value takes it from the stack, with its key if it had one. *)
LEMMA SubmitUpon ==
  ASSUME NEW c \in Context, NEW s \in Seq(Cell), NEW o \in Seq(Container),
         Fits(c, o), o # <<>> => Ready(o[Len(o)]),
         Upon(s, Len(o) + Keys(o) + 1), Submit(c, s)
  PROVE  Upon(stack', Len(o) + Keys(Counted(o)) + (IF o = <<>> THEN 1 ELSE 0))
<1> DEFINE h == Len(o) + Keys(o) + 1
<1>1. Len(o) \in Nat /\ Keys(o) \in Nat
  BY LenProperties, KeysFacts
<1>0. h \in Nat /\ h = Len(o) + Keys(o) + 1 /\ Upon(s, h) /\ 0 \in 0..h
  BY <1>1
<1> HIDE DEF h
<1>2. stack' = SubSeq(s, 1, Len(s) - Popped(c))
  BY DEF Submit
<1>3. CASE o = <<>>
  <2>1. Popped(c) = 0
    BY <1>3 DEF Fits, NoContext, Popped
  <2>2. Counted(o) = o
    BY <1>3 DEF Counted
  <2>3. Upon(stack', h - 0)
    BY <1>0, <1>2, <2>1, PopUpon
  <2> QED
    BY <1>0, <1>1, <1>3, <2>2, <2>3
<1>4. CASE o # <<>>
  <2>1. Len(o) \in 1..Len(o) /\ o[Len(o)] \in Container
    BY <1>4, EmptySeq, ElementOfSeq
  <2>2. c.fn = o[Len(o)].kind
    BY <1>4 DEF Fits, Agrees
  <2>3. CASE o[Len(o)].kind = "object"
    <3>1. Popped(c) = 2 /\ Keys(Counted(o)) = Keys(o) - 1 /\ 2 \in 0..h
      BY <1>0, <1>1, <1>4, <2>1, <2>2, <2>3, KeysFacts DEF Popped, Ready
    <3>2. Upon(stack', h - 2)
      BY <1>0, <1>2, <3>1, PopUpon
    <3> QED
      BY <1>0, <1>1, <1>4, <3>1, <3>2
  <2>4. CASE o[Len(o)].kind = "array"
    <3>1. Popped(c) = 1 /\ Keys(Counted(o)) = Keys(o) /\ 1 \in 0..h
      BY <1>0, <1>1, <1>4, <2>1, <2>2, <2>4, KeysFacts DEF Popped, Ready
    <3>2. Upon(stack', h - 1)
      BY <1>0, <1>2, <3>1, PopUpon
    <3> QED
      BY <1>0, <1>1, <1>4, <3>1, <3>2
  <2> QED
    BY <2>1, <2>3, <2>4 DEF Container
<1> QED
  BY <1>3, <1>4

(* At every token the stack's height is what is open. *)
LEMMA StackStep == DecodeInv /\ [Next]_vars => KeyInv' /\ StackInv'
<1> SUFFICES ASSUME DecodeInv, [Next]_vars PROVE KeyInv' /\ StackInv'
  OBVIOUS
<1>a. Below \in Nat /\ MaxTables \in Nat
  BY BoundAssumption
<1>b. /\ stack \in Seq(Cell) /\ open \in Seq(Container) /\ context \in Context
      /\ outer \in Seq(Context) /\ Len(outer) = Len(open)
      /\ tops \in 0..1 /\ made \in 0..MaxTables
      /\ pc \in {"reading", "one", "two", "done"}
  BY DEF DecodeInv, ContextInv, TypeOK, Cell
<1>c. Fits(context, open) /\ Saves(outer, open)
  BY DEF DecodeInv, ContextInv
<1>d. Len(open) \in Nat /\ Keys(open) \in Nat
  BY <1>b, LenProperties, KeysFacts
<1>e. KeyInv /\ StackInv
  BY DEF DecodeInv
<1>f. ASSUME pc = "reading"
      PROVE  Upon(stack, Len(open) + Keys(open) + (IF open = <<>> THEN tops ELSE 0))
  BY <1>e, <1>f DEF StackInv
<1>g. ASSUME open # <<>> PROVE Len(open) \in 1..Len(open) /\ open[Len(open)] \in Container
  BY <1>b, <1>g, EmptySeq, ElementOfSeq
<1>h. ASSUME WantsValue PROVE Upon(stack, Len(open) + Keys(open))
  BY <1>d, <1>f, <1>h DEF WantsValue
<1>i. ASSUME WantsValue, open # <<>> PROVE Ready(open[Len(open)])
  BY <1>e, <1>g, <1>i DEF WantsValue, Inner, KeyInv, Ready, Container
<1>1. CASE Scalar
  <2>1. Slot("value") \in Cell
    BY <1>a DEF Slot, Cell
  <2>2. /\ Append(stack, Slot("value")) \in Seq(Cell)
        /\ Upon(Append(stack, Slot("value")), Len(open) + Keys(open) + 1)
    BY <1>1, <1>b, <1>d, <1>h, <2>1, PushUpon DEF Scalar
  <2>3. Upon(stack', Len(open) + Keys(Counted(open)) + (IF open = <<>> THEN 1 ELSE 0))
    BY <1>1, <1>b, <1>c, <1>i, <2>2, SubmitUpon DEF Scalar
  <2>4. /\ open' = Counted(open) /\ Len(open') = Len(open) /\ tops' = 1 /\ pc' = "reading"
        /\ open' = <<>> <=> open = <<>>
    BY <1>1, <1>b, <1>d, CountedFacts, EmptySeq DEF Scalar, WantsValue
  <2>5. StackInv'
    BY <2>3, <2>4 DEF StackInv
  <2>6. KeyInv'
    <3>1. \A d \in 1..(Len(open) - 1) : open'[d] = open[d]
      BY <1>b, <2>4, CountedFacts
    <3>2. open # <<>> => open'[Len(open)].last = "value"
      BY <1>b, <2>4, CountedFacts
    <3>3. \A d \in 1..Len(open) : open'[d].kind = "array" => open'[d].last = "value"
      BY <1>b, <1>d, <1>e, <3>1, <3>2, EmptySeq DEF KeyInv
    <3>4. \A d \in 1..(Len(open) - 1) : Ready(open'[d])
      BY <1>e, <3>1 DEF KeyInv
    <3> QED
      BY <2>4, <3>3, <3>4 DEF KeyInv
  <2> QED
    BY <2>5, <2>6
<1>2. CASE Key
  <2> DEFINE n == Len(open)
             new == [open[n] EXCEPT !.last = "key"]
  <2>1. n \in 1..n /\ open[n] \in Container /\ open # <<>> /\ n \in Nat
    BY <1>2, <1>d, <1>g DEF Key
  <2>2. new \in Container /\ new.kind = "object" /\ new.last = "key"
    BY <1>2, <2>1 DEF Container, Key, Inner
  <2>3. open' = [open EXCEPT ![n] = new]
    BY <1>2, <2>1 DEF Key, Container
  <2> HIDE DEF new
  <2>4. /\ open' \in Seq(Container) /\ Len(open') = n
        /\ \A j \in 1..n : open'[j] = IF j = n THEN new ELSE open[j]
    BY <1>b, <2>1, <2>2, <2>3, ExceptSeq
  <2>5. open' # <<>> /\ tops' = tops /\ pc' = pc /\ pc = "reading" /\ stack' = Append(stack, Slot("key"))
    BY <1>2, <2>1, <2>4, EmptySeq DEF Key
  <2>6. KeyInv'
    BY <1>e, <2>1, <2>2, <2>4, <2>5 DEF KeyInv, Ready
  <2>7. KeySet(open') = KeySet(open) \cup {n}
    BY <2>1, <2>2, <2>4 DEF KeySet
  <2>8. n \notin KeySet(open)
    BY <1>2 DEF Key, Inner, KeySet
  <2>9. Keys(open') = Keys(open) + 1
    <3>1. IsFiniteSet(KeySet(open))
      BY <1>b, KeysFacts
    <3> QED
      BY <2>7, <2>8, <3>1, FS_AddElement DEF Keys
  <2>10. Slot("key") \in Cell
    BY <1>a DEF Slot, Cell
  <2>11. Upon(stack, n + Keys(open))
    BY <1>d, <1>f, <2>1, <2>5
  <2>12. Upon(stack', n + Keys(open) + 1)
    BY <1>b, <1>d, <2>5, <2>10, <2>11, PushUpon
  <2>13. StackInv'
    BY <1>d, <2>4, <2>5, <2>9, <2>12 DEF StackInv
  <2> QED
    BY <2>6, <2>13
<1>3. ASSUME NEW kind \in {"object", "array"}, NEW c, Start(kind, c)
      PROVE  KeyInv' /\ StackInv'
  <2> DEFINE new == [kind |-> kind, table |-> made', count |-> 0, last |-> "value"]
  <2>1. made' \in 1..MaxTables
    BY <1>3, <1>a, <1>b DEF Start
  <2>2. new \in Container /\ Table(made') \in Cell /\ new.last = "value"
    BY <2>1 DEF Container, Cell, Table
  <2>3. open' = Append(open, new) /\ tops' = 1 /\ pc' = "reading" /\ stack' = Append(stack, Table(made'))
    BY <1>3 DEF Start, WantsValue
  <2> HIDE DEF new
  <2>4. /\ open' \in Seq(Container) /\ Len(open') = Len(open) + 1 /\ open' # <<>>
        /\ open'[Len(open) + 1] = new /\ \A d \in 1..Len(open) : open'[d] = open[d]
    BY <1>b, <2>2, <2>3, AppendProperties
  <2>5. KeyInv'
    <3>1. \A d \in 1..Len(open) : Ready(open[d])
      <4>1. ASSUME Len(open) # 0 PROVE Ready(open[Len(open)])
        BY <1>3, <1>b, <1>d, <1>i, <4>1, EmptySeq DEF Start
      <4> QED
        BY <1>d, <1>e, <4>1 DEF KeyInv
    <3> QED
      BY <1>d, <1>e, <2>2, <2>3, <2>4, <3>1 DEF KeyInv
  <2>6. KeySet(open') = KeySet(open)
    BY <1>d, <2>2, <2>4 DEF KeySet
  <2>7. Upon(stack', Len(open) + Keys(open) + 1)
    BY <1>3, <1>b, <1>d, <1>h, <2>2, <2>3, PushUpon DEF Start
  <2>8. StackInv'
    BY <1>d, <2>3, <2>4, <2>6, <2>7 DEF StackInv, Keys
  <2> QED
    BY <2>5, <2>8
<1>4. ASSUME NEW kind, End(kind) PROVE KeyInv' /\ StackInv'
  <2> DEFINE n == Len(open)
             s == SubSeq(open, 1, n - 1)
  <2>1. n \in 1..Len(open) /\ n \in 1..Len(outer) /\ n \in Nat /\ open # <<>>
    BY <1>4, <1>b, <1>d, <1>g DEF End
  <2>2. s \in Seq(Container) /\ Len(s) = n - 1 /\ \A d \in 1..(n - 1) : s[d] = open[d]
    BY <1>b, <2>1, SubSeqProperties
  <2>3. outer[n] \in Context
    BY <1>b, <2>1, ElementOfSeq
  <2>4. open' = Counted(s) /\ tops' = tops /\ pc' = "reading" /\ pc = "reading"
        /\ Submit(outer[n], stack) /\ open[n].last = "value"
    BY <1>4, <1>b DEF End, Inner
  <2> HIDE DEF n, s
  <2>5. tops = 1
    BY <1>e, <2>1 DEF KeyInv
  <2>6. Fits(outer[n], s)
    <3>1. CASE n = 1
      <4>1. s = <<>>
        BY <2>2, <3>1, EmptySeq
      <4> QED
        BY <1>c, <2>1, <3>1, <4>1 DEF Saves, Fits
    <3>2. CASE n # 1
      <4>1. s # <<>> /\ n - 1 \in 1..(n - 1) /\ s[Len(s)] = open[n - 1]
        BY <2>1, <2>2, <3>2, EmptySeq
      <4> QED
        BY <1>c, <2>1, <3>2, <4>1 DEF Saves, Fits
    <3> QED
      BY <3>1, <3>2
  <2>7. n = Len(open)
    BY DEF n
  <2>8. \A d \in 1..Len(s) : Ready(s[d]) /\ (s[d].kind = "array" => s[d].last = "value")
    BY <1>e, <2>1, <2>2, <2>7 DEF KeyInv
  <2>9. s # <<>> => Ready(s[Len(s)])
    BY <2>2, <2>8, EmptySeq
  <2>10. Keys(s) = Keys(open) /\ Keys(open) \in Nat
    <3>1. KeySet(s) = KeySet(open)
      BY <2>1, <2>2, <2>4, <2>7 DEF KeySet
    <3> QED
      BY <1>d, <3>1 DEF Keys
  <2>11. Upon(stack, Len(s) + Keys(s) + 1)
    <3>1. Upon(stack, Len(open) + Keys(open) + 0)
      BY <1>f, <2>1, <2>4
    <3>3. Len(s) = Len(open) - 1 /\ Keys(s) = Keys(open)
      BY <2>2, <2>7, <2>10
    <3>2. Len(open) + Keys(open) + 0 = Len(s) + Keys(s) + 1
      BY <1>d, <3>3
    <3> QED
      BY <3>1, <3>2
  <2>12. Upon(stack', Len(s) + Keys(Counted(s)) + (IF s = <<>> THEN 1 ELSE 0))
    BY <1>b, <2>2, <2>3, <2>4, <2>6, <2>9, <2>11, SubmitUpon
  <2>13. /\ Counted(s) \in Seq(Container) /\ Len(Counted(s)) = Len(s)
         /\ Counted(s) = <<>> <=> s = <<>>
    BY <2>2, CountedFacts, EmptySeq
  <2>14. StackInv'
    BY <2>4, <2>5, <2>12, <2>13 DEF StackInv
  <2>15. KeyInv'
    <3>1. \A d \in 1..(Len(s) - 1) : Counted(s)[d] = s[d]
      BY <2>2, CountedFacts
    <3>2. s # <<>> => Counted(s)[Len(s)].last = "value"
      BY <2>2, CountedFacts
    <3>3. \A d \in 1..Len(s) : Counted(s)[d].kind = "array" => Counted(s)[d].last = "value"
      BY <2>1, <2>2, <2>8, <3>1, <3>2, EmptySeq
    <3>4. \A d \in 1..(Len(s) - 1) : Ready(Counted(s)[d])
      BY <2>1, <2>2, <2>8, <3>1
    <3> QED
      BY <2>4, <2>5, <2>13, <3>3, <3>4 DEF KeyInv
  <2> QED
    BY <2>14, <2>15
<1>5. CASE StartObject
  BY <1>3, <1>5 DEF StartObject
<1>6. CASE StartArray
  BY <1>3, <1>6 DEF StartArray
<1>7. CASE EndObject
  BY <1>4, <1>7 DEF EndObject
<1>8. CASE EndArray
  BY <1>4, <1>8 DEF EndArray
<1>9. CASE Failed
  <2> DEFINE s == SubSeq(stack, 1, Below)
  <2>1. KeyInv'
    BY <1>9, <1>e DEF Failed, KeyInv
  <2>2. Upon(stack, Len(open) + Keys(open) + (IF open = <<>> THEN tops ELSE 0))
    BY <1>9, <1>f DEF Failed
  <2>3. Below <= Len(stack) /\ \A i \in 1..Below : stack[i] \in Cell /\ stack[i] = Slot("below")
    BY <1>a, <1>b, <1>d, <2>2, ElementOfSeq DEF Upon
  <2>4. s \in Seq(Cell) /\ Upon(s, 0)
    BY <1>a, <2>3, SubSeqProperties DEF Upon
  <2> HIDE DEF s
  <2>5. stack' = s \o <<Slot("nil"), Slot("message")>> /\ pc' = "two"
    BY <1>9 DEF Failed, s
  <2>6. <<Slot("nil"), Slot("message")>> \in Seq(Cell)
    BY <1>a DEF Slot, Cell
  <2> DEFINE two == <<Slot("nil"), Slot("message")>>
  <2>8. Len(two) = 2 /\ two[2] = Slot("message") /\ two \in Seq(Cell) /\ stack' = s \o two
    BY <2>5, <2>6
  <2> HIDE DEF two
  <2>9. Len(s) = Below /\ \A i \in 1..Below : s[i] = Slot("below")
    BY <1>a, <2>4 DEF Upon
  <2>10. /\ Len(stack') = Len(s) + Len(two)
         /\ \A i \in 1..(Len(s) + Len(two)) :
              stack'[i] = IF i <= Len(s) THEN s[i] ELSE two[i - Len(s)]
    BY <2>4, <2>8, ConcatProperties
  <2>7. Upon(stack', 2) /\ stack'[Below + 2] = Slot("message")
    BY <1>a, <2>8, <2>9, <2>10 DEF Upon
  <2> QED
    BY <2>1, <2>5, <2>7 DEF StackInv
<1>10. CASE Read
  <2>1. KeyInv'
    BY <1>10, <1>e DEF Read, KeyInv
  <2>2. Len(open) = 0 /\ Keys(open) = 0 /\ tops = 1 /\ open = <<>>
    BY <1>10, <1>b, KeysFacts, EmptySeq DEF Read
  <2>3. Upon(stack, 1)
    BY <1>10, <1>f, <2>2 DEF Read
  <2>4. Upon(stack', 1)
    BY <1>10, <2>3 DEF Read
  <2> QED
    BY <1>10, <2>1, <2>4 DEF Read, StackInv
<1>11. CASE UpdateConfig
  <2>1. KeyInv'
    BY <1>11, <1>e DEF UpdateConfig, KeyInv
  <2>2. CASE pc = "one"
    <3>1. Upon(stack, 1) /\ stack' = SubSeq(stack, 1, Len(stack) - 1)
      BY <1>11, <1>e, <2>2 DEF UpdateConfig, StackInv, Drop
    <3>2. Upon(stack', 0)
      BY <1>b, <3>1, PopUpon
    <3> QED
      BY <1>11, <2>1, <3>2 DEF UpdateConfig, StackInv
  <2>3. CASE pc = "two"
    <3>1. Upon(stack, 2) /\ stack' = SubSeq(stack, 1, Len(stack) - 2)
      BY <1>11, <1>e, <2>3 DEF UpdateConfig, StackInv, Drop
    <3>2. Upon(stack', 0)
      BY <1>b, <3>1, PopUpon
    <3> QED
      BY <1>11, <2>1, <3>2 DEF UpdateConfig, StackInv
  <2> QED
    BY <1>11, <2>2, <2>3 DEF UpdateConfig
<1>12. CASE UNCHANGED vars
  BY <1>12, <1>e DEF vars, KeyInv, StackInv
<1> QED
  BY <1>1, <1>2, <1>5, <1>6, <1>7, <1>8, <1>9, <1>10, <1>11, <1>12 DEF Next

(* A table is above the one before it, and above the key between them; and *)
(* the next one would be on top of the stack.                              *)
LEMMA SpotFacts ==
  ASSUME NEW s \in Seq(Container)
  PROVE  /\ \A d \in 1..(Len(s) + 1) : Spot(s, d) \in Nat /\ Spot(s, d) >= Below + 1
         /\ Spot(s, Len(s) + 1) = Below + Len(s) + Keys(s) + 1
         /\ \A d \in 1..Len(s) : \A e \in (d + 1)..(Len(s) + 1) :
              Spot(s, d) + (IF s[d].last = "key" THEN 1 ELSE 0) < Spot(s, e)
         /\ \A d \in 1..Len(s) :
              Spot(s, d) + (IF s[d].last = "key" THEN 1 ELSE 0) + 1 = Spot(s, d + 1)
<1>1. Below \in Nat /\ Len(s) \in Nat
  BY BoundAssumption, LenProperties
<1>2. ASSUME NEW d \in 1..(Len(s) + 1)
      PROVE  IsFiniteSet(KeysBefore(s, d)) /\ Cardinality(KeysBefore(s, d)) \in Nat
  <2>1. KeysBefore(s, d) \subseteq KeySet(s)
    BY <1>1 DEF KeysBefore, KeySet
  <2>2. IsFiniteSet(KeysBefore(s, d))
    BY <2>1, KeysFacts, FS_Subset
  <2> QED
    BY <2>2, FS_CardinalityType
<1>3. \A d \in 1..(Len(s) + 1) : Spot(s, d) \in Nat /\ Spot(s, d) >= Below + 1
  BY <1>1, <1>2 DEF Spot
<1>4. Spot(s, Len(s) + 1) = Below + Len(s) + Keys(s) + 1
  <2>1. KeysBefore(s, Len(s) + 1) = KeySet(s)
    BY <1>1 DEF KeysBefore, KeySet
  <2>2. Keys(s) \in Nat
    BY KeysFacts
  <2> QED
    BY <1>1, <2>1, <2>2 DEF Spot, Keys
<1>5. ASSUME NEW d \in 1..Len(s)
      PROVE  Spot(s, d) + (IF s[d].last = "key" THEN 1 ELSE 0) + 1 = Spot(s, d + 1)
  <2> DEFINE Kb == KeysBefore(s, d)
             Ka == KeysBefore(s, d + 1)
  <2>1. d \in Nat /\ d \in 1..(Len(s) + 1) /\ d + 1 \in 1..(Len(s) + 1)
    BY <1>1
  <2>2. Ka = IF s[d].last = "key" THEN Kb \cup {d} ELSE Kb
    BY <2>1 DEF KeysBefore
  <2>3. d \notin Kb
    BY <2>1 DEF KeysBefore
  <2>4. IsFiniteSet(Kb) /\ Cardinality(Kb) \in Nat
    BY <1>2, <2>1
  <2>5. Spot(s, d) = Below + d + Cardinality(Kb) /\ Spot(s, d + 1) = Below + (d + 1) + Cardinality(Ka)
    BY DEF Spot
  <2> HIDE DEF Ka, Kb
  <2>6. Cardinality(Kb \cup {d}) = Cardinality(Kb) + 1
    BY <2>3, <2>4, FS_AddElement
  <2>7. Cardinality(Ka) = Cardinality(Kb) + (IF s[d].last = "key" THEN 1 ELSE 0)
    BY <2>2, <2>4, <2>6
  <2> QED
    BY <1>1, <2>1, <2>4, <2>5, <2>7
<1>6. ASSUME NEW d \in 1..(Len(s) + 1), NEW e \in d..(Len(s) + 1)
      PROVE  Spot(s, d) <= Spot(s, e)
  <2> DEFINE Kd == KeysBefore(s, d)
             Ke == KeysBefore(s, e)
  <2>1. d \in Nat /\ e \in Nat /\ d <= e /\ e \in 1..(Len(s) + 1)
    BY <1>1
  <2>2. Kd \subseteq Ke
    BY <2>1 DEF KeysBefore
  <2>3. IsFiniteSet(Ke) /\ Cardinality(Ke) \in Nat /\ Cardinality(Kd) \in Nat
    BY <1>2, <2>1
  <2>4. Cardinality(Kd) <= Cardinality(Ke)
    BY <2>2, <2>3, FS_Subset
  <2>5. Spot(s, d) = Below + d + Cardinality(Kd) /\ Spot(s, e) = Below + e + Cardinality(Ke)
    BY DEF Spot
  <2> HIDE DEF Kd, Ke
  <2> QED
    BY <1>1, <2>1, <2>3, <2>4, <2>5
<1>7. ASSUME NEW d \in 1..Len(s), NEW e \in (d + 1)..(Len(s) + 1)
      PROVE  Spot(s, d) + (IF s[d].last = "key" THEN 1 ELSE 0) < Spot(s, e)
  <2>1. d + 1 \in 1..(Len(s) + 1) /\ e \in 1..(Len(s) + 1) /\ d \in 1..(Len(s) + 1)
    BY <1>1
  <2>2. Spot(s, d + 1) <= Spot(s, e)
    BY <1>6, <2>1
  <2> QED
    BY <1>3, <1>5, <2>1, <2>2
<1> QED
  BY <1>3, <1>4, <1>5, <1>7

(* It depends on what is around it only. *)
LEMMA SpotSame ==
  ASSUME NEW s, NEW t, NEW d \in Nat, \A e \in 1..(d - 1) : s[e].last = t[e].last
  PROVE  Spot(s, d) = Spot(t, d)
<1>1. KeysBefore(s, d) = KeysBefore(t, d)
  BY DEF KeysBefore
<1> QED
  BY <1>1 DEF Spot

(* What is pushed on top of the stack is above all of them. *)
LEMMA PushStored ==
  ASSUME NEW o \in Seq(Container), NEW s \in Seq(Cell), NEW x \in Cell, NEW w,
         Upon(s, Len(o) + Keys(o)), Stored(o, s, w)
  PROVE  /\ Stored(o, Append(s, x), w)
         /\ Len(s) + 1 = Spot(o, Len(o) + 1) /\ Append(s, x)[Spot(o, Len(o) + 1)] = x
<1>1. Below \in Nat /\ Len(o) \in Nat /\ Keys(o) \in Nat
  BY BoundAssumption, LenProperties, KeysFacts
<1>2. Len(s) = Below + (Len(o) + Keys(o)) /\ Len(s) \in Nat
  BY <1>1 DEF Upon
<1>3. Len(s) + 1 = Spot(o, Len(o) + 1)
  BY <1>1, <1>2, SpotFacts
<1>4. /\ \A i \in 1..Len(s) : Append(s, x)[i] = s[i]
      /\ Append(s, x)[Len(s) + 1] = x
  BY AppendProperties
<1>5. ASSUME NEW d \in 1..Len(o)
      PROVE  /\ Append(s, x)[Spot(o, d)] = Table(o[d].table)
             /\ o[d].last = "key" => Append(s, x)[Spot(o, d) + 1] = Slot("key")
             /\ w[o[d].table] = o[d].count
  <2>1. /\ Spot(o, d) \in Nat /\ Spot(o, d) >= Below + 1
        /\ Spot(o, d) + (IF o[d].last = "key" THEN 1 ELSE 0) < Len(s) + 1
    <3>1. d \in 1..(Len(o) + 1) /\ Len(o) + 1 \in (d + 1)..(Len(o) + 1)
      BY <1>1
    <3> QED
      BY <1>3, <3>1, SpotFacts
  <2>2. /\ s[Spot(o, d)] = Table(o[d].table)
        /\ o[d].last = "key" => s[Spot(o, d) + 1] = Slot("key")
        /\ w[o[d].table] = o[d].count
    BY DEF Stored
  <2>3. Spot(o, d) \in 1..Len(s)
    BY <1>1, <1>2, <2>1
  <2>4. o[d].last = "key" => Spot(o, d) + 1 \in 1..Len(s)
    BY <1>1, <1>2, <2>1
  <2> QED
    BY <1>4, <2>2, <2>3, <2>4
<1> QED
  BY <1>3, <1>4, <1>5 DEF Stored

(* Ctx::submit gives the value to the innermost table of what is open, and *)
(* the others keep theirs.                                                 *)
LEMMA SubmitStores ==
  ASSUME NEW c \in Context, NEW s \in Seq(Cell), NEW o \in Seq(Container),
         Fits(c, o), o # <<>> => Ready(o[Len(o)]),
         Upon(s, Len(o) + Keys(o) + 1), Stored(o, s, writes), Apart(o),
         writes \in [0..MaxTables -> Nat], made \in 0..MaxTables, Submit(c, s)
  PROVE  /\ Stored(Counted(o), stack', writes')
         /\ \A id \in 0..MaxTables : id \notin 1..made => writes'[id] = writes[id]
<1>1. Below \in Nat /\ Len(o) \in Nat /\ Keys(o) \in Nat /\ MaxTables \in Nat
  BY BoundAssumption, LenProperties, KeysFacts
<1>2. Len(s) = Below + (Len(o) + Keys(o) + 1) /\ Len(s) \in Nat
  BY <1>1 DEF Upon
<1>3. Len(s) = Spot(o, Len(o) + 1)
  BY <1>1, <1>2, SpotFacts
<1>4. CASE o = <<>>
  <2>1. Counted(o) = <<>> /\ Len(<<>>) = 0 /\ c.fn = "none"
    BY <1>4, EmptySeq DEF Counted, Fits, NoContext
  <2>2. writes' = writes
    BY <2>1 DEF Submit
  <2> QED
    BY <2>1, <2>2 DEF Stored
<1>5. CASE o # <<>>
  <2> DEFINE n == Len(o)
             id == o[n].table
             p == Popped(c)
  <2>1. n \in 1..n /\ n \in Nat /\ o[n] \in Container
    BY <1>5, EmptySeq, ElementOfSeq
  <2>2. c.fn = o[n].kind /\ Ready(o[n])
    BY <1>5 DEF Fits, Agrees
  <2>3. p = 1 + (IF o[n].last = "key" THEN 1 ELSE 0) /\ c.fn # "none"
    BY <2>1, <2>2 DEF Popped, Ready, Container
  <2>4. n \in 1..(n + 1)
    BY <2>1
  <2>5. Spot(o, n) \in Nat /\ Spot(o, n) >= Below + 1
    BY <2>4, SpotFacts
  <2>6. Spot(o, n) + (IF o[n].last = "key" THEN 1 ELSE 0) + 1 = Spot(o, n + 1)
    BY <2>1, SpotFacts
  <2> HIDE DEF p
  <2>7. Len(s) - p = Spot(o, n) /\ p \in Nat
    BY <1>2, <1>3, <2>3, <2>5, <2>6
  <2>8. Target(c, s) = Table(id)
    <3>1. s[Spot(o, n)] = Table(o[n].table)
      BY <2>1 DEF Stored
    <3> QED
      BY <2>7, <3>1 DEF Target, p
  <2>9. stack' = SubSeq(s, 1, Spot(o, n))
    BY <2>7 DEF Submit, p
  <2>10. writes' = [writes EXCEPT ![id] = writes[id] + 1]
    BY <2>3, <2>8 DEF Submit, Table
  <2>11. id \in 1..made /\ id \in 0..MaxTables
    BY <1>1, <2>1 DEF Apart
  <2> HIDE DEF id
  <2>12. /\ writes'[id] = writes[id] + 1
         /\ \A i \in 0..MaxTables : i # id => writes'[i] = writes[i]
    BY <2>10, <2>11
  <2>13. \A i \in 1..Spot(o, n) : stack'[i] = s[i]
    <3>1. Spot(o, n) <= Len(s)
      BY <1>2, <2>5, <2>7
    <3>2. \A i \in 1..Spot(o, n) : s[i] \in Cell
      BY <1>2, <2>5, <3>1, ElementOfSeq
    <3> QED
      BY <1>2, <2>5, <2>9, <3>1, <3>2, SubSeqProperties
  <2>14. /\ Len(Counted(o)) = n /\ Counted(o)[n].last = "value"
         /\ Counted(o)[n].count = o[n].count + 1
         /\ \A d \in 1..(n - 1) : Counted(o)[d] = o[d]
    BY <1>5, CountedFacts
  <2>15. Counted(o)[n].table = o[n].table
    BY <1>5, <2>1 DEF Counted, Container
  <2>16. ASSUME NEW d \in 1..n PROVE Spot(Counted(o), d) = Spot(o, d)
    <3>1. d \in Nat /\ \A e \in 1..(d - 1) : Counted(o)[e].last = o[e].last
      BY <2>1, <2>14
    <3> QED
      BY <3>1, SpotSame
  <2>17. ASSUME NEW d \in 1..n
         PROVE  /\ stack'[Spot(Counted(o), d)] = Table(Counted(o)[d].table)
                /\ Counted(o)[d].last = "key" => stack'[Spot(Counted(o), d) + 1] = Slot("key")
                /\ writes'[Counted(o)[d].table] = Counted(o)[d].count
    <3>1. /\ s[Spot(o, d)] = Table(o[d].table)
          /\ o[d].last = "key" => s[Spot(o, d) + 1] = Slot("key")
          /\ writes[o[d].table] = o[d].count
      BY DEF Stored
    <3>2. CASE d = n
      <4>1. stack'[Spot(o, n)] = s[Spot(o, n)]
        <5>1. Spot(o, n) \in 1..Spot(o, n)
          BY <1>1, <2>5
        <5> QED
          BY <2>13, <5>1
      <4>2. writes'[o[n].table] = o[n].count + 1
        BY <2>12, <3>1, <3>2 DEF id
      <4> QED
        BY <2>14, <2>15, <2>16, <3>1, <3>2, <4>1, <4>2
    <3>3. CASE d # n
      <4>1. d \in 1..(n - 1) /\ n \in (d + 1)..(n + 1) /\ d \in 1..(n + 1)
        BY <2>1, <3>3
      <4>2. /\ Spot(o, d) \in Nat /\ Spot(o, d) >= Below + 1
            /\ Spot(o, d) + (IF o[d].last = "key" THEN 1 ELSE 0) < Spot(o, n)
        BY <4>1, SpotFacts
      <4>3. Spot(o, d) \in 1..Spot(o, n) /\ (o[d].last = "key" => Spot(o, d) + 1 \in 1..Spot(o, n))
        BY <1>1, <2>5, <4>2
      <4>4. stack'[Spot(o, d)] = s[Spot(o, d)]
        BY <2>13, <4>3
      <4>5. o[d].last = "key" => stack'[Spot(o, d) + 1] = s[Spot(o, d) + 1]
        BY <2>13, <4>3
      <4>6. o[d].table # id /\ o[d].table \in 0..MaxTables
        BY <1>1, <2>1, <3>3 DEF Apart, id
      <4>7. writes'[o[d].table] = writes[o[d].table]
        BY <2>12, <4>6
      <4> QED
        BY <2>14, <2>16, <3>1, <4>1, <4>4, <4>5, <4>7
    <3> QED
      BY <3>2, <3>3
  <2>18. Stored(Counted(o), stack', writes')
    BY <2>14, <2>17 DEF Stored
  <2> QED
    BY <2>11, <2>12, <2>18
<1> QED
  BY <1>4, <1>5

(* A value counted, a container's table is the same. *)
LEMMA CountedApart ==
  ASSUME NEW s \in Seq(Container), Apart(s)
  PROVE  Apart(Counted(s))
<1>1. CASE s = <<>>
  BY <1>1 DEF Counted
<1>2. CASE s # <<>>
  <2>1. Len(s) \in 1..Len(s) /\ s[Len(s)] \in Container
    BY <1>2, EmptySeq, ElementOfSeq
  <2>2. Len(Counted(s)) = Len(s) /\ \A d \in 1..(Len(s) - 1) : Counted(s)[d] = s[d]
    BY CountedFacts
  <2>3. Counted(s)[Len(s)].table = s[Len(s)].table
    BY <1>2, <2>1 DEF Counted, Container
  <2>4. ASSUME NEW d \in 1..Len(s) PROVE Counted(s)[d].table = s[d].table
    <3>1. CASE d = Len(s)
      BY <2>3, <3>1
    <3>2. CASE d # Len(s)
      BY <2>1, <2>2, <3>2
    <3> QED
      BY <3>1, <3>2
  <2> QED
    BY <2>2, <2>4 DEF Apart
<1> QED
  BY <1>1, <1>2

LEMMA Decoding == Spec => []DecodeInv
<1>1. DecodeInv /\ [Next]_vars => DecodeInv'
  BY ContextStep, StackStep DEF DecodeInv
<1> QED
  BY <1>1, DecodeInit, PTL DEF Spec

(* Every value on the Lua stack is of the kinds the handler pushes, and    *)
(* handler.stack is as deep as what is open.                               *)
THEOREM TypeCorrect == Spec => []TypeOK
<1>1. DecodeInv => TypeOK
  BY DEF DecodeInv, ContextInv
<1> QED
  BY <1>1, Decoding, PTL

(* The assertion of EndArray holds for every document, however its arrays  *)
(* and objects are nested.                                                 *)
THEOREM CountsAgreeAlways == Spec => []CountsAgree
<1>1. DecodeInv => CountsAgree
  BY DEF DecodeInv, ContextInv, CountsAgree, Fits, Agrees, Inner
<1> QED
  BY <1>1, Decoding, PTL

(* The stack is never higher than its depth says once a handler function   *)
(* has returned, ...                                                       *)
HeightNow ==
  Len(stack) <= Below + (IF pc = "reading" /\ open # <<>> THEN 2 * Len(open) ELSE 2)

LEMMA HeightBetween == DecodeInv => HeightNow
<1> SUFFICES ASSUME DecodeInv PROVE HeightNow
  OBVIOUS
<1>1. /\ Below \in Nat /\ StackInv /\ open \in Seq(Container) /\ tops \in 0..1
      /\ pc \in {"reading", "one", "two", "done"}
  BY BoundAssumption DEF DecodeInv, ContextInv, TypeOK
<1>2. Len(open) \in Nat
  BY <1>1, LenProperties
<1>3. Keys(open) \in Nat /\ Keys(open) <= Len(open)
  <2>1. IsFiniteSet(1..Len(open)) /\ Cardinality(1..Len(open)) = Len(open)
    BY <1>2, FS_Interval
  <2>2. KeySet(open) \subseteq 1..Len(open) /\ Keys(open) \in Nat
    BY <1>1, KeysFacts
  <2> QED
    BY <2>1, <2>2, FS_Subset DEF Keys
<1>4. CASE pc = "reading" /\ open # <<>>
  <2>1. Len(stack) = Below + (Len(open) + Keys(open))
    BY <1>1, <1>2, <1>3, <1>4 DEF StackInv, Upon
  <2> QED
    BY <1>1, <1>2, <1>3, <1>4, <2>1 DEF HeightNow
<1>5. CASE pc = "reading" /\ open = <<>>
  <2>1. Keys(open) = 0 /\ Len(open) = 0
    BY <1>1, <1>5, KeysFacts, EmptySeq
  <2>2. Len(stack) = Below + tops
    BY <1>1, <1>5, <2>1 DEF StackInv, Upon
  <2> QED
    BY <1>1, <1>5, <2>2 DEF HeightNow
<1>6. CASE pc # "reading"
  <2>1. Len(stack) \in {Below, Below + 1, Below + 2}
    <3>1. CASE pc = "one"
      BY <1>1, <3>1 DEF StackInv, Upon
    <3>2. CASE pc = "two"
      BY <1>1, <3>2 DEF StackInv, Upon
    <3>3. CASE pc = "done"
      BY <1>1, <3>3 DEF StackInv, Upon
    <3> QED
      BY <1>1, <1>6, <3>1, <3>2, <3>3
  <2> QED
    BY <1>1, <1>6, <2>1 DEF HeightNow
<1> QED
  BY <1>4, <1>5, <1>6

LEMMA DeeperIsHigher ==
  ASSUME NEW p \in Nat, NEW b \in Nat, NEW d \in Nat, NEW e \in Nat, d <= e, e # 0,
         p <= b + (IF d = 0 THEN 2 ELSE 2 * d + 1)
  PROVE  p <= b + (2 * e + 1)
<1>1. p <= b + 2 \/ p <= b + (2 * d + 1)
  OBVIOUS
<1> QED
  BY <1>1

(* ... and has one slot more only while a value is being stored.           *)
PeakInv == Len(open) <= deep /\ HeightBound

LEMMA PeakStep == DecodeInv /\ PeakInv /\ [Next]_vars => PeakInv'
<1> SUFFICES ASSUME DecodeInv, PeakInv, [Next]_vars PROVE PeakInv'
  OBVIOUS
<1>1. /\ TypeOK /\ Below \in Nat /\ peak \in Nat /\ deep \in Nat
      /\ Len(stack) \in Nat /\ Len(open) \in Nat /\ open \in Seq(Container)
      /\ (Len(open) = 0 <=> open = <<>>)
  BY BoundAssumption, EmptySeq, LenProperties DEF DecodeInv, ContextInv, TypeOK
<1>2. pc = "reading" => Below <= Len(stack)
  BY <1>1, KeysFacts DEF DecodeInv, ContextInv, TypeOK, StackInv, Upon
<1>3. HeightNow /\ Len(open) <= deep /\ peak <= Below + (IF deep = 0 THEN 2 ELSE 2 * deep + 1)
  BY HeightBetween DEF PeakInv, HeightBound
<1>4. ASSUME WantsValue \/ Key
      PROVE  Len(stack) + 1 <= Below + (IF Len(open) = 0 THEN 1 ELSE 2 * Len(open) + 1)
  <2>1. CASE open = <<>>
    <3>1. pc = "reading" /\ tops = 0
      BY <1>4, <2>1 DEF WantsValue, Key
    <3>2. Keys(open) = 0
      BY <1>1, <2>1, KeysFacts
    <3>3. Upon(stack, Len(open) + Keys(open) + tops)
      BY <2>1, <3>1 DEF DecodeInv, StackInv
    <3> QED
      BY <1>1, <2>1, <3>1, <3>2, <3>3 DEF Upon
  <2>2. CASE open # <<>>
    <3>1. pc = "reading"
      BY <1>4 DEF WantsValue, Key
    <3>2. Len(stack) <= Below + 2 * Len(open)
      BY <1>3, <2>2, <3>1 DEF HeightNow
    <3> QED
      BY <1>1, <2>2, <3>2
  <2> QED
    BY <2>1, <2>2
<1>5. ASSUME Level PROVE Len(open') <= Len(open)
  <2>1. CASE EndObject \/ EndArray
    <3>1. open # <<>> /\ open' = Counted(SubSeq(open, 1, Len(open) - 1))
      BY <2>1 DEF EndObject, EndArray, End
    <3> DEFINE s == SubSeq(open, 1, Len(open) - 1)
    <3>2. Len(open) - 1 \in Nat /\ \A i \in 1..(Len(open) - 1) : open[i] \in Container
      BY <1>1, <3>1, ElementOfSeq
    <3>3. /\ open \in Seq(Container) /\ 1 \in 1..(Len(open) + 1)
          /\ Len(open) - 1 \in (1 - 1)..Len(open) /\ Len(open) - 1 - 1 + 1 = Len(open) - 1
      BY <1>1, <3>2
    <3>5. s \in Seq(Container) /\ Len(s) = Len(open) - 1
      BY <3>3, SubSeqProperties
    <3>4. open' = Counted(s)
      BY <3>1
    <3> HIDE DEF s
    <3> QED
      BY <1>1, <3>5, <3>4, CountedFacts
  <2>2. CASE Read \/ UpdateConfig \/ UNCHANGED vars
    BY <1>1, <2>2 DEF Read, UpdateConfig, vars
  <2> QED
    BY <1>5, <2>1, <2>2 DEF Level
<1>6. Len(open') \in Nat
  BY ContextStep, LenProperties DEF ContextInv, TypeOK
<1>7. CASE Level /\ UNCHANGED <<peak, deep>>
  <2>1. Len(open') <= deep'
    BY <1>1, <1>3, <1>5, <1>6, <1>7
  <2> QED
    BY <1>3, <1>7, <2>1 DEF PeakInv, HeightBound
<1>8. CASE (Scalar \/ Key) /\ peak' = Most(peak, Len(stack) + 1) /\ deep' = deep
  <2>1. WantsValue \/ Key
    BY <1>8 DEF Scalar
  <2>2. Len(open') = Len(open)
    <3>1. CASE Scalar
      BY <1>1, <3>1, CountedFacts DEF Scalar
    <3>2. CASE Key
      BY <1>1, <3>2 DEF Key
    <3> QED
      BY <1>8, <3>1, <3>2
  <2>3. Len(stack) + 1 <= Below + (IF deep = 0 THEN 2 ELSE 2 * deep + 1)
    BY <1>1, <1>3, <1>4, <2>1
  <2> QED
    BY <1>1, <1>3, <1>8, <2>2, <2>3 DEF PeakInv, HeightBound, Most
<1>9. CASE /\ StartObject \/ StartArray
           /\ peak' = Most(peak, Len(stack) + 1)
           /\ deep' = Most(deep, Len(open) + 1) /\ Len(open') = Len(open) + 1
  <2>1. WantsValue
    BY <1>9 DEF StartObject, StartArray, Start
  <2>2. Len(open') <= deep' /\ deep' \in Nat /\ deep <= deep' /\ deep' # 0
    BY <1>1, <1>9 DEF Most
  <2>3. Len(stack) + 1 <= Below + (2 * deep' + 1)
    BY <1>1, <1>4, <1>9, <2>1, <2>2
  <2>4. peak <= Below + (2 * deep' + 1)
    <3>1. peak \in Nat /\ Below \in Nat /\ deep \in Nat
      BY <1>1
    <3> QED
      BY <1>3, <2>2, <3>1, DeeperIsHigher
  <2> QED
    BY <1>9, <2>2, <2>3, <2>4 DEF PeakInv, HeightBound, Most
<1>10. CASE Failed /\ peak' = Most(peak, Below + 2) /\ deep' = deep
  <2>1. open' = open
    BY <1>10 DEF Failed
  <2>2. Below + 2 <= Below + (IF deep = 0 THEN 2 ELSE 2 * deep + 1)
    BY <1>1
  <2> QED
    BY <1>3, <1>10, <2>1, <2>2 DEF PeakInv, HeightBound, Most
<1> QED
  BY <1>1, <1>2, <1>7, <1>8, <1>9, <1>10, PeakMoves

LEMMA PeakAlways == Spec => [](DecodeInv /\ PeakInv)
<1>1. Init => DecodeInv /\ PeakInv
  BY DecodeInit, EmptySeq, BoundAssumption DEF Init, PeakInv, HeightBound
<1>2. DecodeInv /\ PeakInv /\ [Next]_vars => (DecodeInv /\ PeakInv)'
  BY ContextStep, StackStep, PeakStep DEF DecodeInv
<1> QED
  BY <1>1, <1>2, PTL DEF Spec

(* However long a document is, the stack never gets higher than its depth  *)
(* says, the moments in which a value waits to be stored included.         *)
THEOREM HeightBounded == Spec => []HeightBound
<1>1. DecodeInv /\ PeakInv => HeightBound
  BY DEF PeakInv
<1> QED
  BY <1>1, PeakAlways, PTL

(* Whatever the text, and wherever it breaks off, update_config leaves the *)
(* engine's stack as it found it.                                          *)
THEOREM BalancedAlways == Spec => []Balanced
<1>1. DecodeInv => Balanced
  <2> SUFFICES ASSUME DecodeInv PROVE Balanced
    OBVIOUS
  <2>1. Below \in Nat /\ stack \in Seq(Cell) /\ StackInv
    BY BoundAssumption DEF DecodeInv, ContextInv, TypeOK, Cell
  <2>2. ASSUME pc = "done" PROVE stack = [i \in 1..Below |-> Slot("below")]
    <3>1. Upon(stack, 0)
      BY <2>1, <2>2 DEF StackInv
    <3>2. Len(stack) = Below /\ \A i \in 1..Below : stack[i] = Slot("below")
      BY <2>1, <3>1 DEF Upon
    <3>3. DOMAIN stack = 1..Below /\ stack \in [1..Below -> Cell]
      BY <2>1, <3>2, LenProperties
    <3> QED
      BY <3>2, <3>3
  <2>3. ASSUME pc = "two" PROVE stack[Len(stack)] = Slot("message")
    BY <2>1, <2>3 DEF StackInv, Upon
  <2> QED
    BY <2>2, <2>3 DEF Balanced
<1> QED
  BY <1>1, Decoding, PTL

(* Values are stored where they belong, at every token. *)
LEMMA StoreStep == DecodeInv /\ StoreInv /\ [Next]_vars => StoreInv'
<1> SUFFICES ASSUME DecodeInv, StoreInv, [Next]_vars PROVE StoreInv'
  OBVIOUS
<1>a. Below \in Nat /\ MaxTables \in Nat
  BY BoundAssumption
<1>b. /\ stack \in Seq(Cell) /\ open \in Seq(Container) /\ context \in Context
      /\ outer \in Seq(Context) /\ Len(outer) = Len(open)
      /\ writes \in [0..MaxTables -> Nat] /\ tops \in 0..1 /\ made \in 0..MaxTables
  BY DEF DecodeInv, ContextInv, TypeOK, Cell
<1>c. Fits(context, open) /\ Saves(outer, open) /\ KeyInv
  BY DEF DecodeInv, ContextInv
<1>d. Len(open) \in Nat /\ Keys(open) \in Nat
  BY <1>b, LenProperties, KeysFacts
<1>e. writes[0] = 0
  BY DEF StoreInv
<1>f. ASSUME pc = "reading"
      PROVE  /\ Stored(open, stack, writes) /\ Apart(open)
             /\ \A id \in (made + 1)..MaxTables : writes[id] = 0
             /\ Upon(stack, Len(open) + Keys(open) + (IF open = <<>> THEN tops ELSE 0))
  BY <1>f DEF StoreInv, DecodeInv, StackInv
<1>g. ASSUME open # <<>> PROVE Len(open) \in 1..Len(open) /\ open[Len(open)] \in Container
  BY <1>b, <1>g, EmptySeq, ElementOfSeq
<1>h. ASSUME WantsValue PROVE pc = "reading" /\ Upon(stack, Len(open) + Keys(open))
  BY <1>d, <1>f, <1>h DEF WantsValue
<1>i. ASSUME WantsValue, open # <<>> PROVE Ready(open[Len(open)])
  BY <1>c, <1>g, <1>i DEF WantsValue, Inner, KeyInv, Ready, Container
<1>1. CASE Scalar
  <2>1. Slot("value") \in Cell /\ pc = "reading" /\ pc' = pc /\ made' = made
    BY <1>1, <1>a, <1>h DEF Scalar, Slot, Cell
  <2>2. /\ Append(stack, Slot("value")) \in Seq(Cell)
        /\ Upon(Append(stack, Slot("value")), Len(open) + Keys(open) + 1)
    BY <1>1, <1>b, <1>d, <1>h, <2>1, PushUpon DEF Scalar
  <2>3. Stored(open, Append(stack, Slot("value")), writes)
    BY <1>1, <1>b, <1>f, <1>h, <2>1, PushStored DEF Scalar
  <2>4. /\ Stored(Counted(open), stack', writes')
        /\ \A id \in 0..MaxTables : id \notin 1..made => writes'[id] = writes[id]
    BY <1>1, <1>b, <1>c, <1>f, <1>i, <2>1, <2>2, <2>3, SubmitStores DEF Scalar
  <2>5. open' = Counted(open)
    BY <1>1 DEF Scalar
  <2>6. Apart(Counted(open))
    BY <1>b, <1>f, <2>1, CountedApart
  <2>7. Apart(open)'
    BY <2>1, <2>5, <2>6 DEF Apart
  <2>8. writes'[0] = 0 /\ \A id \in (made + 1)..MaxTables : writes'[id] = 0
    BY <1>a, <1>b, <1>e, <1>f, <2>1, <2>4
  <2> QED
    BY <2>1, <2>4, <2>5, <2>7, <2>8 DEF StoreInv
<1>2. CASE Key
  <2> DEFINE n == Len(open)
             new == [open[n] EXCEPT !.last = "key"]
  <2>1. n \in 1..n /\ open[n] \in Container /\ open # <<>> /\ n \in Nat
    BY <1>2, <1>d, <1>g DEF Key
  <2>2. /\ new \in Container /\ new.last = "key"
        /\ new.table = open[n].table /\ new.count = open[n].count
    BY <2>1 DEF Container
  <2>3. open' = [open EXCEPT ![n] = new]
    BY <1>2, <2>1 DEF Key, Container
  <2> HIDE DEF new
  <2>4. /\ open' \in Seq(Container) /\ Len(open') = n
        /\ \A j \in 1..n : open'[j] = IF j = n THEN new ELSE open[j]
    BY <1>b, <2>1, <2>2, <2>3, ExceptSeq
  <2>5. /\ pc' = pc /\ pc = "reading" /\ stack' = Append(stack, Slot("key"))
        /\ writes' = writes /\ made' = made /\ open[n].last = "value"
    BY <1>2, <2>1 DEF Key, Inner
  <2>6. Slot("key") \in Cell
    BY <1>a DEF Slot, Cell
  <2>7. Upon(stack, Len(open) + Keys(open)) /\ Stored(open, stack, writes)
    BY <1>d, <1>f, <2>1, <2>5
  <2>8. /\ Stored(open, stack', writes)
        /\ stack'[Spot(open, n + 1)] = Slot("key")
    BY <1>b, <2>5, <2>6, <2>7, PushStored
  <2>9. Spot(open, n) \in Nat /\ Spot(open, n + 1) = Spot(open, n) + 1
    <3>1. n \in 1..(n + 1)
      BY <2>1
    <3>2. Spot(open, n) + (IF open[n].last = "key" THEN 1 ELSE 0) + 1 = Spot(open, n + 1)
      BY <1>b, <2>1, SpotFacts
    <3>3. Spot(open, n) \in Nat
      BY <1>b, <3>1, SpotFacts
    <3> QED
      BY <2>5, <3>2, <3>3
  <2>10. ASSUME NEW d \in 1..n PROVE Spot(open', d) = Spot(open, d)
    <3>1. d \in Nat /\ \A e \in 1..(d - 1) : open'[e].last = open[e].last
      BY <2>1, <2>4
    <3> QED
      BY <3>1, SpotSame
  <2>11. Stored(open', stack', writes')
    <3> SUFFICES ASSUME NEW d \in 1..n
                 PROVE  /\ stack'[Spot(open', d)] = Table(open'[d].table)
                        /\ open'[d].last = "key" => stack'[Spot(open', d) + 1] = Slot("key")
                        /\ writes'[open'[d].table] = open'[d].count
      BY <2>4 DEF Stored
    <3>1. /\ stack'[Spot(open, d)] = Table(open[d].table)
          /\ open[d].last = "key" => stack'[Spot(open, d) + 1] = Slot("key")
          /\ writes[open[d].table] = open[d].count
      BY <2>8 DEF Stored
    <3>2. CASE d = n
      BY <2>2, <2>4, <2>5, <2>8, <2>9, <2>10, <3>1, <3>2
    <3>3. CASE d # n
      BY <2>4, <2>5, <2>10, <3>1, <3>3
    <3> QED
      BY <3>2, <3>3
  <2>12. \A d \in 1..n : open'[d].table = open[d].table
    BY <2>2, <2>4
  <2>13. Apart(open)'
    BY <1>f, <2>4, <2>5, <2>12 DEF Apart
  <2> QED
    BY <1>e, <1>f, <2>5, <2>11, <2>13 DEF StoreInv
<1>3. ASSUME NEW kind \in {"object", "array"}, NEW c, Start(kind, c) PROVE StoreInv'
  <2> DEFINE n == Len(open)
             new == [kind |-> kind, table |-> made', count |-> 0, last |-> "value"]
  <2>1. made' \in 1..MaxTables /\ made' = made + 1 /\ made' \in (made + 1)..MaxTables
    BY <1>3, <1>a, <1>b DEF Start
  <2>2. /\ new \in Container /\ Table(made') \in Cell
        /\ new.last = "value" /\ new.table = made' /\ new.count = 0
    BY <2>1 DEF Container, Cell, Table
  <2>3. /\ open' = Append(open, new) /\ pc' = "reading" /\ pc = "reading"
        /\ stack' = Append(stack, Table(made')) /\ writes' = writes
    BY <1>3 DEF Start, WantsValue
  <2> HIDE DEF new
  <2>4. /\ open' \in Seq(Container) /\ Len(open') = n + 1
        /\ open'[n + 1] = new /\ \A d \in 1..n : open'[d] = open[d]
    BY <1>b, <2>2, <2>3, AppendProperties
  <2>5. Upon(stack, n + Keys(open)) /\ Stored(open, stack, writes)
    BY <1>3, <1>f, <1>h, <2>3 DEF Start
  <2>6. /\ Stored(open, stack', writes)
        /\ stack'[Spot(open, n + 1)] = Table(made')
    BY <1>b, <2>2, <2>3, <2>5, PushStored
  <2>7. ASSUME NEW d \in 1..(n + 1) PROVE Spot(open', d) = Spot(open, d)
    <3>1. d \in Nat /\ \A e \in 1..(d - 1) : open'[e].last = open[e].last
      BY <1>d, <2>4
    <3> QED
      BY <3>1, SpotSame
  <2>8. writes[made'] = 0
    BY <1>f, <2>1, <2>3
  <2>9. Stored(open', stack', writes')
    <3> SUFFICES ASSUME NEW d \in 1..(n + 1)
                 PROVE  /\ stack'[Spot(open', d)] = Table(open'[d].table)
                        /\ open'[d].last = "key" => stack'[Spot(open', d) + 1] = Slot("key")
                        /\ writes'[open'[d].table] = open'[d].count
      BY <2>4 DEF Stored
    <3>1. CASE d = n + 1
      BY <2>2, <2>3, <2>4, <2>6, <2>7, <2>8, <3>1
    <3>2. CASE d # n + 1
      <4>1. d \in 1..n
        BY <1>d, <3>2
      <4>2. /\ stack'[Spot(open, d)] = Table(open[d].table)
            /\ open[d].last = "key" => stack'[Spot(open, d) + 1] = Slot("key")
            /\ writes[open[d].table] = open[d].count
        BY <2>6, <4>1 DEF Stored
      <4> QED
        BY <2>3, <2>4, <2>7, <4>1, <4>2
    <3> QED
      BY <3>1, <3>2
  <2>10. Apart(open)'
    <3> SUFFICES ASSUME NEW d \in 1..(n + 1)
                 PROVE  /\ open'[d].table \in 1..made'
                        /\ \A e \in 1..(n + 1) : open'[e].table = open'[d].table => e = d
      BY <2>4 DEF Apart
    <3>1. \A i \in 1..n : open'[i].table = open[i].table /\ open[i].table \in 1..made
      BY <1>f, <2>3, <2>4 DEF Apart
    <3>2. open'[n + 1].table = made'
      BY <2>2, <2>4
    <3>3. \A i \in 1..n : open'[i].table # made'
      BY <1>b, <2>1, <3>1
    <3>4. open'[d].table \in 1..made'
      BY <1>b, <1>d, <2>1, <3>1, <3>2
    <3>5. ASSUME NEW e \in 1..(n + 1), open'[e].table = open'[d].table PROVE e = d
      <4>1. CASE d \in 1..n /\ e \in 1..n
        BY <1>f, <2>3, <3>1, <3>5, <4>1 DEF Apart
      <4>2. CASE d = n + 1 \/ e = n + 1
        BY <1>d, <3>2, <3>3, <3>5, <4>2
      <4> QED
        BY <1>d, <4>1, <4>2
    <3> QED
      BY <3>4, <3>5
  <2>11. \A id \in (made' + 1)..MaxTables : writes'[id] = 0
    BY <1>a, <1>b, <1>f, <2>1, <2>3
  <2> QED
    BY <1>e, <2>3, <2>9, <2>10, <2>11 DEF StoreInv
<1>4. ASSUME NEW kind, End(kind) PROVE StoreInv'
  <2> DEFINE n == Len(open)
             s == SubSeq(open, 1, n - 1)
  <2>1. n \in 1..Len(open) /\ n \in 1..Len(outer) /\ n \in Nat /\ open # <<>>
    BY <1>4, <1>b, <1>d, <1>g DEF End
  <2>2. s \in Seq(Container) /\ Len(s) = n - 1 /\ \A d \in 1..(n - 1) : s[d] = open[d]
    BY <1>b, <2>1, SubSeqProperties
  <2>3. outer[n] \in Context
    BY <1>b, <2>1, ElementOfSeq
  <2>4. /\ open' = Counted(s) /\ pc' = "reading" /\ pc = "reading" /\ made' = made
        /\ Submit(outer[n], stack) /\ open[n].last = "value"
    BY <1>4, <1>b DEF End, Inner
  <2> HIDE DEF n, s
  <2>5. n = Len(open)
    BY DEF n
  <2>6. Fits(outer[n], s)
    <3>1. CASE n = 1
      <4>1. s = <<>>
        BY <2>2, <3>1, EmptySeq
      <4> QED
        BY <1>c, <2>1, <3>1, <4>1 DEF Saves, Fits
    <3>2. CASE n # 1
      <4>1. s # <<>> /\ n - 1 \in 1..(n - 1) /\ s[Len(s)] = open[n - 1]
        BY <2>1, <2>2, <3>2, EmptySeq
      <4> QED
        BY <1>c, <2>1, <3>2, <4>1 DEF Saves, Fits
    <3> QED
      BY <3>1, <3>2
  <2>7. s # <<>> => Ready(s[Len(s)])
    <3>1. \A d \in 1..(n - 1) : Ready(s[d])
      BY <1>c, <2>2, <2>5 DEF KeyInv
    <3> QED
      BY <2>2, <3>1, EmptySeq
  <2>8. Keys(s) = Keys(open)
    <3>1. KeySet(s) = KeySet(open)
      BY <2>1, <2>2, <2>4, <2>5 DEF KeySet
    <3> QED
      BY <3>1 DEF Keys
  <2>9. Upon(stack, Len(s) + Keys(s) + 1)
    <3>1. Upon(stack, Len(open) + Keys(open) + 0)
      BY <1>f, <2>1, <2>4
    <3>2. Len(open) + Keys(open) + 0 = Len(s) + Keys(s) + 1
      BY <1>d, <2>2, <2>5, <2>8
    <3> QED
      BY <3>1, <3>2
  <2>10. Stored(s, stack, writes)
    <3> SUFFICES ASSUME NEW d \in 1..(n - 1)
                 PROVE  /\ stack[Spot(s, d)] = Table(s[d].table)
                        /\ s[d].last = "key" => stack[Spot(s, d) + 1] = Slot("key")
                        /\ writes[s[d].table] = s[d].count
      BY <2>2 DEF Stored
    <3>1. d \in Nat /\ d \in 1..Len(open) /\ \A e \in 1..(d - 1) : s[e].last = open[e].last
      BY <2>1, <2>2, <2>5
    <3>2. Spot(s, d) = Spot(open, d)
      BY <3>1, SpotSame
    <3> QED
      BY <1>f, <2>2, <2>4, <3>1, <3>2 DEF Stored
  <2>11. Apart(s)
    BY <1>f, <2>1, <2>2, <2>4, <2>5 DEF Apart
  <2>12. /\ Stored(Counted(s), stack', writes')
         /\ \A id \in 0..MaxTables : id \notin 1..made => writes'[id] = writes[id]
    BY <1>b, <2>2, <2>3, <2>4, <2>6, <2>7, <2>9, <2>10, <2>11, SubmitStores
  <2>13. Apart(Counted(s))
    BY <2>2, <2>11, CountedApart
  <2>14. Apart(open)'
    BY <2>4, <2>13 DEF Apart
  <2>15. writes'[0] = 0 /\ \A id \in (made + 1)..MaxTables : writes'[id] = 0
    BY <1>a, <1>b, <1>e, <1>f, <2>4, <2>12
  <2> QED
    BY <2>4, <2>12, <2>14, <2>15 DEF StoreInv
<1>5. CASE StartObject
  BY <1>3, <1>5 DEF StartObject
<1>6. CASE StartArray
  BY <1>3, <1>6 DEF StartArray
<1>7. CASE EndObject
  BY <1>4, <1>7 DEF EndObject
<1>8. CASE EndArray
  BY <1>4, <1>8 DEF EndArray
<1>9. CASE Failed
  BY <1>9, <1>e DEF Failed, StoreInv
<1>10. CASE Read
  BY <1>10, <1>e DEF Read, StoreInv
<1>11. CASE UpdateConfig
  BY <1>11, <1>e DEF UpdateConfig, StoreInv
<1>12. CASE UNCHANGED vars
  BY <1>12, <1>e, <1>f DEF vars, StoreInv, Stored, Apart
<1> QED
  BY <1>1, <1>2, <1>5, <1>6, <1>7, <1>8, <1>9, <1>10, <1>11, <1>12 DEF Next

LEMMA Storing == Spec => [](DecodeInv /\ StoreInv)
<1>1. Init => StoreInv
  <2> SUFFICES ASSUME Init PROVE StoreInv
    OBVIOUS
  <2>1. open = <<>> /\ Len(<<>>) = 0 /\ made = 0 /\ MaxTables \in Nat
    BY BoundAssumption, EmptySeq DEF Init
  <2>2. \A id \in 0..MaxTables : writes[id] = 0
    BY DEF Init
  <2>3. Stored(open, stack, writes) /\ Apart(open)
    BY <2>1 DEF Stored, Apart
  <2> QED
    BY <2>1, <2>2, <2>3 DEF StoreInv
<1>2. DecodeInv /\ StoreInv /\ [Next]_vars => (DecodeInv /\ StoreInv)'
  BY ContextStep, StackStep, StoreStep DEF DecodeInv
<1> QED
  BY <1>1, <1>2, DecodeInit, PTL DEF Spec

(* However deep a document is, lua_rawset and lua_rawseti find the table a *)
(* value belongs to where they look for it, and no value is lost or goes   *)
(* to another table.                                                       *)
THEOREM StoresInPlaceAlways == Spec => []StoresInPlace
<1>1. DecodeInv /\ StoreInv => StoresInPlace
  <2> SUFFICES ASSUME DecodeInv, StoreInv PROVE StoresInPlace
    OBVIOUS
  <2>1. writes[0] = 0
    BY DEF StoreInv
  <2>2. ASSUME pc = "reading", NEW d \in 1..Len(open)
        PROVE  /\ Place(d) <= Len(stack) /\ stack[Place(d)] = Table(open[d].table)
               /\ open[d].last = "key" => /\ Place(d) < Len(stack)
                                          /\ stack[Place(d) + 1] = Slot("key")
               /\ writes[open[d].table] = open[d].count
    <3>1. open \in Seq(Container) /\ Below \in Nat
      BY BoundAssumption DEF DecodeInv, ContextInv, TypeOK
    <3>2. Len(open) \in Nat /\ Keys(open) \in Nat /\ open # <<>>
      BY <3>1, LenProperties, KeysFacts, EmptySeq
    <3>3. Len(stack) = Below + (Len(open) + Keys(open))
      BY <2>2, <3>2 DEF DecodeInv, StackInv, Upon
    <3>4. Place(d) = Spot(open, d)
      BY DEF Place, Spot, KeysBefore
    <3>5. d \in 1..(Len(open) + 1) /\ Len(open) + 1 \in (d + 1)..(Len(open) + 1)
      BY <3>2
    <3>6. Spot(open, d) \in Nat
      BY <3>1, <3>5, SpotFacts
    <3>7. Spot(open, d) + (IF open[d].last = "key" THEN 1 ELSE 0) < Spot(open, Len(open) + 1)
      BY <3>1, <3>5, SpotFacts
    <3>8. Spot(open, Len(open) + 1) = Len(stack) + 1 /\ Len(stack) \in Nat
      BY <3>1, <3>2, <3>3, SpotFacts
    <3>9. Spot(open, d) <= Len(stack) /\ (open[d].last = "key" => Spot(open, d) < Len(stack))
      BY <3>6, <3>7, <3>8
    <3> QED
      BY <2>2, <3>4, <3>9 DEF StoreInv, Stored
  <2> QED
    BY <2>1, <2>2 DEF StoresInPlace
<1> QED
  BY <1>1, Storing, PTL
=============================================================================
