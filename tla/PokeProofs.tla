----------------------------- MODULE PokeProofs ----------------------------
(***************************************************************************)
(* Proofs about bootstrap's search for the zygote (module FindPid) and     *)
(* what it writes into it (module Poke), for every number of processes and *)
(* every lay-out of the zygote's memory that Poke's assumptions allow.     *)
(***************************************************************************)
EXTENDS Poke, WellFoundedInduction, SequenceTheorems, TLAPS

(* The least of a set of natural numbers: it is one of the set, and none   *)
(* is smaller.                                                             *)
LEMMA LeastIn ==
  ASSUME NEW S, S \subseteq Nat, S # {}
  PROVE  Min(S) \in S /\ \A y \in S : Min(S) =< y
<1>1. OpToRel(<, Nat) = {ss \in Nat \X Nat : ss[1] < ss[2]}
  BY DEF OpToRel
<1>2. PICK x \in S : \A y \in S : ~(<<y, x>> \in {ss \in Nat \X Nat : ss[1] < ss[2]})
  BY <1>1, WFMin, NatLessThanWellFounded
<1>3. ASSUME NEW y \in S PROVE x =< y
  <2>1. x \in Nat /\ y \in Nat OBVIOUS
  <2>2. ~(y < x) BY <1>2, <2>1
  <2> QED BY <2>1, <2>2
<1> QED BY <1>3 DEF Min

-----------------------------------------------------------------------------
(* The search *)

LEMMA Pids ==
  /\ MaxPid \in Nat /\ Zygote \in 2..MaxPid
  /\ Zygote \in 1..MaxPid /\ 1 \in 1..MaxPid /\ Zygote # 1
<1>1. MaxPid \in Nat /\ Zygote \in 2..MaxPid BY PidAssumption
<1>2. Zygote \in Int /\ Zygote >= 2 /\ Zygote <= MaxPid BY <1>1
<1> QED BY <1>1, <1>2

(* The types, and init's name, which nothing changes. *)
FindTypes ==
  /\ DOMAIN name = 1..MaxPid /\ name[1] = "init"
  /\ id \in 0..MaxPid /\ fpc \in {"readdir", "open", "gets", "compare", "done"}
  /\ fpc \in {"open", "gets", "compare"} => id # 0

(* What is on the stack stays in the buffer only until init's entry, the   *)
(* first, has been read; after that the buffer says zygote only for the    *)
(* entry it was read from.                                                 *)
Unread == (fpc = "readdir" /\ id = 0) \/ (fpc \in {"open", "gets"} /\ id = 1)
Buffer ==
  /\ fpc # "done" /\ cmdline = "zygote" => Unread \/ (fpc = "compare" /\ id \in matched)
  /\ 1 \notin matched
  /\ fpc # "done" => pid = -1
  /\ fpc = "done" /\ pid # -1 => pid \in matched

(* As long as the zygote is there it has not been passed over. *)
NotPassed ==
  name[Zygote] = "zygote" =>
    /\ fpc = "readdir" => id < Zygote
    /\ fpc \in {"open", "gets"} => id <= Zygote
    /\ fpc = "compare" => id <= Zygote /\ (id = Zygote => cmdline = "zygote")
    /\ fpc = "done" => pid \in 2..Zygote

FindInv == FindTypes /\ Buffer /\ NotPassed /\ matched \subseteq 1..MaxPid

LEMMA FindStart == ASSUME FindInit PROVE FindInv
<1>1. /\ DOMAIN name = 1..MaxPid /\ name[1] = "init" /\ name[Zygote] = "zygote"
      /\ id = 0 /\ pid = -1 /\ fpc = "readdir" /\ matched = {}
  <2>1. PICK n \in [Others -> {"app", "", "gone"}] :
          name = [p \in 1..MaxPid |->
                    IF p = 1 THEN "init" ELSE IF p = Zygote THEN "zygote" ELSE n[p]]
    BY DEF FindInit
  <2>2. 1 \in 1..MaxPid /\ Zygote \in 1..MaxPid /\ Zygote # 1 BY Pids
  <2>3. id = 0 /\ pid = -1 /\ fpc = "readdir" /\ matched = {} BY DEF FindInit
  <2> QED BY <2>1, <2>2, <2>3
<1> QED BY <1>1, Pids DEF FindInv, FindTypes, Buffer, Unread, NotPassed

(* The next entry: above the last, and not above the zygote's if that is   *)
(* still to come.                                                          *)
LEMMA ReadDirStep == ASSUME FindInv, ReadDir PROVE FindInv'
<1> USE Pids DEF FindInv, FindTypes
<1>1. /\ fpc = "readdir"
      /\ name' = name /\ cmdline' = cmdline /\ pid' = pid /\ matched' = matched
  BY DEF ReadDir
<1>2. Listed \subseteq 1..MaxPid BY DEF Listed
<1>3. id = 0 => 1 \in Listed BY DEF Listed
<1>4. name[Zygote] = "zygote" => Zygote \in Listed
  BY <1>1 DEF Listed, NotPassed
<1>5. CASE Listed = {}
  <2>1. fpc' = "done" /\ id' = id BY <1>5 DEF ReadDir
  <2>2. FindTypes' BY <1>1, <2>1
  <2>3. Buffer' BY <1>1, <2>1 DEF Buffer
  <2>4. NotPassed' BY <1>1, <1>4, <1>5 DEF NotPassed
  <2> QED BY <1>1, <2>2, <2>3, <2>4
<1>6. CASE Listed # {}
  <2>1. fpc' = "open" /\ id' = Min(Listed) BY <1>6 DEF ReadDir
  <2>2. id' \in Listed /\ \A p \in Listed : id' <= p
    <3>1. Listed \subseteq Nat BY <1>2
    <3> HIDE DEF Listed
    <3> QED BY <1>6, <2>1, <3>1, LeastIn
  <2>3. id' \in 1..MaxPid BY <1>2, <2>2
  <2>4. FindTypes' BY <1>1, <2>1, <2>3
  <2>5. id = 0 => id' = 1 BY <1>3, <2>2, <2>3
  <2>6. Buffer' BY <1>1, <2>1, <2>5 DEF Buffer, Unread
  <2>7. NotPassed' BY <1>1, <1>4, <2>1, <2>2, <2>3 DEF NotPassed
  <2> QED BY <1>1, <2>4, <2>6, <2>7
<1> QED BY <1>5, <1>6

LEMMA OpenStep == ASSUME FindInv, Open PROVE FindInv'
<1> USE Pids DEF FindInv
<1>1. /\ fpc = "open" /\ fpc' = IF name[id] = "gone" THEN "readdir" ELSE "gets"
      /\ UNCHANGED <<name, id, cmdline, pid, matched>>
  BY DEF Open
<1>2. FindTypes' BY <1>1 DEF FindTypes
<1>3. Buffer' BY <1>1 DEF FindTypes, Buffer, Unread
<1>4. NotPassed' BY <1>1 DEF FindTypes, NotPassed
<1> QED BY <1>1, <1>2, <1>3, <1>4

LEMMA GetsStep == ASSUME FindInv, Gets PROVE FindInv'
<1> USE Pids DEF FindInv
<1>1. /\ fpc = "gets" /\ fpc' = "compare" /\ UNCHANGED <<name, id, pid>>
      /\ cmdline' = IF name[id] \in {"", "gone"} THEN cmdline ELSE name[id]
      /\ matched' = IF name[id] = "zygote" THEN matched \cup {id} ELSE matched
  BY DEF Gets
<1>2. FindTypes' BY <1>1 DEF FindTypes
<1>3. Buffer' BY <1>1 DEF FindTypes, Buffer, Unread
<1>4. NotPassed'
  <2>1. name[Zygote] = "zygote" => name[Zygote] \notin {"", "gone"} OBVIOUS
  <2> QED BY <1>1, <2>1 DEF FindTypes, NotPassed
<1>5. id \in 1..MaxPid
  <2>1. id \in 0..MaxPid /\ id # 0 BY <1>1 DEF FindTypes
  <2> QED BY <2>1
<1> QED BY <1>1, <1>2, <1>3, <1>4, <1>5

LEMMA CompareStep == ASSUME FindInv, Compare PROVE FindInv'
<1> USE Pids DEF FindInv
<1>1. /\ fpc = "compare" /\ UNCHANGED <<name, id, cmdline, matched>>
      /\ IF cmdline = "zygote" THEN pid' = id /\ fpc' = "done"
         ELSE fpc' = "readdir" /\ pid' = pid
  BY DEF Compare
<1>2. FindTypes' BY <1>1 DEF FindTypes
<1>3. cmdline = "zygote" => id \in matched /\ id # 1
  BY <1>1 DEF Buffer, Unread
<1>4. Buffer' BY <1>1, <1>3 DEF FindTypes, Buffer, Unread
<1>5. NotPassed' BY <1>1, <1>3 DEF FindTypes, NotPassed
<1> QED BY <1>1, <1>2, <1>4, <1>5

(* Whatever becomes of the other processes: the zygote is never another's  *)
(* child, so that once it has gone it stays away.                          *)
LEMMA SystemStep == ASSUME FindInv, Fork \/ Rename \/ Exit PROVE FindInv'
<1> USE Pids DEF FindInv
<1>1. PICK p \in 2..MaxPid, to \in {"zygote", "app", "gone"} :
        /\ name' = [name EXCEPT ![p] = to] /\ (to = "zygote" => p # Zygote)
        /\ fpc # "done" /\ UNCHANGED <<id, cmdline, pid, fpc, matched>>
  BY DEF Fork, Rename, Exit, Become, Others
<1>2. FindTypes' BY <1>1 DEF FindTypes
<1>3. Buffer' BY <1>1 DEF Buffer, Unread
<1>4. name'[Zygote] = "zygote" => name[Zygote] = "zygote"
  BY <1>1 DEF FindTypes
<1>5. NotPassed' BY <1>1, <1>4 DEF NotPassed
<1> QED BY <1>1, <1>2, <1>3, <1>5

LEMMA FindStep == ASSUME FindInv, [Next]_<<findVars, pokeVars>> PROVE FindInv'
<1>1. CASE UNCHANGED findVars
  BY <1>1 DEF findVars, FindInv, FindTypes, Buffer, Unread, NotPassed
<1>2. CASE FindNext
  BY <1>2, ReadDirStep, OpenStep, GetsStep, CompareStep, SystemStep DEF FindNext
<1> QED BY <1>1, <1>2 DEF Next

LEMMA FindAlways == Spec => []FindInv
<1>1. Init => FindInv BY FindStart DEF Init
<1>2. FindInv /\ [Next]_<<findVars, pokeVars>> => FindInv' BY FindStep
<1> QED BY <1>1, <1>2, PTL DEF Spec

(***************************************************************************)
(* For any number of processes, forked, renamed and ended at any moment of *)
(* find_pid_of (bootstrap.c): what it returns is a process that called     *)
(* itself zygote when its cmdline was read, although the buffer is never   *)
(* cleared, and a zygote that stays is found, or a child of a lower pid.   *)
(***************************************************************************)
THEOREM FindsZygoteAlways == Spec => []FindsZygote
<1>1. FindInv => FindsZygote
  BY DEF FindInv, FindTypes, Buffer, NotPassed, FindsZygote
<1> QED BY <1>1, FindAlways, PTL
-----------------------------------------------------------------------------
(* What is written: the types and the stack *)

Places == DOMAIN mem

(* A write: its bytes, and where they go. *)
Data == {"char", "byte"} \X Nat
Write == [dest : Nat, data : Seq(Data)]

(* The words each call puts on the stack, those the calls before it have   *)
(* left there, and x86's return address.                                   *)
Words(f) ==
  IF arch = "arm" THEN IF f = "mmap" THEN 2 ELSE 0
  ELSE IF f = "mmap" THEN 6 ELSE IF f \in {"dlopen", "dlsym"} THEN 2
  ELSE IF f = "init_func" THEN 1 ELSE 0
Before(f) ==
  IF f = "mmap" THEN 0 ELSE IF arch = "arm" THEN 2
  ELSE IF f \in {"__errno", "dlopen"} THEN 6 ELSE IF f \in {"dlerror", "dlsym"} THEN 8
  ELSE IF f = "init_func" THEN 10 ELSE 11
ReturnWords == IF arch = "arm" THEN 0 ELSE 1

(* The most that crashes before it can have left there, in words. *)
Fallen(f) ==
  IF f \in {"mmap", "__errno", "dlopen"} THEN 0
  ELSE IF f \in {"dlerror", "dlsym"} THEN Frame + 1 ELSE 2 * (Frame + 1)

Depth ==
  Before(func) + (IF ppc \in {"write", "called"} THEN Words(func) + ReturnWords ELSE 0)

PokeTypes ==
  /\ arch \in {"arm", "x86"} /\ token \in Tokens /\ alive \in BOOLEAN
  /\ func \in Functions \cup {"init_func", "restore"}
  /\ ppc \in {"start", "prepare", "write", "called", "exit"}
  /\ ppc = "start" => func = "mmap"
  /\ func = "restore" => ppc = "exit"
  /\ Places = Bottom..(Top - 1)
  /\ todo \in Seq(Write)
  /\ func = "mmap" => base = 0
  /\ func # "mmap" => base \in {Base, Modulus - 1}
  /\ so \in Nat /\ entry \in Nat
  /\ regs = [r |-> regs.r, sp |-> regs.sp, pc |-> regs.pc, thumb |-> regs.thumb]
  /\ ppc # "exit" => \E n \in 0..Fallen(func) : regs.sp = Sp - 4 * (Depth + n)

(* The addresses a write covers, and what it puts there. *)
Covers(w, x) == x \in w.dest..(w.dest + Len(w.data) - 1)
Put(w, x) == w.data[x - w.dest + 1]

(* Where bootstrap may write. *)
Own(x) ==
  \/ x \in (Sp - StackUsed)..(Sp - 1)
  \/ base = Base /\ x >= Base /\ (x < Base + Region \/ ParamAt + Len(token) >= Region)

(* Each write still to be made is of whole words, or of nothing mapped,    *)
(* and goes to bootstrap's own places.                                     *)
Aligned(w) == w.dest % 4 = 0 \/ \A x \in Bottom..(Top - 1) : ~Covers(w, x)
TodoOwn ==
  \A k \in DOMAIN todo :
    Aligned(todo[k]) /\ \A x \in Bottom..(Top - 1) : Covers(todo[k], x) => Own(x)

OwnInv == PokeTypes /\ TodoOwn /\ OwnMemoryOnly

-----------------------------------------------------------------------------
(* What the memory will be when all is written: the last write of an       *)
(* address tells, or, if there is none to come, what is there.             *)
Finally(m, t, x, v) ==
  \/ \E k \in DOMAIN t :
       /\ Covers(t[k], x) /\ Put(t[k], x) = v
       /\ \A j \in DOMAIN t : j > k => ~Covers(t[j], x)
  \/ m[x] = v /\ \A j \in DOMAIN t : ~Covers(t[j], x)
WillHold(a, data) == \A i \in DOMAIN data : Finally(mem, todo, a + i - 1, data[i])

Stacked(f) == SubSeq(Params(f), InRegs + 1, Len(Params(f)))

(* Where the parameters of the call lie. *)
Top0 == IF ppc = "prepare" THEN regs.sp - 4 * Words(func) ELSE regs.sp + 4 * ReturnWords

CallInv ==
  /\ ppc = "called" => todo = <<>>
  /\ ppc \in {"write", "called"} =>
       /\ \A i \in 1..Len(Params(func)) : i <= InRegs => regs.r[i - 1] = Params(func)[i]
       /\ (IF regs.thumb THEN regs.pc + 1 ELSE regs.pc) =
            IF func = "init_func" THEN entry ELSE RemoteAddr(func)
  /\ (ppc = "write" /\ alive) \/ ppc = "called" =>
       /\ WillHold(Top0, Bytes(Stacked(func)))
       /\ arch = "x86" => WillHold(Top0 - 4, Bytes(<< 0 >>))
       /\ base = Base => \A i \in DOMAIN Text(func) :
            \/ WillHold(Text(func)[i].dest, Text(func)[i].data)
            \/ func = "init_func" /\ ParamAt + Len(token) >= Region
-----------------------------------------------------------------------------
(* Lemmas about the operators *)

(* The lay-out of the zygote's memory, one fact for each use. *)
LEMMA Layout ==
  /\ Bottom \in Nat /\ Top \in Nat /\ Sp \in Nat /\ Base \in Nat /\ Region \in Nat
  /\ NameAt \in Nat /\ ParamAt \in Nat /\ Modulus \in Nat
  /\ Bottom % 4 = 0 /\ Top % 4 = 0 /\ Sp % 4 = 0 /\ Base % 4 = 0
  /\ NameAt % 4 = 0 /\ ParamAt % 4 = 0
  /\ Bottom + StackUsed <= Sp /\ Sp <= Top /\ Top < Modulus
  /\ Bottom <= Base /\ Base + Region <= Top
  /\ Sp <= Base \/ Base + Region <= Sp - StackUsed
  /\ ParamAt <= Region /\ ParamAt <= Bottom
  /\ Frame \in Nat /\ StackUsed \in Nat /\ StackUsed = 48 + 8 * (Frame + 1)
<1>1. Frame \in Nat BY PlacesAssumption
<1>2. StackUsed = 48 + 8 * (Frame + 1) BY <1>1 DEF StackUsed
<1>3. StackUsed \in Nat BY <1>1, <1>2
<1> QED BY <1>1, <1>2, <1>3, PlacesAssumption

LEMMA Strings ==
  /\ Path \in Seq(Nat) /\ Len(Path) < NameAt
  /\ FuncName \in Seq(Nat) /\ NameAt + Len(FuncName) < ParamAt
  /\ \A t \in Tokens : t \in Seq(Nat) /\ ParamAt + Len(t) <= Bottom
BY PlacesAssumption

(* Words as bytes, and strings. *)
LEMMA BytesType ==
  ASSUME NEW ws \in Seq(Nat)
  PROVE  /\ Bytes(ws) \in Seq(Data) /\ Len(Bytes(ws)) = 4 * Len(ws)
         /\ DOMAIN Bytes(ws) = 1..(4 * Len(ws))
<1>1. ASSUME NEW i \in 1..(4 * Len(ws))
      PROVE  <<"byte", 4 * ws[((i - 1) \div 4) + 1] + ((i - 1) % 4)>> \in Data
  <2>1. ((i - 1) \div 4) + 1 \in 1..Len(ws) OBVIOUS
  <2>2. ws[((i - 1) \div 4) + 1] \in Nat BY <2>1
  <2>3. (i - 1) % 4 \in Nat OBVIOUS
  <2> QED BY <2>2, <2>3 DEF Data
<1>2. Bytes(ws) \in [1..(4 * Len(ws)) -> Data] BY <1>1 DEF Bytes
<1> QED BY <1>2

LEMMA CharsType ==
  ASSUME NEW s \in Seq(Nat)
  PROVE  /\ Chars(s) \in Seq(Data) /\ Len(Chars(s)) = Len(s) + 1
         /\ DOMAIN Chars(s) = 1..(Len(s) + 1)
<1>1. ASSUME NEW i \in 1..(Len(s) + 1)
      PROVE  <<"char", IF i <= Len(s) THEN s[i] ELSE 0>> \in Data
  BY DEF Data
<1>2. Chars(s) \in [1..(Len(s) + 1) -> Data] BY <1>1 DEF Chars
<1> QED BY <1>2

(* The bytes of a return address and of what is above it. *)
LEMMA BytesAbove ==
  ASSUME NEW ws \in Seq(Nat)
  PROVE  /\ DOMAIN Bytes(<< 0 >> \o ws) = 1..(4 + 4 * Len(ws))
         /\ \A i \in 1..4 : Bytes(<< 0 >> \o ws)[i] = Bytes(<< 0 >>)[i]
         /\ \A i \in 1..(4 * Len(ws)) : Bytes(<< 0 >> \o ws)[4 + i] = Bytes(ws)[i]
<1>1. << 0 >> \o ws \in Seq(Nat) /\ Len(<< 0 >> \o ws) = 1 + Len(ws) OBVIOUS
<1>2. \A i \in 1..Len(ws) : (<< 0 >> \o ws)[1 + i] = ws[i] OBVIOUS
<1>3. (<< 0 >> \o ws)[1] = 0
  <2>1. << 0 >> \in Seq(Nat) /\ Len(<< 0 >>) = 1 /\ << 0 >>[1] = 0 OBVIOUS
  <2> QED BY <2>1, ConcatProperties
<1>4. DOMAIN Bytes(<< 0 >> \o ws) = 1..(4 + 4 * Len(ws))
  <2> DEFINE s == << 0 >> \o ws
  <2>1. s \in Seq(Nat) /\ Len(s) = 1 + Len(ws) BY <1>1
  <2> HIDE DEF s
  <2>2. DOMAIN Bytes(s) = 1..(4 * Len(s)) BY <2>1, BytesType
  <2>3. 4 * Len(s) = 4 + 4 * Len(ws) BY <2>1
  <2>4. DOMAIN Bytes(s) = 1..(4 + 4 * Len(ws)) BY <2>2, <2>3
  <2> QED BY <2>4 DEF s
<1>5. ASSUME NEW i \in 1..4 PROVE Bytes(<< 0 >> \o ws)[i] = Bytes(<< 0 >>)[i]
  <2>1. (i - 1) \div 4 = 0 OBVIOUS
  <2>2. i \in 1..(4 * Len(<< 0 >> \o ws)) /\ i \in 1..(4 * Len(<< 0 >>)) BY <1>1
  <2> QED BY <1>3, <2>1, <2>2 DEF Bytes
<1>6. ASSUME NEW i \in 1..(4 * Len(ws)) PROVE Bytes(<< 0 >> \o ws)[4 + i] = Bytes(ws)[i]
  <2> DEFINE j == (i - 1) \div 4
  <2>1. j \in Nat /\ j + 1 \in 1..Len(ws) OBVIOUS
  <2>2. ((4 + i) - 1) \div 4 = j + 1 /\ ((4 + i) - 1) % 4 = (i - 1) % 4 OBVIOUS
  <2>3. 4 + i \in 1..(4 * Len(<< 0 >> \o ws)) BY <1>1
  <2>4. Bytes(<< 0 >> \o ws)[4 + i] =
          <<"byte", 4 * (<< 0 >> \o ws)[(((4 + i) - 1) \div 4) + 1] + (((4 + i) - 1) % 4)>>
    BY <2>3 DEF Bytes
  <2>5. Bytes(ws)[i] = <<"byte", 4 * ws[j + 1] + ((i - 1) % 4)>> BY DEF Bytes
  <2>6. (<< 0 >> \o ws)[(j + 1) + 1] = ws[j + 1]
    <3> HIDE DEF j
    <3>1. (j + 1) + 1 = 1 + (j + 1) BY <2>1
    <3> QED BY <1>2, <2>1, <3>1
  <2> HIDE DEF j
  <2> QED BY <2>2, <2>4, <2>5, <2>6
<1> QED BY <1>4, <1>5, <1>6
-----------------------------------------------------------------------------
(* Writing *)

(* A write whose first word has been made. *)
Rest(w) == [dest |-> w.dest + 4, data |-> SubSeq(w.data, 5, Len(w.data))]

LEMMA RestOf ==
  ASSUME NEW w \in Write, Len(w.data) >= 4
  PROVE  /\ Rest(w) \in Write
         /\ \A x \in Nat : Covers(Rest(w), x) <=> Covers(w, x) /\ x >= w.dest + 4
         /\ \A x \in Nat : Covers(Rest(w), x) => Put(Rest(w), x) = Put(w, x)
         /\ Aligned(w) => Aligned(Rest(w))
<1>1. w.dest \in Nat /\ w.data \in Seq(Data) BY DEF Write
<1> DEFINE d == w.dest
           n == Len(w.data)
           rest == SubSeq(w.data, 5, n)
<1>2. n \in Nat /\ n >= 4 BY <1>1
<1>3. rest \in Seq(Data) /\ Len(rest) = n - 4 /\ \A i \in 1..(n - 4) : rest[i] = w.data[i + 4]
  BY <1>1, <1>2
<1>4. Rest(w).dest = d + 4 /\ Rest(w).data = rest BY DEF Rest
<1> HIDE DEF n, rest, d
<1>5. Rest(w) \in Write BY <1>1, <1>3 DEF Rest, Write, rest, n
<1>6. \A x \in Nat : Covers(Rest(w), x) <=> x \in (d + 4)..(d + n - 1)
  BY <1>1, <1>2, <1>3, <1>4 DEF Covers, d
<1>7. \A x \in Nat : Covers(w, x) <=> x \in d..(d + n - 1)
  BY DEF Covers, d, n
<1>8. d \in Nat BY <1>1 DEF d
<1>9. \A x \in Nat : Covers(Rest(w), x) <=> Covers(w, x) /\ x >= d + 4
  BY <1>2, <1>6, <1>7, <1>8
<1>10. ASSUME NEW x \in Nat, Covers(Rest(w), x) PROVE Put(Rest(w), x) = Put(w, x)
  <2>1. x - (d + 4) + 1 \in 1..(n - 4) BY <1>2, <1>6, <1>8, <1>10
  <2>2. (x - (d + 4) + 1) + 4 = x - d + 1 BY <1>8
  <2>3. rest[x - (d + 4) + 1] = w.data[x - d + 1] BY <1>3, <2>1, <2>2
  <2> QED BY <1>4, <2>3 DEF Put, d
<1>11. ASSUME Aligned(w) PROVE Aligned(Rest(w))
  <2>1. CASE w.dest % 4 = 0
    <3>1. (d + 4) % 4 = 0 BY <1>8, <2>1 DEF d
    <3> QED BY <1>4, <3>1 DEF Aligned
  <2>2. CASE \A x \in Bottom..(Top - 1) : ~Covers(w, x)
    <3>1. Bottom..(Top - 1) \subseteq Nat BY Layout
    <3> QED BY <1>9, <2>2, <3>1 DEF Aligned
  <2> QED BY <1>11, <2>1, <2>2 DEF Aligned
<1> QED BY <1>5, <1>9, <1>10, <1>11 DEF d

(* What a request changes: the bytes it puts, if there is a zygote and     *)
(* memory to put them in.                                                  *)
LEMMA StoredAt ==
  ASSUME Places = Bottom..(Top - 1), NEW dest, NEW data
  PROVE  /\ DOMAIN Stored(dest, data) = Bottom..(Top - 1)
         /\ \A x \in Bottom..(Top - 1) : Stored(dest, data)[x] =
              IF alive /\ dest \in Bottom..(Top - 4) /\ x \in dest..(dest + Len(data) - 1)
                THEN data[x - dest + 1] ELSE mem[x]
BY DEF Stored, Places

(* One request of a write: a word, or the part of one that is left.        *)
Piece(w) == IF Len(w.data) >= 4 THEN SubSeq(w.data, 1, 4) ELSE w.data

LEMMA PieceOf ==
  ASSUME NEW w \in Write
  PROVE  /\ Len(Piece(w)) \in 0..4 /\ Len(Piece(w)) = IF Len(w.data) >= 4 THEN 4 ELSE Len(w.data)
         /\ \A x \in w.dest..(w.dest + Len(Piece(w)) - 1) :
              Covers(w, x) /\ Piece(w)[x - w.dest + 1] = Put(w, x)
<1>1. w.dest \in Nat /\ w.data \in Seq(Data) BY DEF Write
<1>2. CASE Len(w.data) >= 4
  <2>1. Piece(w) = SubSeq(w.data, 1, 4) BY <1>2 DEF Piece
  <2>2. Len(Piece(w)) = 4 /\ \A i \in 1..4 : Piece(w)[i] = w.data[i] BY <1>1, <1>2, <2>1
  <2> QED BY <1>1, <1>2, <2>2 DEF Covers, Put
<1>3. CASE ~(Len(w.data) >= 4)
  <2>1. Piece(w) = w.data BY <1>3 DEF Piece
  <2> DEFINE n == Len(w.data)
  <2>2. n \in Nat BY <1>1
  <2>3. ~(n >= 4) BY <1>3
  <2> HIDE DEF n
  <2>4. n \in 0..3 BY <2>2, <2>3
  <2>5. Len(Piece(w)) = n BY <2>1 DEF n
  <2>6. \A x \in w.dest..(w.dest + n - 1) : Covers(w, x) /\ Piece(w)[x - w.dest + 1] = Put(w, x)
    BY <2>1 DEF Covers, Put, n
  <2>7. Len(Piece(w)) = IF Len(w.data) >= 4 THEN 4 ELSE Len(w.data) BY <2>3, <2>5 DEF n
  <2>8. Len(Piece(w)) \in 0..4 BY <2>4, <2>5
  <2> QED BY <2>5, <2>6, <2>7, <2>8
<1> QED BY <1>2, <1>3
(* What a request leaves to be written. *)
LEMMA Request ==
  ASSUME PokeTypes, PokeWord \/ PokeRest
  PROVE  /\ ppc = "write" /\ todo # <<>> /\ 1 \in DOMAIN todo /\ todo[1] \in Write
         /\ mem' = Stored(todo[1].dest, Piece(todo[1])) /\ todo' \in Seq(Write)
         /\ \/ /\ Len(todo[1].data) >= 4 /\ DOMAIN todo' = DOMAIN todo
               /\ todo'[1] = Rest(todo[1])
               /\ \A k \in DOMAIN todo : k # 1 => todo'[k] = todo[k]
            \/ /\ Len(todo[1].data) < 4 /\ DOMAIN todo' = 1..(Len(todo) - 1)
               /\ \A k \in DOMAIN todo' : k + 1 \in DOMAIN todo /\ todo'[k] = todo[k + 1]
         /\ UNCHANGED <<ppc, func, given, regs, base, so, entry, alive>>
<1>1. ppc = "write" /\ todo # <<>> /\ todo \in Seq(Write)
  BY DEF PokeTypes, PokeWord, PokeRest, Writing
<1>2. 1 \in DOMAIN todo /\ todo[1] \in Write /\ DOMAIN todo = 1..Len(todo) /\ Len(todo) \in Nat
  BY <1>1
<1>3. UNCHANGED <<ppc, func, given, regs, base, so, entry, alive>>
  BY DEF PokeWord, PokeRest
<1>4. Len(todo[1].data) \in Nat BY <1>2 DEF Write
<1>5. CASE PokeWord
  <2>1. Len(todo[1].data) >= 4 BY <1>5 DEF PokeWord
  <2>2. mem' = Stored(todo[1].dest, Piece(todo[1])) BY <1>5, <2>1 DEF PokeWord, Piece
  <2>3. todo' = [todo EXCEPT ![1] = Rest(todo[1])] BY <1>5 DEF PokeWord, Rest
  <2>4. Rest(todo[1]) \in Write BY <1>2, <2>1, RestOf
  <2>5. todo' \in Seq(Write) BY <1>1, <2>3, <2>4
  <2> QED BY <1>1, <1>2, <1>3, <2>1, <2>2, <2>3, <2>5
<1>6. CASE PokeRest
  <2>1. Len(todo[1].data) < 4 BY <1>6 DEF PokeRest
  <2>2. mem' = Stored(todo[1].dest, Piece(todo[1])) BY <1>4, <1>6, <2>1 DEF PokeRest, Piece
  <2>3. todo' = Tail(todo) BY <1>6 DEF PokeRest
  <2>4. /\ todo' \in Seq(Write) /\ Len(todo') = Len(todo) - 1
        /\ \A k \in 1..(Len(todo) - 1) : todo'[k] = todo[k + 1]
    BY <1>1, <2>3, HeadTailProperties
  <2>5. DOMAIN todo' = 1..(Len(todo) - 1) BY <2>4
  <2>6. \A k \in 1..(Len(todo) - 1) : k + 1 \in DOMAIN todo BY <1>2
  <2> QED BY <1>1, <1>2, <1>3, <2>1, <2>2, <2>4, <2>5, <2>6
<1> QED BY <1>5, <1>6

(* The write at hand has not been wanted outside bootstrap's places. *)
LEMMA RequestOwn == ASSUME OwnInv, PokeWord \/ PokeRest PROVE OwnInv'
<1> DEFINE w == todo[1]
<1>1. /\ ppc = "write" /\ todo # <<>> /\ 1 \in DOMAIN todo /\ w \in Write
      /\ mem' = Stored(w.dest, Piece(w)) /\ todo' \in Seq(Write)
      /\ UNCHANGED <<ppc, func, given, regs, base, so, entry, alive>>
  BY Request DEF OwnInv
<1>2. \A k \in DOMAIN todo' :
        \/ todo'[k] = Rest(w) /\ Len(w.data) >= 4
        \/ \E j \in DOMAIN todo : todo'[k] = todo[j]
  BY Request DEF OwnInv
<1>3. Places = Bottom..(Top - 1) /\ Places' = Bottom..(Top - 1)
  <2>1. Places = Bottom..(Top - 1) BY DEF OwnInv, PokeTypes
  <2>2. DOMAIN Stored(w.dest, Piece(w)) = Bottom..(Top - 1) BY <2>1, StoredAt
  <2> QED BY <1>1, <2>1, <2>2 DEF Places
<1>4. PokeTypes'
  BY <1>1, <1>3 DEF OwnInv, PokeTypes, given, Depth, Before, Words, ReturnWords
<1>5. Bottom..(Top - 1) \subseteq Nat BY Layout
<1>6. \A x \in Bottom..(Top - 1) : Own(x)' <=> Own(x) BY <1>1 DEF Own, given
<1>7. TodoOwn'
  <2> SUFFICES ASSUME NEW k \in DOMAIN todo'
               PROVE  /\ Aligned(todo'[k])
                      /\ \A x \in Bottom..(Top - 1) : Covers(todo'[k], x) => Own(x)
    BY <1>6 DEF TodoOwn
  <2>1. CASE todo'[k] = Rest(w) /\ Len(w.data) >= 4
    <3>1. Aligned(w) /\ \A x \in Bottom..(Top - 1) : Covers(w, x) => Own(x)
      BY <1>1 DEF OwnInv, TodoOwn
    <3> HIDE DEF w
    <3> QED BY <1>1, <1>5, <2>1, <3>1, RestOf
  <2>2. CASE \E j \in DOMAIN todo : todo'[k] = todo[j] BY <2>2 DEF OwnInv, TodoOwn
  <2> QED BY <1>2, <2>1, <2>2
<1>8. OwnMemoryOnly'
  <2> SUFFICES ASSUME NEW a \in Bottom..(Top - 1), mem'[a] # <<"old", a>> PROVE Own(a)
    BY <1>3, <1>6 DEF OwnMemoryOnly, Own, Places
  <2>1. CASE mem'[a] = mem[a] BY <1>3, <2>1 DEF OwnInv, OwnMemoryOnly, Own, Places
  <2>2. CASE mem'[a] # mem[a]
    <3>1. a \in w.dest..(w.dest + Len(Piece(w)) - 1) BY <1>1, <1>3, <2>2, StoredAt
    <3>2. Covers(w, a) BY <1>1, <3>1, PieceOf
    <3> QED BY <1>1, <3>2 DEF OwnInv, TodoOwn
  <2> QED BY <2>1, <2>2
<1> QED BY <1>4, <1>7, <1>8 DEF OwnInv

-----------------------------------------------------------------------------
(* What a call needs *)

LEMMA ParamsOf ==
  ASSUME PokeTypes, func # "restore"
  PROVE  /\ Params(func) \in Seq(Nat) /\ Stacked(func) \in Seq(Nat)
         /\ Len(Stacked(func)) = Words(func) /\ Words(func) \in 0..6
<1> USE Layout
<1>1. base \in Nat /\ so \in Nat /\ func \in Functions \cup {"init_func"}
  <2>1. Modulus - 1 \in Nat OBVIOUS
  <2>2. func = "mmap" \/ func # "mmap" OBVIOUS
  <2>3. base \in {0, Base, Modulus - 1} BY <2>2 DEF PokeTypes
  <2>4. so \in Nat /\ func \in Functions \cup {"init_func", "restore"} BY DEF PokeTypes
  <2>5. base \in Nat /\ so \in Nat BY <2>1, <2>3, <2>4
  <2> QED BY <2>4, <2>5
<1>2. (base + NameAt) % Modulus \in Nat /\ (base + ParamAt) % Modulus \in Nat
  BY <1>1
<1>3. /\ Params(func) \in Seq(Nat)
      /\ Len(Params(func)) = IF func = "mmap" THEN 6
                             ELSE IF func \in {"dlopen", "dlsym"} THEN 2
                             ELSE IF func = "init_func" THEN 1 ELSE 0
  <2>1. CASE func = "mmap" BY <2>1 DEF Params
  <2>2. CASE func = "dlopen" BY <1>1, <2>2 DEF Params
  <2>3. CASE func = "dlsym" BY <1>1, <1>2, <2>3 DEF Params
  <2>4. CASE func = "init_func" BY <1>2, <2>4 DEF Params
  <2>5. CASE func \notin {"mmap", "dlopen", "dlsym", "init_func"}
    <3>1. Params(func) = <<>> BY <2>5 DEF Params
    <3> QED BY <2>5, <3>1
  <2> QED BY <2>1, <2>2, <2>3, <2>4, <2>5
<1>4. InRegs = IF arch = "arm" THEN 4 ELSE 0 BY DEF InRegs
<1>5. /\ Stacked(func) \in Seq(Nat)
      /\ Len(Stacked(func)) = IF InRegs <= Len(Params(func)) THEN Len(Params(func)) - InRegs ELSE 0
  BY <1>3, <1>4 DEF Stacked
<1> QED BY <1>3, <1>4, <1>5 DEF Words

(* The string of a call, its place in the mapping, and, of a mapping that  *)
(* failed, its place where nothing is mapped.                              *)
LEMMA TextOf ==
  ASSUME PokeTypes, func # "restore"
  PROVE  \/ Text(func) = <<>>
         \/ \E t \in Write :
              /\ Text(func) = <<t>> /\ t.dest % 4 = 0
              /\ base = Base /\ t.dest >= Base
              /\ \/ t.dest + Len(t.data) <= Base + Region
                 \/ func = "init_func" /\ ParamAt + Len(token) >= Region
         \/ \E t \in Write :
              /\ Text(func) = <<t>> /\ base # Base
              /\ \A x \in Bottom..(Top - 1) : ~Covers(t, x)
<1> USE Layout
<1>1. Len(Path) \in Nat /\ Len(FuncName) \in Nat /\ token \in Seq(Nat) /\ Len(token) \in Nat
      /\ Len(Path) < NameAt /\ NameAt + Len(FuncName) < ParamAt /\ ParamAt + Len(token) <= Bottom
  <2>1. token \in Tokens BY DEF PokeTypes
  <2>2. token \in Seq(Nat) /\ ParamAt + Len(token) <= Bottom BY <2>1, Strings
  <2> QED BY <2>2, Strings
<1>2. ASSUME func # "mmap" PROVE base \in {Base, Modulus - 1}
  BY <1>2 DEF PokeTypes
<1> DEFINE Fine(t) ==
      \/ /\ t.dest % 4 = 0 /\ base = Base /\ t.dest >= Base
         /\ \/ t.dest + Len(t.data) <= Base + Region
            \/ func = "init_func" /\ ParamAt + Len(token) >= Region
      \/ base # Base /\ \A x \in Bottom..(Top - 1) : ~Covers(t, x)
<1>3. CASE func = "dlopen"
  <2> DEFINE t == [dest |-> base, data |-> Chars(Path)]
  <2>1. Text(func) = <<t>> BY <1>3 DEF Text
  <2>2. Chars(Path) \in Seq(Data) /\ Len(Chars(Path)) = Len(Path) + 1 BY Strings, CharsType
  <2>3. t \in Write BY <1>2, <1>3, <2>2 DEF Write
  <2>4. base = Base => t.dest + Len(t.data) <= Base + Region BY <1>1, <2>2
  <2>5. base # Base => \A x \in Bottom..(Top - 1) : ~Covers(t, x)
    BY <1>1, <1>2, <1>3, <2>2 DEF Covers
  <2>6. Fine(t) BY <2>4, <2>5
  <2> QED BY <2>1, <2>3, <2>6
<1>4. CASE func = "dlsym"
  <2> DEFINE t == [dest |-> (base + NameAt) % Modulus, data |-> Chars(FuncName)]
  <2>1. Text(func) = <<t>> BY <1>4 DEF Text
  <2>2. Chars(FuncName) \in Seq(Data) /\ Len(Chars(FuncName)) = Len(FuncName) + 1
    BY Strings, CharsType
  <2>3. (base + NameAt) % Modulus = IF base = Base THEN Base + NameAt ELSE NameAt - 1
    <3>1. CASE base = Base
      <4>1. Base + NameAt \in 0..(Modulus - 1) BY <1>1
      <4> QED BY <3>1, <4>1
    <3>2. CASE base # Base
      <4>1. base = Modulus - 1 BY <1>2, <1>4, <3>2
      <4>2. NameAt - 1 \in 0..(Modulus - 1) BY <1>1
      <4>3. ((NameAt - 1) + Modulus) % Modulus = NameAt - 1 BY <4>2
      <4>4. base + NameAt = (NameAt - 1) + Modulus BY <4>1
      <4> QED BY <3>2, <4>3, <4>4
    <3> QED BY <3>1, <3>2
  <2>10. t.dest = (IF base = Base THEN Base + NameAt ELSE NameAt - 1) /\ t.data = Chars(FuncName)
    BY <2>3
  <2> HIDE DEF t
  <2> DEFINE d == t.dest
             n == Len(FuncName)
  <2>11. n \in Nat /\ Len(t.data) = n + 1 /\ d \in Nat
    BY <1>1, <2>2, <2>10
  <2>4. t \in Write BY <2>2, <2>10, <2>11 DEF Write, t
  <2>5. base = Base => /\ t.dest % 4 = 0 /\ t.dest >= Base
                       /\ t.dest + Len(t.data) <= Base + Region
    <3>1. (Base + NameAt) % 4 = 0 OBVIOUS
    <3> QED BY <1>1, <2>10, <2>11, <3>1
  <2>6. base # Base => \A x \in Bottom..(Top - 1) : ~Covers(t, x)
    <3>0. NameAt + n <= Bottom
      <4>1. n \in Nat /\ NameAt + n < ParamAt BY <1>1
      <4> HIDE DEF n
      <4> QED BY <4>1
    <3>1. base # Base => d = NameAt - 1 /\ NameAt + n <= Bottom BY <2>10, <3>0
    <3>2. \A x : Covers(t, x) => x \in d..(d + n) BY <2>11 DEF Covers
    <3> HIDE DEF d, n
    <3>3. base # Base => \A x \in d..(d + n) : x < Bottom BY <2>11, <3>1
    <3> QED BY <3>2, <3>3
  <2>7. Fine(t) BY <2>5, <2>6
  <2> QED BY <2>1, <2>4, <2>7
<1>5. CASE func = "init_func"
  <2> DEFINE t == [dest |-> (base + ParamAt) % Modulus, data |-> Chars(token)]
  <2>1. Text(func) = <<t>> BY <1>5 DEF Text
  <2>2. Chars(token) \in Seq(Data) /\ Len(Chars(token)) = Len(token) + 1
    BY <1>1, CharsType
  <2>3. (base + ParamAt) % Modulus = IF base = Base THEN Base + ParamAt ELSE ParamAt - 1
    <3>1. CASE base = Base
      <4>1. Base + ParamAt \in 0..(Modulus - 1) BY <1>1
      <4> QED BY <3>1, <4>1
    <3>2. CASE base # Base
      <4>1. base = Modulus - 1 BY <1>2, <1>5, <3>2
      <4>2. ParamAt - 1 \in 0..(Modulus - 1) BY <1>1
      <4>3. ((ParamAt - 1) + Modulus) % Modulus = ParamAt - 1 BY <4>2
      <4>4. base + ParamAt = (ParamAt - 1) + Modulus BY <4>1
      <4> QED BY <3>2, <4>3, <4>4
    <3> QED BY <3>1, <3>2
  <2>10. t.dest = (IF base = Base THEN Base + ParamAt ELSE ParamAt - 1) /\ t.data = Chars(token)
    BY <2>3
  <2> HIDE DEF t
  <2> DEFINE d == t.dest
             n == Len(token)
  <2>11. n \in Nat /\ Len(t.data) = n + 1 /\ d \in Nat
    BY <1>1, <2>2, <2>10
  <2>4. t \in Write BY <2>2, <2>10, <2>11 DEF Write, t
  <2>5. base = Base => /\ t.dest % 4 = 0 /\ t.dest >= Base
                       /\ \/ t.dest + Len(t.data) <= Base + Region
                          \/ ParamAt + Len(token) >= Region
    <3>1. (Base + ParamAt) % 4 = 0 OBVIOUS
    <3> QED BY <1>1, <2>10, <2>11, <3>1
  <2>6. base # Base => \A x \in Bottom..(Top - 1) : ~Covers(t, x)
    <3>1. base # Base => d = ParamAt - 1 /\ ParamAt + n <= Bottom BY <1>1, <2>10, <2>11
    <3>2. \A x : Covers(t, x) => x \in d..(d + n) BY <2>11 DEF Covers
    <3> HIDE DEF d, n
    <3>3. base # Base => \A x \in d..(d + n) : x < Bottom BY <2>11, <3>1
    <3> QED BY <3>2, <3>3
  <2>7. Fine(t) BY <1>5, <2>5, <2>6
  <2> QED BY <2>1, <2>4, <2>7
<1>6. CASE func \notin {"dlopen", "dlsym", "init_func"} BY <1>6 DEF Text
<1> QED BY <1>3, <1>4, <1>5, <1>6

(* The writes a call starts with: its string, its parameters, and on x86   *)
(* its return address.                                                     *)
Parameters == [dest |-> Top0, data |-> Bytes(Stacked(func))]
ReturnAddress == [dest |-> Top0 - 4, data |-> Bytes(<< 0 >>)]

LEMMA OnStack ==
  ASSUME PokeTypes, func # "restore", ppc \in {"prepare", "write", "called"}
  PROVE  /\ Top0 \in Nat /\ Top0 % 4 = 0 /\ (Top0 - 4) % 4 = 0
         /\ Sp - StackUsed <= Top0 - 4 * ReturnWords
         /\ Top0 <= Sp /\ Top0 + 4 * Words(func) <= Sp /\ Words(func) \in Nat
         /\ Parameters \in Write /\ Len(Parameters.data) = 4 * Words(func)
         /\ ReturnAddress.data \in Seq(Data) /\ Len(ReturnAddress.data) = 4
         /\ arch = "x86" => ReturnAddress \in Write
         /\ ReturnWords = IF arch = "arm" THEN 0 ELSE 1
<1> USE Layout
<1>1. /\ Words(func) \in Nat /\ Before(func) \in Nat /\ ReturnWords \in Nat
      /\ Before(func) + Words(func) + ReturnWords <= 12
      /\ ReturnWords = IF arch = "arm" THEN 0 ELSE 1
  <2>1. arch \in {"arm", "x86"} /\ func \in Functions \cup {"init_func"} BY DEF PokeTypes
  <2> QED BY <2>1 DEF Words, Before, ReturnWords, Functions
<1>2. PICK m \in 0..Fallen(func) : regs.sp = Sp - 4 * (Depth + m) BY DEF PokeTypes
<1>3. m \in Nat /\ m <= 2 * (Frame + 1)
  <2>1. Fallen(func) \in Nat /\ Fallen(func) <= 2 * (Frame + 1) BY DEF Fallen
  <2> QED BY <1>2, <2>1
<1> DEFINE a == Before(func)
           b == Words(func)
           c == ReturnWords
<1>4. Top0 = Sp - 4 * ((a + b) + m)
  <2>1. a \in Nat /\ b \in Nat /\ c \in Nat BY <1>1
  <2>2. CASE ppc = "prepare"
    <3>1. regs.sp = Sp - 4 * (a + m) /\ Top0 = regs.sp - 4 * b
      <4>1. Depth = a BY <1>1, <2>2 DEF Depth
      <4> QED BY <1>2, <2>2, <4>1 DEF Top0
    <3> HIDE DEF a, b, c
    <3> QED BY <1>3, <2>1, <3>1
  <2>3. CASE ppc # "prepare"
    <3>1. regs.sp = Sp - 4 * ((a + (b + c)) + m) /\ Top0 = regs.sp + 4 * c
      <4>1. Depth = a + (b + c) BY <2>3 DEF Depth
      <4> QED BY <1>2, <2>3, <4>1 DEF Top0
    <3> HIDE DEF a, b, c
    <3> QED BY <1>3, <2>1, <3>1
  <2> QED BY <2>2, <2>3
<1>9. a \in Nat /\ b \in Nat /\ c \in {0, 1} /\ a + b + c <= 12 BY <1>1
<1>10. /\ Top0 \in Nat /\ Sp - StackUsed <= Top0 - 4 * c
       /\ Top0 % 4 = 0 /\ (Top0 - 4) % 4 = 0 /\ Top0 <= Sp /\ Top0 + 4 * b <= Sp
  <2> DEFINE n == (a + b) + m
             u == StackUsed
  <2> HIDE DEF a, b, c
  <2>1. n \in Nat /\ n + c <= 12 + 2 * (Frame + 1) /\ b <= n BY <1>3, <1>9
  <2>2. Top0 = Sp - 4 * n /\ u = 48 + 8 * (Frame + 1) /\ u <= Sp BY <1>4
  <2> HIDE DEF n, u
  <2>3. Top0 \in Nat /\ Sp - u <= Top0 - 4 * c /\ Top0 <= Sp /\ Top0 + 4 * b <= Sp
    BY <1>9, <2>1, <2>2
  <2>4. Top0 % 4 = 0 /\ (Top0 - 4) % 4 = 0 BY <2>1, <2>2, <2>3
  <2> QED BY <2>3, <2>4 DEF u
<1>5. Stacked(func) \in Seq(Nat) /\ Len(Stacked(func)) = Words(func) BY ParamsOf
<1>6. Parameters \in Write /\ Len(Parameters.data) = 4 * Words(func)
  <2>1. /\ Bytes(Stacked(func)) \in Seq(Data)
        /\ Len(Bytes(Stacked(func))) = 4 * Len(Stacked(func))
    BY <1>5, BytesType
  <2> QED BY <1>5, <1>10, <2>1 DEF Parameters, Write
<1>7. Bytes(<< 0 >>) \in Seq(Data) /\ Len(Bytes(<< 0 >>)) = 4
  <2>1. << 0 >> \in Seq(Nat) /\ Len(<< 0 >>) = 1 OBVIOUS
  <2>2. Bytes(<< 0 >>) \in Seq(Data) /\ Len(Bytes(<< 0 >>)) = 4 * Len(<< 0 >>) BY <2>1, BytesType
  <2> QED BY <2>1, <2>2
<1>8. arch = "x86" => Top0 - 4 \in Nat BY <1>1, <1>10
<1> QED BY <1>1, <1>6, <1>7, <1>8, <1>10 DEF ReturnAddress, Write

(* A sequence with one more. *)
LEMMA Longer ==
  ASSUME NEW S, NEW s \in Seq(S), NEW p \in S
  PROVE  /\ s \o <<p>> \in Seq(S) /\ Len(s \o <<p>>) = Len(s) + 1 
      /\ \A i \in 1..Len(s) : (s \o <<p>>)[i] = s[i]
      /\ (s \o <<p>>)[Len(s) + 1] = p
  <1>1. <<p>> \in Seq(S) /\ Len(<<p>>) = 1 /\ <<p>>[1] = p OBVIOUS
  <1> DEFINE b == <<p>>
            n == Len(s)
  <1>2. b \in Seq(S) /\ Len(b) = 1 /\ b[1] = p BY <1>1
  <1>6. n \in Nat OBVIOUS
  <1> HIDE DEF b
  <1>3. /\ s \o b \in Seq(S) /\ Len(s \o b) = n + Len(b)
      /\ \A i \in 1..(n + Len(b)) : (s \o b)[i] = IF i <= n THEN s[i] ELSE b[i-n]
    BY <1>2, ConcatProperties
  <1> HIDE DEF n
  <1>4. (s \o b)[n + 1] = p
   <2>1. n + 1 \in 1..(n + Len(b)) /\ ~(n + 1 <= n) /\ (n + 1) - n = 1 BY <1>2, <1>6
   <2> QED BY <1>2, <1>3, <2>1
  <1>5. \A i \in 1..n : (s \o b)[i] = s[i]
    BY <1>2, <1>3, <1>6
  <1> QED BY <1>2, <1>3, <1>4, <1>5 DEF b, n

LEMMA Appended ==
  ASSUME NEW S, NEW t \in S, NEW p \in S, NEW r \in S
  PROVE  /\ <<>> \o <<p>> \o <<>> = <<p>> /\ <<>> \o <<p>> \o <<r>> = <<p, r>>
         /\ <<t>> \o <<p>> \o <<>> = <<t, p>> /\ <<t>> \o <<p>> \o <<r>> = <<t, p, r>>
<1>1. ASSUME NEW a \in S, NEW b \in S PROVE <<a>> \o <<b>> = <<a, b>>
  <2> DEFINE s == <<a>>
             c == <<a, b>>
  <2>1. s \in Seq(S) /\ Len(s) = 1 /\ s[1] = a OBVIOUS
  <2>2. c \in Seq(S) /\ Len(c) = 2 /\ c[1] = a /\ c[2] = b OBVIOUS
  <2> HIDE DEF s, c
  <2> DEFINE d == s \o <<b>>
  <2>3. d \in Seq(S) /\ Len(d) = 2 /\ d[1] = a /\ d[2] = b BY <2>1, Longer
  <2> HIDE DEF d
  <2>4. d = c BY <2>2, <2>3, SeqEqual
  <2> QED BY <2>4 DEF s, c, d
<1>2. <<t, p>> \o <<r>> = <<t, p, r>>
  <2> DEFINE c == <<t, p, r>>
  <2>1. <<t, p>> \in Seq(S) /\ Len(<<t, p>>) = 2 /\ <<t, p>>[1] = t /\ <<t, p>>[2] = p OBVIOUS
  <2>2. c \in Seq(S) /\ Len(c) = 3 /\ c[1] = t /\ c[2] = p /\ c[3] = r OBVIOUS
  <2> HIDE DEF c
  <2>3. ASSUME NEW s \in Seq(S), Len(s) = 2, s[1] = t, s[2] = p PROVE s \o <<r>> = c
    <3> DEFINE d == s \o <<r>>
    <3>4. d \in Seq(S) BY Longer
    <3>5. Len(d) = Len(s) + 1 BY Longer
    <3>6. d[Len(s) + 1] = r BY Longer
    <3>7. \A i \in 1..Len(s) : d[i] = s[i] BY Longer
    <3> HIDE DEF d
    <3>1. d \in Seq(S) /\ Len(d) = 3 /\ d[3] = r /\ d[1] = s[1] /\ d[2] = s[2]
      BY <2>3, <3>4, <3>5, <3>6, <3>7
    <3>2. d = c BY <2>2, <2>3, <3>1, SeqEqual
    <3> QED BY <3>2 DEF d
  <2> QED BY <2>1, <2>3 DEF c
<1>3. <<p>> \o <<>> = <<p>> /\ <<t, p>> \o <<>> = <<t, p>> OBVIOUS
<1>4. <<>> \o <<p>> = <<p>> 
  <2>1. <<p>> \in Seq(S) OBVIOUS
  <2> QED BY <2>1, ConcatEmptySeq
<1> QED BY <1>1, <1>2, <1>3, <1>4, Zenon

LEMMA Planned ==
  ASSUME PokeTypes, Prepare
  PROVE  /\ ppc = "prepare" /\ ppc' = "write" /\ func # "restore"
         /\ UNCHANGED <<func, given, mem, base, so, entry, alive>>
         /\ \/ Text(func) = <<>> /\ arch = "arm" /\ todo' = <<Parameters>>
            \/ Text(func) = <<>> /\ arch = "x86" /\ todo' = <<Parameters, ReturnAddress>>
            \/ \E t : Text(func) = <<t>> /\ arch = "arm" /\ todo' = <<t, Parameters>>
            \/ \E t : Text(func) = <<t>> /\ arch = "x86" /\ todo' = <<t, Parameters, ReturnAddress>>
         /\ regs' = [r |-> regs'.r, sp |-> regs'.sp, pc |-> regs'.pc, thumb |-> regs'.thumb]
         /\ regs'.sp = Top0 - 4 * ReturnWords
<1>1. /\ ppc = "prepare" /\ ppc' = "write"
      /\ UNCHANGED <<func, given, mem, base, so, entry, alive>>
  BY DEF Prepare
<1>2. func # "restore" /\ arch \in {"arm", "x86"} BY <1>1 DEF PokeTypes
<1> DEFINE stacked == SubSeq(Params(func), InRegs + 1, Len(Params(func)))
           top == Below(regs.sp, Len(stacked))
<1>3. stacked = Stacked(func) BY DEF Stacked
<1>4. top = Top0
  <2>1. Len(stacked) = Words(func) /\ Words(func) \in Nat
    <3>1. Len(Stacked(func)) = Words(func) /\ Words(func) \in 0..6 BY <1>2, ParamsOf
    <3> HIDE DEF stacked
    <3> QED BY <1>3, <3>1
  <2>4. top = regs.sp - 4 * Words(func) BY <2>1 DEF Below
  <2> QED BY <1>1, <2>4 DEF Top0
<1>5. /\ todo' = Text(func) \o <<[dest |-> top, data |-> Bytes(stacked)]>>
                \o (IF arch = "arm" THEN <<>> ELSE <<[dest |-> top - 4, data |-> Bytes(<< 0 >>)]>>)
      /\ \E r, pc, thumb :
           regs' = [r |-> r, sp |-> IF arch = "arm" THEN top ELSE top - 4, pc |-> pc, thumb |-> thumb]
  BY DEF Prepare
<1> HIDE DEF top, stacked
<1>6. todo' = Text(func) \o <<Parameters>>
                \o (IF arch = "arm" THEN <<>> ELSE <<ReturnAddress>>)
  BY <1>3, <1>4, <1>5 DEF Parameters, ReturnAddress
<1>7. Text(func) = <<>> \/ \E t : Text(func) = <<t>>
  BY <1>2, TextOf
<1>8. Top0 \in Nat BY <1>1, <1>2, OnStack
<1>9. /\ regs' = [r |-> regs'.r, sp |-> regs'.sp, pc |-> regs'.pc, thumb |-> regs'.thumb]
      /\ regs'.sp = Top0 - 4 * ReturnWords
  BY <1>2, <1>4, <1>5, <1>8 DEF ReturnWords
<1>10. CASE Text(func) = <<>>
  <2>4. Parameters \in Write BY <1>1, <1>2, OnStack
  <2>1. CASE arch = "arm"
    <3>1. todo' = <<>> \o <<Parameters>> \o <<>> BY <1>6, <1>10, <2>1
    <3>2. todo' = <<Parameters>> BY <2>4, <3>1, Appended
    <3> QED BY <1>1, <1>2, <1>9, <1>10, <2>1, <3>2
  <2>2. CASE arch = "x86"
    <3>1. todo' = <<>> \o <<Parameters>> \o <<ReturnAddress>> BY <1>6, <1>10, <2>2
    <3>2. ReturnAddress \in Write BY <1>1, <1>2, <2>2, OnStack
    <3>3. todo' = <<Parameters, ReturnAddress>> BY <2>4, <3>1, <3>2, Appended
    <3> QED BY <1>1, <1>2, <1>9, <1>10, <2>2, <3>3
  <2> QED BY <1>2, <2>1, <2>2
<1>11. CASE \E t : Text(func) = <<t>>
  <2>3. PICK t \in Write : Text(func) = <<t>> BY <1>2, <1>11, TextOf
  <2>4. Parameters \in Write BY <1>1, <1>2, OnStack
  <2>1. CASE arch = "arm"
    <3>1. todo' = <<t>> \o <<Parameters>> \o <<>> BY <1>6, <2>1, <2>3
    <3>2. todo' = <<t, Parameters>> BY <2>3, <2>4, <3>1, Appended
    <3> QED BY <1>1, <1>2, <1>9, <2>1, <2>3, <3>2
  <2>2. CASE arch = "x86"
    <3>1. todo' = <<t>> \o <<Parameters>> \o <<ReturnAddress>> BY <1>6, <1>2, <2>2, <2>3
    <3>2. ReturnAddress \in Write BY <1>1, <1>2, <2>2, OnStack
    <3>4. ASSUME NEW p \in Write, NEW r \in Write PROVE <<t>> \o <<p>> \o <<r>> = <<t, p, r>>
      BY <2>3, Appended
    <3>3. todo' = <<t, Parameters, ReturnAddress>> BY <2>4, <3>1, <3>2, <3>4
    <3> QED BY <1>1, <1>2, <1>9, <2>2, <2>3, <3>3
  <2> QED BY <1>2, <2>1, <2>2
<1> QED BY <1>7, <1>10, <1>11

LEMMA PrepareOwn == ASSUME OwnInv, Prepare PROVE OwnInv'
<1> USE DEF OwnInv
<1>1. /\ ppc = "prepare" /\ ppc' = "write" /\ func # "restore"
      /\ UNCHANGED <<func, given, mem, base, so, entry, alive>>
      /\ regs' = [r |-> regs'.r, sp |-> regs'.sp, pc |-> regs'.pc, thumb |-> regs'.thumb]
      /\ regs'.sp = Top0 - 4 * ReturnWords
  BY Planned
<1> DEFINE Kind(w) ==
      \/ w = Parameters \/ (arch = "x86" /\ w = ReturnAddress) \/ Text(func) = <<w>>
<1>2. \A w : Kind(w) => w \in Write
  <2>1. ASSUME NEW w, Text(func) = <<w>> PROVE w \in Write
    <3>1. PICK t \in Write : Text(func) = <<t>> BY <1>1, <2>1, TextOf
    <3>2. <<t>>[1] = <<w>>[1] BY <2>1, <3>1
    <3> QED BY <3>2
  <2> QED BY <1>1, <2>1, OnStack
<1>3. \E n \in 1..3 : DOMAIN todo' = 1..n /\ todo' \in Seq(Write) /\ \A k \in 1..n : Kind(todo'[k])
  <2>1. CASE Text(func) = <<>> /\ arch = "arm" /\ todo' = <<Parameters>>
    <3>1. Kind(Parameters) OBVIOUS
    <3> HIDE DEF Kind
    <3> QED BY <1>2, <2>1, <3>1
  <2>2. CASE Text(func) = <<>> /\ arch = "x86" /\ todo' = <<Parameters, ReturnAddress>>
    <3>1. Kind(Parameters) /\ Kind(ReturnAddress) BY <2>2
    <3> HIDE DEF Kind
    <3> QED BY <1>2, <2>2, <3>1
  <2>3. CASE \E t : Text(func) = <<t>> /\ arch = "arm" /\ todo' = <<t, Parameters>>
    <3>1. PICK t : Text(func) = <<t>> /\ todo' = <<t, Parameters>> BY <2>3
    <3>2. Kind(Parameters) /\ Kind(t) BY <3>1
    <3> HIDE DEF Kind
    <3> QED BY <1>2, <3>1, <3>2
  <2>4. CASE \E t : /\ Text(func) = <<t>> /\ arch = "x86"
                    /\ todo' = <<t, Parameters, ReturnAddress>>
    <3>1. PICK t : Text(func) = <<t>> /\ todo' = <<t, Parameters, ReturnAddress>> BY <2>4
    <3>2. Kind(Parameters) /\ Kind(ReturnAddress) /\ Kind(t) BY <2>4, <3>1
    <3> HIDE DEF Kind
    <3> QED BY <1>2, <3>1, <3>2
  <2> HIDE DEF Kind
  <2> QED BY <2>1, <2>2, <2>3, <2>4, Planned
<1>4. \A x \in Bottom..(Top - 1) : Own(x)' <=> Own(x) BY <1>1 DEF Own, given
<1>5. \A w : Kind(w) => Aligned(w) /\ \A x \in Bottom..(Top - 1) : Covers(w, x) => Own(x)
  <2>1. /\ Aligned(Parameters)
        /\ \A x \in Bottom..(Top - 1) : Covers(Parameters, x) => Own(x)
    <3> DEFINE n == 4 * Words(func)
    <3>1. /\ Parameters.dest = Top0 /\ Top0 % 4 = 0 /\ Top0 \in Nat /\ Sp - StackUsed <= Top0
          /\ Len(Parameters.data) = n
      <4>1. /\ Top0 \in Nat /\ Top0 % 4 = 0 /\ Sp - StackUsed <= Top0 - 4 * ReturnWords
            /\ Len(Parameters.data) = n
        BY <1>1, OnStack
      <4>2. ReturnWords \in {0, 1} BY DEF ReturnWords
      <4>3. Parameters.dest = Top0 BY DEF Parameters
      <4> HIDE DEF n
      <4> QED BY <4>1, <4>2, <4>3, Layout
    <3>2. Top0 + n <= Sp /\ n \in Nat
      <4>1. Top0 + 4 * Words(func) <= Sp /\ Words(func) \in Nat BY <1>1, OnStack
      <4> QED BY <4>1
    <3> HIDE DEF n
    <3>3. \A x \in Bottom..(Top - 1) : Covers(Parameters, x) => x \in (Sp - StackUsed)..(Sp - 1)
      BY <3>1, <3>2, Layout DEF Covers
    <3> QED BY <3>1, <3>3, Layout DEF Aligned, Own
  <2>2. ASSUME arch = "x86"
        PROVE  /\ Aligned(ReturnAddress)
               /\ \A x \in Bottom..(Top - 1) : Covers(ReturnAddress, x) => Own(x)
    <3>1. /\ ReturnAddress.dest = Top0 - 4 /\ (Top0 - 4) % 4 = 0 /\ Top0 \in Nat
          /\ Sp - StackUsed <= Top0 - 4 /\ Top0 <= Sp /\ Len(ReturnAddress.data) = 4
      BY <1>1, <2>2, OnStack DEF ReturnAddress
    <3>2. \A x \in Bottom..(Top - 1) : Covers(ReturnAddress, x) => x \in (Sp - StackUsed)..(Sp - 1)
      BY <3>1, Layout DEF Covers
    <3> QED BY <3>1, <3>2, Layout DEF Aligned, Own
  <2>3. ASSUME NEW w, Text(func) = <<w>>
        PROVE  Aligned(w) /\ \A x \in Bottom..(Top - 1) : Covers(w, x) => Own(x)
    <3>1. PICK t \in Write :
            /\ Text(func) = <<t>>
            /\ \/ /\ t.dest % 4 = 0 /\ base = Base /\ t.dest >= Base
                  /\ \/ t.dest + Len(t.data) <= Base + Region
                     \/ func = "init_func" /\ ParamAt + Len(token) >= Region
               \/ \A x \in Bottom..(Top - 1) : ~Covers(t, x)
      BY <1>1, <2>3, TextOf
    <3>2. w = t
      <4>1. <<t>>[1] = <<w>>[1] BY <2>3, <3>1
      <4> QED BY <4>1
    <3>3. Aligned(t) BY <3>1 DEF Aligned
    <3>4. ASSUME NEW x \in Bottom..(Top - 1), Covers(t, x) PROVE Own(x)
      <4>1. t.dest \in Nat /\ Len(t.data) \in Nat BY DEF Write
      <4>2. x \in Nat /\ x >= t.dest /\ x < t.dest + Len(t.data)
        BY <3>4, <4>1, Layout DEF Covers
      <4>3. base = Base /\ t.dest >= Base BY <3>1, <3>4
      <4>4. x < Base + Region \/ ParamAt + Len(token) >= Region
        BY <3>1, <3>4, <4>1, <4>2, Layout
      <4>5. x >= Base BY <4>1, <4>2, <4>3, Layout
      <4> QED BY <4>3, <4>4, <4>5 DEF Own
    <3> QED BY <3>2, <3>3, <3>4
  <2> QED BY <2>1, <2>2, <2>3
<1> HIDE DEF Kind
<1>6. TodoOwn' BY <1>3, <1>4, <1>5 DEF TodoOwn
<1>7. PokeTypes'
  <2>1. Depth' = Before(func) + (Words(func) + ReturnWords)
    BY <1>1 DEF Depth, Before, Words, ReturnWords, given
  <2>2. \E n \in 0..Fallen(func)' : regs'.sp = Sp - 4 * (Depth' + n)
    <3> DEFINE a == Before(func)
               b == Words(func)
               c == ReturnWords
    <3>0. PICK m \in 0..Fallen(func) : regs.sp = Sp - 4 * (Depth + m) BY <1>1 DEF PokeTypes
    <3>1. a \in Nat BY DEF Before
    <3>2. b \in Nat
      <4>1. b \in 0..6 BY <1>1, ParamsOf
      <4> HIDE DEF b
      <4> QED BY <4>1
    <3>3. c \in Nat BY DEF ReturnWords
    <3>4. regs.sp = Sp - 4 * (a + m)
      <4>1. Depth = a BY <1>1, <3>1 DEF Depth
      <4> QED BY <3>0, <4>1
    <3>5. Depth' = a + (b + c) /\ regs'.sp = (regs.sp - 4 * b) - 4 * c
      BY <1>1, <2>1 DEF Top0
    <3>6. Fallen(func)' = Fallen(func) /\ Fallen(func) \in Nat BY <1>1, Layout DEF Fallen
    <3> HIDE DEF a, b, c
    <3>7. regs'.sp = Sp - 4 * (Depth' + m) BY <3>1, <3>2, <3>3, <3>4, <3>5, <3>6, Layout
    <3> QED BY <3>0, <3>6, <3>7
  <2>3. Places' = Places BY <1>1 DEF Places
  <2>4. todo' \in Seq(Write) BY <1>3
  <2> QED BY <1>1, <2>2, <2>3, <2>4 DEF PokeTypes, given
<1>8. OwnMemoryOnly' BY <1>1 DEF OwnMemoryOnly, given
<1> QED BY <1>6, <1>7, <1>8

LEMMA BackOwn == ASSUME OwnInv, Return \/ Crash PROVE OwnInv'
<1> USE DEF OwnInv
<1> DEFINE next == func'
<1>0. regs.sp \in Int /\ Frame \in Nat
  <2>1. ppc = "called" BY DEF Return, Crash, Back
  <2>2. PICK m \in 0..Fallen(func) : regs.sp = Sp - 4 * (Depth + m) BY <2>1 DEF PokeTypes
  <2>3. Before(func) \in Nat /\ Words(func) \in Nat /\ ReturnWords \in Nat
    BY DEF Before, Words, ReturnWords
  <2>4. Depth \in Int BY <2>1, <2>3 DEF Depth
  <2>5. Fallen(func) \in Nat BY Layout DEF Fallen
  <2>6. m \in Int BY <2>5
  <2>7. Sp \in Nat /\ Frame \in Nat BY Layout
  <2> QED BY <2>2, <2>4, <2>6, <2>7
<1>1. PICK v \in Nat, sp \in Int :
        /\ Back(v, sp)
        /\ func = "mmap" => v \in {Base, Modulus - 1}
        /\ \/ sp = (IF arch = "arm" THEN regs.sp ELSE regs.sp + 4)
           \/ func \in {"dlopen", "dlsym", "init_func"} /\ \E n \in 0..Frame : sp = regs.sp - 4 * n
  <2>1. CASE Return
    <3>1. PICK v \in Results : Back(v, IF arch = "arm" THEN regs.sp ELSE regs.sp + 4)
      BY <2>1 DEF Return
    <3>2. v \in Nat /\ (func = "mmap" => v \in {Base, Modulus - 1})
      BY <3>1, Layout, AddressAssumption DEF Results
    <3> QED BY <1>0, <3>1, <3>2
  <2>2. CASE Crash
    <3>1. PICK v \in Junk, n \in 0..Frame : Back(v, regs.sp - 4 * n)
      BY <2>2 DEF Crash
    <3>2. func \in {"dlopen", "dlsym", "init_func"} BY <2>2 DEF Crash, MayCrash
    <3>3. v \in Nat BY AddressAssumption
    <3> QED BY <1>0, <3>1, <3>2, <3>3
  <2> QED BY <2>1, <2>2
<1>2. /\ ppc = "called" /\ next = After(func, v)
      /\ ppc' = (IF func = "init_func" THEN "exit" ELSE "prepare")
      /\ regs' = [regs EXCEPT !.sp = sp]
      /\ base' = (IF func = "mmap" THEN v ELSE base)
      /\ so' = (IF func = "dlopen" THEN v ELSE so)
      /\ entry' = (IF func = "dlsym" THEN v ELSE entry)
      /\ arch' = arch /\ token' = token /\ mem' = mem /\ todo' = todo /\ alive' = alive
  BY <1>1 DEF Back, given
<1>8. \/ func = "mmap" /\ next \in {"__errno", "dlopen"}
      \/ func = "__errno" /\ next = "dlopen"
      \/ func = "dlopen" /\ next \in {"dlerror", "dlsym"}
      \/ func = "dlerror" /\ next = "dlsym"
      \/ func = "dlsym" /\ next = "init_func"
      \/ func = "init_func" /\ next = "restore"
  <2>1. func \in Functions \cup {"init_func"} BY <1>2 DEF PokeTypes
  <2> QED BY <1>2, <2>1 DEF Functions, After
<1> HIDE DEF next
<1>3. base = Base => base' = Base
  <2>1. func = "mmap" => base = 0 BY DEF PokeTypes
  <2>2. Base # 0 BY Layout, Strings
  <2> QED BY <1>2, <2>1, <2>2
<1>4. \A x \in Bottom..(Top - 1) : Own(x) => Own(x)' BY <1>2, <1>3 DEF Own
<1>5. PokeTypes'
  <2>1. arch \in {"arm", "x86"} BY DEF PokeTypes
  <2>2. regs' = [r |-> regs.r, sp |-> sp, pc |-> regs.pc, thumb |-> regs.thumb]
    <3>1. regs = [r |-> regs.r, sp |-> regs.sp, pc |-> regs.pc, thumb |-> regs.thumb]
      BY DEF PokeTypes
    <3> QED BY <1>2, <3>1
  <2>3. ppc' # "exit" => \E n \in 0..Fallen(func') : regs'.sp = Sp - 4 * (Depth' + n)
    <3> SUFFICES ASSUME ppc' # "exit"
                 PROVE  \E n \in 0..Fallen(next) : sp = Sp - 4 * (Depth' + n)
      BY <2>2 DEF next
    <3> DEFINE a == Before(func)
               b == Words(func)
               c == ReturnWords
    <3>0. PICK m \in 0..Fallen(func) : regs.sp = Sp - 4 * (Depth + m) BY <1>2 DEF PokeTypes
    <3>1. regs.sp = Sp - 4 * ((a + (b + c)) + m) BY <1>2, <3>0 DEF Depth
    <3>2. Depth' = a + b
      <4>1. Depth' = Before(next) + 0
        BY <1>2 DEF Depth, Before, next
      <4>2. Before(next) = a + b BY <1>2, <1>8, <2>1 DEF Before, Words
      <4>3. a + b \in Nat BY DEF Before, Words
      <4> QED BY <4>1, <4>2, <4>3
    <3>3. a \in Nat BY DEF Before
    <3>4. b \in Nat BY DEF Words
    <3>5. c = IF arch = "arm" THEN 0 ELSE 1 BY DEF ReturnWords
    <3>6. /\ Fallen(func) \in Nat /\ Fallen(next) \in Nat /\ Fallen(func) <= Fallen(next)
          /\ func \in {"dlopen", "dlsym"} => Fallen(next) = Fallen(func) + (Frame + 1)
          /\ func # "init_func"
      BY <1>2, <1>8, Layout DEF Fallen
    <3>7. m \in Nat /\ m <= Fallen(func) BY <3>0, <3>6
    <3> HIDE DEF a, b, c
    <3>8. CASE sp = IF arch = "arm" THEN regs.sp ELSE regs.sp + 4
      <4>1. sp = Sp - 4 * (Depth' + m) BY <3>1, <3>2, <3>3, <3>4, <3>5, <3>7, <3>8, Layout
      <4>2. m \in 0..Fallen(next) BY <3>6, <3>7
      <4> QED BY <4>1, <4>2
    <3>9. CASE func \in {"dlopen", "dlsym", "init_func"} /\ \E n \in 0..Frame : sp = regs.sp - 4 * n
      <4>1. PICK n \in 0..Frame : sp = regs.sp - 4 * n BY <3>9
      <4>2. c \in {0, 1} /\ n \in Nat /\ n <= Frame BY <3>5, <4>1, Layout
      <4>3. sp = Sp - 4 * (Depth' + (c + (m + n))) BY <3>1, <3>2, <3>3, <3>4, <3>7, <4>1, <4>2, Layout
      <4>4. c + (m + n) \in 0..Fallen(next)
        <5>1. Fallen(next) = Fallen(func) + (Frame + 1) BY <3>6, <3>9
        <5> QED BY <3>6, <3>7, <4>2, <5>1, Layout
      <4> QED BY <4>3, <4>4
    <3> QED BY <1>1, <3>8, <3>9
  <2>4. Places' = Places BY <1>2 DEF Places
  <2>5. /\ func' \in Functions \cup {"init_func", "restore"} /\ func' # "mmap"
        /\ ppc' \in {"prepare", "exit"} /\ (func' = "restore" => ppc' = "exit")
    BY <1>2, <1>8 DEF Functions, next
  <2>6. base' \in {Base, Modulus - 1} /\ so' \in Nat /\ entry' \in Nat
    BY <1>1, <1>2 DEF PokeTypes
  <2>7. regs' = [r |-> regs'.r, sp |-> regs'.sp, pc |-> regs'.pc, thumb |-> regs'.thumb]
    BY <2>2
  <2> QED BY <1>2, <2>3, <2>4, <2>5, <2>6, <2>7 DEF PokeTypes
<1>6. TodoOwn' BY <1>2, <1>4 DEF TodoOwn
<1>7. OwnMemoryOnly'
  <2>1. ASSUME NEW a \in Bottom..(Top - 1), mem[a] # <<"old", a>> PROVE Own(a)'
    <3>1. Own(a) BY <2>1 DEF OwnMemoryOnly, Own, PokeTypes, Places
    <3> QED BY <1>4, <3>1
  <2>2. DOMAIN mem = Bottom..(Top - 1) BY DEF PokeTypes, Places
  <2> QED BY <1>2, <2>1, <2>2 DEF OwnMemoryOnly, Own
<1> QED BY <1>5, <1>6, <1>7

(* The calls that neither write nor return. *)
LEMMA OtherOwn ==
  ASSUME OwnInv, Attach \/ Run \/ Die \/ UNCHANGED pokeVars PROVE OwnInv'
<1> USE DEF OwnInv
<1>1. /\ UNCHANGED <<func, given, mem, todo, regs, base, so, entry>>
      /\ alive' \in BOOLEAN
      /\ \/ ppc' = ppc
         \/ ppc = "start" /\ ppc' \in {"exit", "prepare"}
         \/ ppc = "write" /\ ppc' \in {"called", "exit"}
  BY DEF Attach, Run, Die, pokeVars, PokeTypes
<1>2. PokeTypes'
  <2>1. Places' = Places BY <1>1 DEF Places
  <2>2. ppc' # "exit" => Depth' = Depth
    BY <1>1 DEF Depth, Before, Words, ReturnWords, given
  <2> QED BY <1>1, <2>1, <2>2 DEF PokeTypes, given
<1>3. TodoOwn' BY <1>1 DEF TodoOwn, Own, given
<1>4. OwnMemoryOnly' BY <1>1 DEF OwnMemoryOnly, given
<1> QED BY <1>2, <1>3, <1>4

LEMMA OwnStart == ASSUME PokeInit PROVE OwnInv
<1>1. /\ arch \in {"arm", "x86"} /\ token \in Tokens /\ ppc = "start" /\ func = "mmap"
      /\ mem = [a \in Bottom..(Top - 1) |-> <<"old", a>>] /\ todo = <<>>
      /\ regs = [r |-> [i \in 0..3 |-> 0], sp |-> Sp, pc |-> 0, thumb |-> FALSE]
      /\ base = 0 /\ so = 0 /\ entry = 0 /\ alive = TRUE
  BY DEF PokeInit
<1>2. PokeTypes
  <2>1. Depth = 0 BY <1>1 DEF Depth, Before
  <2>2. \E n \in 0..Fallen(func) : regs.sp = Sp - 4 * (Depth + n)
    <3>1. Fallen(func) = 0 BY <1>1 DEF Fallen
    <3>2. regs.sp = Sp - 4 * (Depth + 0) BY <1>1, <2>1, Layout
    <3> QED BY <3>1, <3>2
  <2>3. regs = [r |-> regs.r, sp |-> regs.sp, pc |-> regs.pc, thumb |-> regs.thumb] BY <1>1
  <2> QED BY <1>1, <2>2, <2>3 DEF PokeTypes, Places, Functions
<1>3. TodoOwn BY <1>1 DEF TodoOwn
<1>4. OwnMemoryOnly BY <1>1 DEF OwnMemoryOnly
<1> QED BY <1>2, <1>3, <1>4 DEF OwnInv

LEMMA OwnAlways == Spec => []OwnInv
<1>1. Init => OwnInv BY OwnStart DEF Init
<1>2. OwnInv /\ [Next]_<<findVars, pokeVars>> => OwnInv'
  <2> SUFFICES ASSUME OwnInv, [Next]_<<findVars, pokeVars>> PROVE OwnInv'
    OBVIOUS
  <2>1. PokeNext \/ UNCHANGED pokeVars BY DEF Next
  <2> QED BY <2>1, RequestOwn, PrepareOwn, BackOwn, OtherOwn DEF PokeNext
<1> QED BY <1>1, <1>2, PTL DEF Spec

(***************************************************************************)
(* For any lay-out of memory, library, function and token that Poke        *)
(* assumes, on ARM and x86, whichever calls fail or crash, with up to      *)
(* Frame words on the stack at a crash: what bootstrap (bootstrap.c)       *)
(* changes of the zygote's memory is no further below its stack pointer    *)
(* than twelve words and what the two crashes before init_func have left,  *)
(* or in the mapping made for it.                                          *)
(***************************************************************************)
THEOREM OwnMemoryOnlyAlways == Spec => []OwnMemoryOnly
<1>1. OwnInv => OwnMemoryOnly BY DEF OwnInv
<1> QED BY <1>1, OwnAlways, PTL

(* Every variable keeps its type; the stack pointer is where the calls     *)
(* made so far have left it.                                               *)
THEOREM TypeCorrect == Spec => [](FindTypes /\ PokeTypes)
<1>1. FindInv => FindTypes BY DEF FindInv
<1>2. OwnInv => PokeTypes BY DEF OwnInv
<1> QED BY <1>1, <1>2, FindAlways, OwnAlways, PTL

-----------------------------------------------------------------------------
(* What the call finds *)

(* The words of a write lie in the zygote's memory if any of it does, as   *)
(* both begin and end at multiples of four; a request puts what it should. *)
LEMMA RequestPuts ==
  ASSUME OwnInv, alive, PokeWord \/ PokeRest, NEW x \in Bottom..(Top - 1)
  PROVE  mem'[x] = IF x \in todo[1].dest..(todo[1].dest + Len(Piece(todo[1])) - 1)
                     THEN Put(todo[1], x) ELSE mem[x]
<1> DEFINE w == todo[1]
           d == w.dest
           n == Len(Piece(w))
<1>1. 1 \in DOMAIN todo /\ w \in Write /\ mem' = Stored(d, Piece(w))
  BY Request DEF OwnInv
<1>2. Aligned(w) BY <1>1 DEF OwnInv, TodoOwn
<1>3. d \in Nat BY <1>1 DEF Write
<1>4. Places = Bottom..(Top - 1) BY DEF OwnInv, PokeTypes
<1>5. mem'[x] = IF d \in Bottom..(Top - 4) /\ x \in d..(d + n - 1)
                  THEN Piece(w)[x - d + 1] ELSE mem[x]
  BY <1>1, <1>4, StoredAt
<1>6. n \in 0..4 BY <1>1, PieceOf
<1>7. x \in d..(d + n - 1) => Covers(w, x) /\ Piece(w)[x - d + 1] = Put(w, x)
  BY <1>1, PieceOf
<1>8. Covers(w, x) => d % 4 = 0 BY <1>2 DEF Aligned
<1> HIDE DEF n, d
<1>9. ASSUME x \in d..(d + n - 1), d % 4 = 0 PROVE d \in Bottom..(Top - 4)
  <2>1. d <= x /\ x < d + 4 /\ x \in Nat /\ x >= Bottom /\ x < Top
    BY <1>3, <1>6, <1>9, Layout
  <2>2. d + 4 > Bottom /\ d < Top BY <1>3, <2>1, Layout
  <2>3. d >= Bottom BY <1>3, <1>9, <2>2, Layout
  <2>4. d + 4 <= Top BY <1>3, <1>9, <2>2, Layout
  <2> QED BY <1>3, <2>3, <2>4, Layout
<1>10. mem'[x] = IF x \in d..(d + n - 1) THEN Put(w, x) ELSE mem[x]
  BY <1>5, <1>7, <1>8, <1>9
<1> QED BY <1>10 DEF d, n

(* A request changes nothing of what the memory will be in the end.        *)
LEMMA RequestKeeps ==
  ASSUME OwnInv, alive, PokeWord \/ PokeRest, NEW x \in Bottom..(Top - 1), NEW v,
         Finally(mem, todo, x, v)
  PROVE  Finally(mem', todo', x, v)
<1> DEFINE w == todo[1]
           done == x \in w.dest..(w.dest + Len(Piece(w)) - 1)
<1>1. 1 \in DOMAIN todo /\ w \in Write /\ DOMAIN todo = 1..Len(todo) /\ Len(todo) \in Nat
  <2>1. 1 \in DOMAIN todo /\ w \in Write BY Request DEF OwnInv
  <2>2. todo \in Seq(Write) BY DEF OwnInv, PokeTypes
  <2>3. DOMAIN todo = 1..Len(todo) /\ Len(todo) \in Nat BY <2>2
  <2> QED BY <2>1, <2>3
<1>2. mem'[x] = IF done THEN Put(w, x) ELSE mem[x] BY RequestPuts
<1>3. done => Covers(w, x) BY <1>1, PieceOf
<1>4. x \in Nat BY Layout
<1>5. w.dest \in Nat /\ Len(w.data) \in Nat BY <1>1 DEF Write
<1>6. CASE /\ Len(w.data) >= 4 /\ DOMAIN todo' = DOMAIN todo /\ todo'[1] = Rest(w)
           /\ \A k \in DOMAIN todo : k # 1 => todo'[k] = todo[k]
  <2>1. /\ Covers(Rest(w), x) <=> Covers(w, x) /\ x >= w.dest + 4
        /\ Covers(Rest(w), x) => Put(Rest(w), x) = Put(w, x)
    BY <1>1, <1>4, <1>6, RestOf
  <2>2. done <=> Covers(w, x) /\ ~(x >= w.dest + 4)
    <3>1. Len(Piece(w)) = 4 BY <1>1, <1>6, PieceOf
    <3>2. done <=> x \in w.dest..(w.dest + 3) BY <1>5, <3>1
    <3> QED BY <1>4, <1>5, <1>6, <3>2 DEF Covers
  <2> HIDE DEF done
  <2>3. CASE mem[x] = v /\ \A j \in DOMAIN todo : ~Covers(todo[j], x)
    <3>1. ~Covers(w, x) BY <1>1, <2>3
    <3>2. mem'[x] = v BY <1>2, <1>3, <2>3, <3>1
    <3>3. \A j \in DOMAIN todo' : ~Covers(todo'[j], x) BY <1>6, <2>1, <2>3, <3>1
    <3> QED BY <3>2, <3>3 DEF Finally
  <2>4. CASE \E k \in DOMAIN todo :
               /\ Covers(todo[k], x) /\ Put(todo[k], x) = v
               /\ \A j \in DOMAIN todo : j > k => ~Covers(todo[j], x)
    <3>1. PICK k \in DOMAIN todo :
               /\ Covers(todo[k], x) /\ Put(todo[k], x) = v
               /\ \A j \in DOMAIN todo : j > k => ~Covers(todo[j], x)
      BY <2>4
    <3>2. k \in Nat /\ k >= 1 BY <1>1
    <3>3. \A j \in DOMAIN todo' : j > k => ~Covers(todo'[j], x)
      BY <1>1, <1>6, <3>1, <3>2
    <3>4. CASE k # 1 BY <1>6, <3>1, <3>3, <3>4 DEF Finally
    <3>5. CASE k = 1 /\ ~done
      <4>1. Covers(todo'[1], x) /\ Put(todo'[1], x) = v BY <1>6, <2>1, <2>2, <3>1, <3>5
      <4> QED BY <1>1, <1>6, <3>3, <3>5, <4>1 DEF Finally
    <3>6. CASE k = 1 /\ done
      <4>1. mem'[x] = v BY <1>2, <3>1, <3>6
      <4>2. ~Covers(todo'[1], x) BY <1>6, <2>1, <2>2, <3>6
      <4>3. \A j \in DOMAIN todo' : j = 1 \/ j > 1 BY <1>1, <1>6
      <4>4. \A j \in DOMAIN todo' : ~Covers(todo'[j], x) BY <3>3, <3>6, <4>2, <4>3
      <4> QED BY <4>1, <4>4 DEF Finally
    <3> QED BY <3>4, <3>5, <3>6
  <2> QED BY <2>3, <2>4 DEF Finally
<1>7. CASE /\ Len(w.data) < 4 /\ DOMAIN todo' = 1..(Len(todo) - 1)
           /\ \A k \in DOMAIN todo' : k + 1 \in DOMAIN todo /\ todo'[k] = todo[k + 1]
  <2>1. done <=> Covers(w, x)
    <3>1. Len(Piece(w)) = Len(w.data) BY <1>1, <1>5, <1>7, PieceOf
    <3> QED BY <3>1 DEF Covers
  <2> HIDE DEF done
  <2>3. CASE mem[x] = v /\ \A j \in DOMAIN todo : ~Covers(todo[j], x)
    <3>1. ~Covers(w, x) BY <1>1, <2>3
    <3>2. mem'[x] = v BY <1>2, <1>3, <2>3, <3>1
    <3>3. \A j \in DOMAIN todo' : ~Covers(todo'[j], x) BY <1>7, <2>3
    <3> QED BY <3>2, <3>3 DEF Finally
  <2>4. CASE \E k \in DOMAIN todo :
               /\ Covers(todo[k], x) /\ Put(todo[k], x) = v
               /\ \A j \in DOMAIN todo : j > k => ~Covers(todo[j], x)
    <3>1. PICK k \in DOMAIN todo :
               /\ Covers(todo[k], x) /\ Put(todo[k], x) = v
               /\ \A j \in DOMAIN todo : j > k => ~Covers(todo[j], x)
      BY <2>4
    <3>2. k \in Nat /\ k >= 1 /\ k <= Len(todo) BY <1>1
    <3>3. ASSUME NEW j \in DOMAIN todo', j + 1 > k PROVE ~Covers(todo'[j], x)
      BY <1>7, <3>1, <3>3
    <3>4. \A j \in DOMAIN todo' : j \in Nat /\ j >= 1 BY <1>1, <1>7
    <3>5. CASE k # 1
      <4>1. k - 1 \in DOMAIN todo' /\ (k - 1) + 1 = k BY <1>1, <1>7, <3>2, <3>5
      <4>2. todo'[k - 1] = todo[k] BY <1>7, <4>1
      <4>3. \A j \in DOMAIN todo' : j > k - 1 => ~Covers(todo'[j], x)
        BY <3>2, <3>3, <3>4
      <4> QED BY <3>1, <4>1, <4>2, <4>3 DEF Finally
    <3>6. CASE k = 1
      <4>1. mem'[x] = v BY <1>2, <2>1, <3>1, <3>6
      <4>2. \A j \in DOMAIN todo' : ~Covers(todo'[j], x) BY <3>3, <3>4, <3>6
      <4> QED BY <4>1, <4>2 DEF Finally
    <3> QED BY <3>5, <3>6
  <2> QED BY <2>3, <2>4 DEF Finally
<1> QED BY <1>6, <1>7, Request DEF OwnInv

(* What a call looks for lies in the zygote's memory. *)
LEMMA Found ==
  ASSUME PokeTypes, func # "restore", ppc \in {"prepare", "write", "called"}
  PROVE  /\ \A i \in DOMAIN Bytes(Stacked(func)) : Top0 + i - 1 \in Bottom..(Top - 1)
         /\ arch = "x86" =>
              \A i \in DOMAIN Bytes(<< 0 >>) : (Top0 - 4) + i - 1 \in Bottom..(Top - 1)
         /\ base = Base => \A j \in DOMAIN Text(func) :
              \/ \A i \in DOMAIN Text(func)[j].data :
                   /\ Text(func)[j].dest + i - 1 \in Bottom..(Top - 1)
                   /\ Text(func)[j].dest + i - 1 \in Base..(Base + Region - 1)
              \/ func = "init_func" /\ ParamAt + Len(token) >= Region
<1> USE Layout
<1>1. \A i \in DOMAIN Bytes(Stacked(func)) : Top0 + i - 1 \in Bottom..(Top - 1)
  <2> DEFINE n == 4 * Words(func)
  <2>1. Top0 \in Nat /\ Top0 >= Sp - StackUsed /\ n \in Nat /\ Top0 + n <= Sp
    <3>1. Top0 \in Nat /\ Sp - StackUsed <= Top0 - 4 * ReturnWords BY OnStack
    <3>2. ReturnWords \in {0, 1} BY DEF ReturnWords
    <3>4. n \in Nat BY OnStack
    <3>5. Top0 + n <= Sp BY OnStack
    <3> HIDE DEF n
    <3> QED BY <3>1, <3>2, <3>4, <3>5
  <2>2. DOMAIN Bytes(Stacked(func)) = 1..n
    <3>1. Stacked(func) \in Seq(Nat) /\ Len(Stacked(func)) = Words(func) BY ParamsOf
    <3> QED BY <3>1, BytesType
  <2> HIDE DEF n
  <2> QED BY <2>1, <2>2
<1>2. ASSUME arch = "x86", NEW i \in DOMAIN Bytes(<< 0 >>)
      PROVE  (Top0 - 4) + i - 1 \in Bottom..(Top - 1)
  <2>1. Top0 \in Nat /\ Sp - StackUsed <= Top0 - 4 * ReturnWords /\ Top0 <= Sp /\ ReturnWords = 1
    BY <1>2, OnStack
  <2>2. DOMAIN Bytes(<< 0 >>) = 1..(4 * Len(<< 0 >>)) /\ Len(<< 0 >>) = 1
    <3>1. << 0 >> \in Seq(Nat) OBVIOUS
    <3> QED BY <3>1, BytesType
  <2>3. i \in 1..4 BY <2>2
  <2> QED BY <2>1, <2>3
<1>3. ASSUME base = Base, NEW j \in DOMAIN Text(func)
      PROVE  \/ \A i \in DOMAIN Text(func)[j].data :
                  /\ Text(func)[j].dest + i - 1 \in Bottom..(Top - 1)
                  /\ Text(func)[j].dest + i - 1 \in Base..(Base + Region - 1)
             \/ func = "init_func" /\ ParamAt + Len(token) >= Region
  <2>1. CASE Text(func) = <<>> BY <1>3, <2>1
  <2>2. CASE Text(func) # <<>>
    <3>1. PICK t \in Write :
            /\ Text(func) = <<t>> /\ t.dest >= Base
            /\ \/ t.dest + Len(t.data) <= Base + Region
               \/ func = "init_func" /\ ParamAt + Len(token) >= Region
      BY <1>3, <2>2, TextOf
    <3>2. Text(func)[j] = t
      <4>1. j = 1 BY <1>3, <3>1
      <4> QED BY <3>1, <4>1
    <3>3. t.dest \in Nat /\ Len(t.data) \in Nat /\ DOMAIN t.data = 1..Len(t.data)
      BY DEF Write
    <3>4. ASSUME t.dest + Len(t.data) <= Base + Region, NEW i \in DOMAIN t.data
          PROVE  /\ t.dest + i - 1 \in Bottom..(Top - 1)
                 /\ t.dest + i - 1 \in Base..(Base + Region - 1)
      BY <3>1, <3>3, <3>4
    <3> QED BY <3>1, <3>2, <3>4
  <2> QED BY <2>1, <2>2
<1> QED BY <1>1, <1>2, <1>3

(* One write of a plan that no later one covers is what there will be.     *)
LEMMA LastWrite ==
  ASSUME NEW t, NEW k \in DOMAIN t, t[k] \in Write, NEW m,
         NEW a, NEW data, a = t[k].dest, data = t[k].data,
         \A i \in DOMAIN data, j \in DOMAIN t : j > k => ~Covers(t[j], a + i - 1)
  PROVE  \A i \in DOMAIN data : Finally(m, t, a + i - 1, data[i])
<1>1. a \in Nat /\ data \in Seq(Data) BY DEF Write
<1> SUFFICES ASSUME NEW i \in DOMAIN data PROVE Finally(m, t, a + i - 1, data[i])
  OBVIOUS
<1>2. i \in 1..Len(data) /\ Len(data) \in Nat BY <1>1
<1>3. Covers(t[k], a + i - 1) BY <1>1, <1>2 DEF Covers
<1>4. Put(t[k], a + i - 1) = data[i]
  <2>1. (a + i - 1) - a + 1 = i BY <1>1, <1>2
  <2> QED BY <2>1 DEF Put
<1> QED BY <1>3, <1>4 DEF Finally

(* What calls need depends on where bootstrap is only. *)
LEMMA Same ==
  ASSUME UNCHANGED <<func, given, base, so, entry>>
  PROVE  /\ Params(func)' = Params(func) /\ Text(func)' = Text(func)
         /\ Stacked(func)' = Stacked(func) /\ InRegs' = InRegs
         /\ RemoteAddr(func)' = RemoteAddr(func)
<1>1. Params(func)' = Params(func) /\ InRegs' = InRegs BY DEF Params, InRegs, given
<1>2. Text(func)' = Text(func) BY DEF Text, given
<1>4. Stacked(func)' = Stacked(func) BY <1>1 DEF Stacked
<1>5. RemoteAddr(func)' = RemoteAddr(func) OBVIOUS
<1> QED BY <1>1, <1>2, <1>4, <1>5

LEMMA SameTop ==
  ASSUME UNCHANGED <<func, given, regs>>, ppc' = "prepare" <=> ppc = "prepare"
  PROVE  Top0' = Top0
BY DEF Top0, Words, ReturnWords, given

(* The first line of a library is the one that lies lowest. *)
LEMMA ModuleBaseOf ==
  ASSUME NEW who \in {"self", "zygote"}, NEW f \in Functions
  PROVE  ModuleBase(who, Module(f)) = Lowest(who, f) /\ ModuleBase(who, Module(f)) \in Nat
<1> DEFINE lines == {i \in DOMAIN Maps[who] : Maps[who][i].path = Module(f)}
           starts == {Maps[who][i].start : i \in lines}
<1>1. lines \subseteq DOMAIN Maps[who] /\ lines \subseteq Nat /\ lines # {}
  BY MapsAssumption
<1>2. \A i \in lines : Maps[who][i].start \in Nat BY MapsAssumption
<1>3. \A i, j \in lines : i < j => Maps[who][i].start <= Maps[who][j].start
  BY <1>1, MapsAssumption
<1>4. ModuleBase(who, Module(f)) = Maps[who][Min(lines)].start BY <1>1 DEF ModuleBase
<1>5. Lowest(who, f) = Min(starts) BY DEF Lowest
<1> HIDE DEF lines
<1>6. Min(lines) \in lines /\ \A i \in lines : Min(lines) <= i BY <1>1, LeastIn
<1>7. starts \subseteq Nat /\ starts # {} BY <1>1, <1>2
<1>8. Min(starts) \in starts /\ \A y \in starts : Min(starts) <= y
  <2> HIDE DEF starts
  <2> QED BY <1>7, LeastIn
<1> DEFINE l == Min(lines)
           m == Maps[who][l].start
           n == Min(starts)
<1>9. l \in Nat /\ m \in Nat /\ n \in Nat /\ m \in starts BY <1>1, <1>2, <1>6, <1>7, <1>8
<1>10. n <= m BY <1>8, <1>9
<1>11. PICK i \in lines : n = Maps[who][i].start BY <1>8
<1>12. l = i \/ l < i BY <1>1, <1>6, <1>9
<1>13. m <= n BY <1>3, <1>6, <1>9, <1>11, <1>12
<1> HIDE DEF m, n
<1>14. m = n BY <1>9, <1>10, <1>13
<1> QED BY <1>4, <1>5, <1>9, <1>14 DEF m, n

LEMMA RemoteAddrOf ==
  ASSUME NEW f \in Functions
  PROVE  /\ RemoteAddr(f) = (Lowest("zygote", f) + Local[f] - Lowest("self", f)) % Modulus
         /\ RemoteAddr(f) \in Int
<1> DEFINE z == ModuleBase("zygote", Module(f))
           o == ModuleBase("self", Module(f))
<1>1. z = Lowest("zygote", f) /\ o = Lowest("self", f) /\ z \in Nat /\ o \in Nat
  BY ModuleBaseOf
<1>2. Local[f] \in Nat BY AddressAssumption
<1>3. RemoteAddr(f) = (Local[f] + z - o) % Modulus BY DEF RemoteAddr
<1> HIDE DEF z, o
<1>4. Local[f] + z - o = z + Local[f] - o BY <1>1, <1>2
<1>5. Modulus \in Nat /\ Modulus > 0 BY Layout
<1>6. (Local[f] + z - o) % Modulus \in Int BY <1>1, <1>2, <1>5
<1> QED BY <1>1, <1>3, <1>4, <1>6

LEMMA RequestCall ==
  ASSUME OwnInv, CallInv, PokeWord \/ PokeRest PROVE CallInv'
<1>1. /\ ppc = "write" /\ ppc' = "write"
      /\ UNCHANGED <<func, given, regs, base, so, entry, alive>>
  BY Request DEF OwnInv
<1>2. /\ Params(func)' = Params(func) /\ Text(func)' = Text(func)
      /\ Stacked(func)' = Stacked(func) /\ Top0' = Top0 /\ InRegs' = InRegs
      /\ RemoteAddr(func)' = RemoteAddr(func)
  BY <1>1, Same, SameTop
<1>3. arch' = arch /\ token' = token BY <1>1 DEF given
<1>4. PokeTypes /\ func # "restore" /\ ppc \in {"prepare", "write", "called"}
  BY <1>1 DEF OwnInv, PokeTypes
<1>5. ASSUME alive, NEW a, NEW data, \A i \in DOMAIN data : a + i - 1 \in Bottom..(Top - 1),
             WillHold(a, data)
      PROVE  \A i \in DOMAIN data : Finally(mem', todo', a + i - 1, data[i])
  BY <1>5, RequestKeeps DEF WillHold
<1>6. ASSUME alive
      PROVE  /\ \A i \in DOMAIN Bytes(Stacked(func)) :
                    Finally(mem', todo', Top0 + i - 1, Bytes(Stacked(func))[i])
             /\ arch = "x86" => \A i \in DOMAIN Bytes(<< 0 >>) :
                    Finally(mem', todo', (Top0 - 4) + i - 1, Bytes(<< 0 >>)[i])
             /\ base = Base => \A j \in DOMAIN Text(func) :
                  \/ \A i \in DOMAIN Text(func)[j].data :
                       Finally(mem', todo', Text(func)[j].dest + i - 1, Text(func)[j].data[i])
                  \/ func = "init_func" /\ ParamAt + Len(token) >= Region
  <2>1. \A i \in DOMAIN Bytes(Stacked(func)) :
                    Finally(mem', todo', Top0 + i - 1, Bytes(Stacked(func))[i])
    <3>1. WillHold(Top0, Bytes(Stacked(func))) BY <1>1, <1>6 DEF CallInv
    <3> QED BY <1>4, <1>5, <1>6, <3>1, Found
  <2>2. arch = "x86" => \A i \in DOMAIN Bytes(<< 0 >>) :
                    Finally(mem', todo', (Top0 - 4) + i - 1, Bytes(<< 0 >>)[i])
    <3>1. arch = "x86" => WillHold(Top0 - 4, Bytes(<< 0 >>)) BY <1>1, <1>6 DEF CallInv
    <3> QED BY <1>4, <1>5, <1>6, <3>1, Found
  <2>3. ASSUME base = Base, NEW j \in DOMAIN Text(func)
        PROVE  \/ \A i \in DOMAIN Text(func)[j].data :
                    Finally(mem', todo', Text(func)[j].dest + i - 1, Text(func)[j].data[i])
               \/ func = "init_func" /\ ParamAt + Len(token) >= Region
    <3>1. \/ WillHold(Text(func)[j].dest, Text(func)[j].data)
          \/ func = "init_func" /\ ParamAt + Len(token) >= Region
      BY <1>1, <1>6, <2>3 DEF CallInv
    <3>2. \/ \A i \in DOMAIN Text(func)[j].data :
                   Text(func)[j].dest + i - 1 \in Bottom..(Top - 1)
          \/ func = "init_func" /\ ParamAt + Len(token) >= Region
      BY <1>4, <2>3, Found
    <3> QED BY <1>5, <1>6, <3>1, <3>2
  <2> QED BY <2>1, <2>2, <2>3
<1>7. (ppc = "write" /\ alive)' => alive BY <1>1
<1>8. /\ \A i \in 1..Len(Params(func)) : i <= InRegs => regs.r[i - 1] = Params(func)[i]
      /\ (IF regs.thumb THEN regs.pc + 1 ELSE regs.pc) =
            IF func = "init_func" THEN entry ELSE RemoteAddr(func)
  BY <1>1 DEF CallInv
<1>9. /\ regs' = regs /\ func' = func /\ entry' = entry /\ base' = base /\ alive' = alive
      /\ ppc' # "called"
  BY <1>1
<1>10. (ppc = "write" /\ alive)' =>
         /\ WillHold(Top0, Bytes(Stacked(func)))'
         /\ (arch = "x86")' => WillHold(Top0 - 4, Bytes(<< 0 >>))'
         /\ (base = Base)' => (\A i \in DOMAIN Text(func) :
              \/ WillHold(Text(func)[i].dest, Text(func)[i].data)
              \/ func = "init_func" /\ ParamAt + Len(token) >= Region)'
  BY <1>2, <1>3, <1>6, <1>9 DEF WillHold
<1> QED BY <1>2, <1>8, <1>9, <1>10 DEF CallInv

LEMMA OtherCall ==
  ASSUME OwnInv, CallInv, Attach \/ Run \/ Return \/ Crash \/ Die \/ UNCHANGED pokeVars
  PROVE  CallInv'
<1>1. CASE Attach
  <2>1. ppc' \notin {"write", "called"} BY <1>1 DEF Attach
  <2> QED BY <2>1 DEF CallInv
<1>2. CASE Return \/ Crash
  <2>1. ppc' \notin {"write", "called"} BY <1>2 DEF Return, Crash, Back
  <2> QED BY <2>1 DEF CallInv
<1>3. CASE Run \/ Die \/ UNCHANGED pokeVars
  <2>1. /\ UNCHANGED <<func, given, mem, todo, regs, base, so, entry>>
        /\ \/ ppc = "write" /\ todo = <<>> /\ ppc' \in {"called", "exit"} /\ (ppc' = "called" => alive)
           \/ ppc' = ppc /\ (alive' => alive)
    BY <1>3 DEF Run, Die, pokeVars
  <2>2. /\ Params(func)' = Params(func) /\ Text(func)' = Text(func)
        /\ Stacked(func)' = Stacked(func) /\ Top0' = Top0 /\ InRegs' = InRegs
        /\ RemoteAddr(func)' = RemoteAddr(func)
    BY <2>1, Same, SameTop
  <2>3. arch' = arch /\ token' = token /\ func' = func /\ mem' = mem /\ todo' = todo
        /\ regs' = regs /\ base' = base /\ entry' = entry
    BY <2>1 DEF given
  <2>4. ((ppc = "write" /\ alive) \/ ppc = "called")' => (ppc = "write" /\ alive) \/ ppc = "called"
    BY <2>1
  <2>5. (ppc \in {"write", "called"})' => ppc \in {"write", "called"}
    BY <2>1
  <2>6. (ppc = "called")' => todo = <<>> BY <2>1 DEF CallInv
  <2>7. (ppc = "called" => todo = <<>>)' BY <2>3, <2>6
  <2>8. (ppc \in {"write", "called"} =>
          /\ \A i \in 1..Len(Params(func)) : i <= InRegs => regs.r[i - 1] = Params(func)[i]
          /\ (IF regs.thumb THEN regs.pc + 1 ELSE regs.pc) =
               IF func = "init_func" THEN entry ELSE RemoteAddr(func))'
    BY <2>2, <2>3, <2>5 DEF CallInv
  <2>9. ((ppc = "write" /\ alive) \/ ppc = "called" =>
          /\ WillHold(Top0, Bytes(Stacked(func)))
          /\ arch = "x86" => WillHold(Top0 - 4, Bytes(<< 0 >>))
          /\ base = Base => \A i \in DOMAIN Text(func) :
               \/ WillHold(Text(func)[i].dest, Text(func)[i].data)
               \/ func = "init_func" /\ ParamAt + Len(token) >= Region)'
    BY <2>2, <2>3, <2>4 DEF CallInv, WillHold
  <2> QED BY <2>7, <2>8, <2>9 DEF CallInv
<1> QED BY <1>1, <1>2, <1>3

LEMMA PrepareRegs ==
  ASSUME PokeTypes, Prepare
  PROVE  /\ \A i \in 1..Len(Params(func)) : i <= InRegs => regs'.r[i - 1] = Params(func)[i]
         /\ (IF regs'.thumb THEN regs'.pc + 1 ELSE regs'.pc) =
               IF func = "init_func" THEN entry ELSE RemoteAddr(func)
<1> DEFINE params == Params(func)
           addr == IF func = "init_func" THEN entry ELSE RemoteAddr(func)
           odd == arch = "arm" /\ addr % 2 = 1
<1>1. /\ regs'.r = [i \in 0..3 |->
                       IF i < Len(params) /\ i < InRegs THEN params[i + 1]
                       ELSE IF i = 0 THEN 0 ELSE regs.r[i]]
      /\ regs'.pc = (IF odd THEN addr - 1 ELSE addr) /\ regs'.thumb = odd
  BY DEF Prepare
<1>2. func # "restore" BY DEF Prepare, PokeTypes
<1>3. addr \in Int
  <2>1. CASE func = "init_func"
    <3>1. entry \in Nat BY DEF PokeTypes
    <3> QED BY <2>1, <3>1
  <2>2. CASE func # "init_func"
    <3>1. func \in Functions BY <1>2, <2>2 DEF PokeTypes
    <3> QED BY <2>2, <3>1, RemoteAddrOf
  <2> QED BY <2>1, <2>2
<1>4. (IF regs'.thumb THEN regs'.pc + 1 ELSE regs'.pc) = addr
  <2> HIDE DEF addr
  <2>1. CASE odd
    <3>1. regs'.thumb /\ regs'.pc = addr - 1 BY <1>1, <2>1
    <3>2. (addr - 1) + 1 = addr BY <1>3
    <3> QED BY <3>1, <3>2
  <2>2. CASE ~odd
    <3>1. ~regs'.thumb /\ regs'.pc = addr BY <1>1, <2>2
    <3> QED BY <3>1
  <2> QED BY <2>1, <2>2
<1>5. ASSUME NEW i \in 1..Len(params), i <= InRegs PROVE regs'.r[i - 1] = params[i]
  <2> DEFINE n == Len(params)
  <2>1. n \in Nat
    <3>1. params \in Seq(Nat) BY <1>2, ParamsOf
    <3> HIDE DEF params
    <3> QED BY <3>1
  <2>2. InRegs \in {0, 4} BY DEF InRegs
  <2> HIDE DEF n
  <2>3. i \in 1..n BY <1>5 DEF n
  <2>4. i - 1 \in 0..3 /\ i - 1 < n /\ i - 1 < InRegs /\ (i - 1) + 1 = i
    BY <1>5, <2>1, <2>2, <2>3
  <2>5. regs'.r[i - 1] = IF i - 1 < n /\ i - 1 < InRegs THEN params[(i - 1) + 1]
                         ELSE IF i - 1 = 0 THEN 0 ELSE regs.r[i - 1]
    BY <1>1, <2>4 DEF n
  <2> QED BY <2>4, <2>5
<1> QED BY <1>4, <1>5

LEMMA PrepareCall == ASSUME OwnInv, Prepare PROVE CallInv'
<1>1. /\ PokeTypes /\ ppc = "prepare" /\ ppc' = "write" /\ func # "restore"
      /\ UNCHANGED <<func, given, mem, base, so, entry, alive>>
  <2>1. PokeTypes BY DEF OwnInv
  <2> QED BY <2>1, Planned
<1>2. /\ Params(func)' = Params(func) /\ Text(func)' = Text(func)
      /\ Stacked(func)' = Stacked(func) /\ Top0' = Top0 /\ InRegs' = InRegs
      /\ RemoteAddr(func)' = RemoteAddr(func)
  <2>1. regs'.sp = Top0 - 4 * ReturnWords /\ Top0 \in Nat /\ ReturnWords \in {0, 1}
    BY <1>1, Planned, OnStack DEF ReturnWords
  <2>2. Top0' = regs'.sp + 4 * ReturnWords BY <1>1 DEF Top0, ReturnWords, given
  <2>3. Top0' = Top0
    <3> DEFINE s == regs'.sp
    <3>1. s = Top0 - 4 * ReturnWords /\ Top0' = s + 4 * ReturnWords BY <2>1, <2>2
    <3> HIDE DEF s
    <3> QED BY <2>1, <3>1
  <2> QED BY <1>1, <2>3, Same
<1>3. arch' = arch /\ token' = token /\ arch \in {"arm", "x86"} BY <1>1 DEF given, PokeTypes
<1>4. /\ Parameters \in Write /\ (arch = "x86" => ReturnAddress \in Write)
      /\ Parameters.dest = Top0 /\ Parameters.data = Bytes(Stacked(func))
      /\ ReturnAddress.dest = Top0 - 4 /\ ReturnAddress.data = Bytes(<< 0 >>)
  BY <1>1, OnStack DEF Parameters, ReturnAddress
<1>5. ASSUME arch = "x86", NEW i \in DOMAIN Parameters.data
      PROVE  ~Covers(ReturnAddress, Parameters.dest + i - 1)
  <2>1. Top0 \in Nat /\ Len(ReturnAddress.data) = 4 BY <1>1, OnStack
  <2>2. i \in Nat /\ i >= 1
    <3>1. Parameters.data \in Seq(Data) BY <1>4 DEF Write
    <3> QED BY <1>5, <3>1
  <2>3. \A y : Covers(ReturnAddress, y) => y \in (Top0 - 4)..(Top0 - 4 + 4 - 1)
    BY <1>4, <2>1 DEF Covers
  <2>4. Top0 + i - 1 \notin (Top0 - 4)..(Top0 - 4 + 4 - 1) BY <2>1, <2>2
  <2> QED BY <1>4, <2>3, <2>4
<1>6. ASSUME NEW x \in Base..(Base + Region - 1)
      PROVE  ~Covers(Parameters, x) /\ (arch = "x86" => ~Covers(ReturnAddress, x))
  <2>1. /\ Top0 \in Nat /\ Sp - StackUsed <= Top0 - 4 * ReturnWords /\ Top0 <= Sp
        /\ ReturnWords = (IF arch = "arm" THEN 0 ELSE 1)
        /\ Len(Parameters.data) = 4 * Words(func) /\ Len(ReturnAddress.data) = 4
    BY <1>1, OnStack
  <2>3. Top0 + 4 * Words(func) <= Sp /\ 4 * Words(func) \in Nat
    BY <1>1, OnStack
  <2>4. x \in Nat /\ (x >= Sp \/ x < Sp - StackUsed) BY Layout
  <2>5. ~Covers(Parameters, x)
    <3> DEFINE n == 4 * Words(func)
    <3>1. n \in Nat /\ Top0 + n <= Sp /\ Len(Parameters.data) = n BY <2>1, <2>3
    <3>2. Sp - StackUsed <= Top0 BY <2>1, Layout
    <3> HIDE DEF n
    <3> QED BY <1>4, <2>1, <2>4, <3>1, <3>2, Layout DEF Covers
  <2>6. arch = "x86" => ~Covers(ReturnAddress, x)
    <3>1. \A y : Covers(ReturnAddress, y) => y \in (Top0 - 4)..(Top0 - 4 + 4 - 1)
      BY <1>4, <2>1 DEF Covers
    <3>2. arch = "x86" => Sp - StackUsed <= Top0 - 4 BY <2>1
    <3>3. arch = "x86" => x \notin (Top0 - 4)..(Top0 - 4 + 4 - 1) BY <2>1, <2>4, <3>2, Layout
    <3> QED BY <3>1, <3>3
  <2> QED BY <2>5, <2>6
<1> DEFINE P == Parameters
           R == ReturnAddress
           InMapping(w) == \A i \in DOMAIN w.data : w.dest + i - 1 \in Base..(Base + Region - 1)
           Made(w) == \A i \in DOMAIN w.data : Finally(mem', todo', w.dest + i - 1, w.data[i])
<1>7. /\ Made(P) /\ (arch = "x86" => Made(R))
      /\ \A t \in Write : Text(func) = <<t>> /\ InMapping(t) => Made(t)
  <2>0. ASSUME NEW t, NEW w, <<t>> = <<w>> PROVE t = w
    <3>1. <<t>>[1] = <<w>>[1] BY <2>0
    <3> QED BY <3>1
  <2> HIDE DEF P, R
  <2>1. CASE Text(func) = <<>> /\ arch = "arm" /\ todo' = <<P>>
    <3>1. 1 \in DOMAIN todo' /\ todo'[1] = P /\ \A j \in DOMAIN todo' : ~(j > 1) BY <2>1
    <3>2. Made(P) BY <1>4, <3>1, LastWrite DEF P
    <3> QED BY <2>1, <3>2
  <2>2. CASE Text(func) = <<>> /\ arch = "x86" /\ todo' = <<P, R>>
    <3>1. /\ 1 \in DOMAIN todo' /\ todo'[1] = P /\ 2 \in DOMAIN todo' /\ todo'[2] = R
          /\ \A j \in DOMAIN todo' : ~(j > 2) /\ (j > 1 => j = 2)
      BY <2>2
    <3>2. \A i \in DOMAIN P.data, j \in DOMAIN todo' : j > 1 => ~Covers(todo'[j], P.dest + i - 1)
      BY <1>5, <2>2, <3>1 DEF P, R
    <3>3. Made(P) BY <1>4, <3>1, <3>2, LastWrite DEF P
    <3>4. Made(R) BY <1>4, <2>2, <3>1, LastWrite DEF R
    <3> QED BY <2>2, <3>3, <3>4
  <2>3. CASE \E t : Text(func) = <<t>> /\ arch = "arm" /\ todo' = <<t, P>>
    <3>1. PICK t : Text(func) = <<t>> /\ arch = "arm" /\ todo' = <<t, P>> BY <2>3
    <3>2. /\ 1 \in DOMAIN todo' /\ todo'[1] = t /\ 2 \in DOMAIN todo' /\ todo'[2] = P
          /\ \A j \in DOMAIN todo' : ~(j > 2) /\ (j > 1 => j = 2)
      BY <3>1
    <3>3. Made(P) BY <1>4, <3>2, LastWrite DEF P
    <3>4. ASSUME t \in Write, InMapping(t) PROVE Made(t)
      <4>1. \A i \in DOMAIN t.data, j \in DOMAIN todo' : j > 1 => ~Covers(todo'[j], t.dest + i - 1)
        BY <1>6, <3>2, <3>4 DEF P
      <4> QED BY <3>2, <3>4, <4>1, LastWrite
    <3> QED BY <2>0, <3>1, <3>3, <3>4
  <2>4. CASE \E t : Text(func) = <<t>> /\ arch = "x86" /\ todo' = <<t, P, R>>
    <3>1. PICK t : Text(func) = <<t>> /\ arch = "x86" /\ todo' = <<t, P, R>> BY <2>4
    <3>2. /\ 1 \in DOMAIN todo' /\ todo'[1] = t /\ 2 \in DOMAIN todo' /\ todo'[2] = P
          /\ 3 \in DOMAIN todo' /\ todo'[3] = R
          /\ \A j \in DOMAIN todo' : ~(j > 3) /\ (j > 2 => j = 3) /\ (j > 1 => j \in {2, 3})
      BY <3>1
    <3>3. \A i \in DOMAIN P.data, j \in DOMAIN todo' : j > 2 => ~Covers(todo'[j], P.dest + i - 1)
      BY <1>5, <3>1, <3>2 DEF P, R
    <3>4. Made(P) BY <1>4, <3>2, <3>3, LastWrite DEF P
    <3>5. Made(R) BY <1>4, <3>1, <3>2, LastWrite DEF R
    <3>6. ASSUME t \in Write, InMapping(t) PROVE Made(t)
      <4>1. \A i \in DOMAIN t.data, j \in DOMAIN todo' : j > 1 => ~Covers(todo'[j], t.dest + i - 1)
        BY <1>6, <3>1, <3>2, <3>6 DEF P, R
      <4> QED BY <3>2, <3>6, <4>1, LastWrite
    <3> QED BY <2>0, <3>1, <3>4, <3>5, <3>6
  <2> HIDE DEF Made
  <2> QED BY <1>1, <2>1, <2>2, <2>3, <2>4, Planned DEF P, R
<1>8. base = Base => \A j \in DOMAIN Text(func) :
        Made(Text(func)[j]) \/ (func = "init_func" /\ ParamAt + Len(token) >= Region)
  <2> SUFFICES ASSUME base = Base, NEW j \in DOMAIN Text(func)
               PROVE  Made(Text(func)[j]) \/ (func = "init_func" /\ ParamAt + Len(token) >= Region)
    OBVIOUS
  <2>1. PICK t \in Write : Text(func) = <<t>> BY <1>1, TextOf
  <2>2. Text(func)[j] = t
    <3>1. j = 1 BY <2>1
    <3> QED BY <2>1, <3>1
  <2>3. InMapping(t) \/ (func = "init_func" /\ ParamAt + Len(token) >= Region)
    BY <1>1, <2>2, Found
  <2> HIDE DEF Made, InMapping
  <2> QED BY <1>7, <2>1, <2>2, <2>3
<1>9. ppc' # "called" /\ func' = func /\ entry' = entry /\ base' = base BY <1>1
<1>10. (/\ \A i \in 1..Len(Params(func)) : i <= InRegs => regs.r[i - 1] = Params(func)[i]
        /\ (IF regs.thumb THEN regs.pc + 1 ELSE regs.pc) =
              IF func = "init_func" THEN entry ELSE RemoteAddr(func))'
  BY <1>1, <1>2, <1>9, PrepareRegs
<1>11. /\ WillHold(Top0, Bytes(Stacked(func)))'
       /\ (arch = "x86")' => WillHold(Top0 - 4, Bytes(<< 0 >>))'
  BY <1>2, <1>3, <1>4, <1>7 DEF WillHold
<1>12. (base = Base => \A i \in DOMAIN Text(func) :
              \/ WillHold(Text(func)[i].dest, Text(func)[i].data)
              \/ func = "init_func" /\ ParamAt + Len(token) >= Region)'
  BY <1>2, <1>3, <1>8, <1>9 DEF WillHold
<1> QED BY <1>9, <1>10, <1>11, <1>12 DEF CallInv

LEMMA CallAlways == Spec => [](OwnInv /\ CallInv)
<1>1. Init => OwnInv /\ CallInv
  <2>1. Init => ppc = "start" BY DEF Init, PokeInit
  <2>2. ppc = "start" => CallInv BY DEF CallInv
  <2> QED BY <2>1, <2>2, OwnStart DEF Init
<1>2. OwnInv /\ CallInv /\ [Next]_<<findVars, pokeVars>> => (OwnInv /\ CallInv)'
  <2> SUFFICES ASSUME OwnInv, CallInv, [Next]_<<findVars, pokeVars>> PROVE OwnInv' /\ CallInv'
    OBVIOUS
  <2>1. PokeNext \/ UNCHANGED pokeVars BY DEF Next
  <2>2. OwnInv' BY <2>1, RequestOwn, PrepareOwn, BackOwn, OtherOwn DEF PokeNext
  <2>3. CallInv' BY <2>1, RequestCall, PrepareCall, OtherCall DEF PokeNext
  <2> QED BY <2>2, <2>3
<1> QED BY <1>1, <1>2, PTL DEF Spec

(***************************************************************************)
(* For any lay-out of memory, library, function and token that Poke        *)
(* assumes, on ARM and x86, whichever calls fail, wherever the libraries   *)
(* lie in bootstrap and in the zygote: what ptrace_call (bootstrap.c)      *)
(* calls finds its parameters in registers and on the stack, x86's return  *)
(* address, its string whole in the mapping, if there is one it fits in,   *)
(* and is the function meant.                                              *)
(***************************************************************************)
THEOREM CalledAsMeantAlways == Spec => []CalledAsMeant
<1>1. ASSUME OwnInv, CallInv, ppc = "called" PROVE CalledAsMeant
  <2>1. /\ PokeTypes /\ todo = <<>> /\ DOMAIN mem = Bottom..(Top - 1) /\ func # "restore"
        /\ arch \in {"arm", "x86"}
    BY <1>1 DEF OwnInv, CallInv, PokeTypes, Places
  <2>2. /\ \A i \in 1..Len(Params(func)) : i <= InRegs => regs.r[i - 1] = Params(func)[i]
        /\ (IF regs.thumb THEN regs.pc + 1 ELSE regs.pc) =
              IF func = "init_func" THEN entry ELSE RemoteAddr(func)
    BY <1>1 DEF CallInv
  <2>3. ASSUME NEW a, NEW data, WillHold(a, data),
               \A i \in DOMAIN data : a + i - 1 \in Bottom..(Top - 1)
        PROVE  Holds(a, data)
    BY <2>1, <2>3 DEF WillHold, Finally, Holds
  <2>4. Holds(Top0, Bytes(Stacked(func))) /\ (arch = "x86" => Holds(Top0 - 4, Bytes(<< 0 >>)))
    <3>1. WillHold(Top0, Bytes(Stacked(func))) /\ (arch = "x86" => WillHold(Top0 - 4, Bytes(<< 0 >>)))
      BY <1>1 DEF CallInv
    <3> QED BY <1>1, <2>1, <2>3, <3>1, Found
  <2>5. base = Base => \A i \in DOMAIN Text(func) :
         \/ Holds(Text(func)[i].dest, Text(func)[i].data)
         \/ func = "init_func" /\ ParamAt + Len(token) >= Region
    <3> SUFFICES ASSUME base = Base, NEW i \in DOMAIN Text(func)
                 PROVE  \/ Holds(Text(func)[i].dest, Text(func)[i].data)
                        \/ func = "init_func" /\ ParamAt + Len(token) >= Region
      OBVIOUS
    <3>1. \/ WillHold(Text(func)[i].dest, Text(func)[i].data)
          \/ func = "init_func" /\ ParamAt + Len(token) >= Region
      BY <1>1 DEF CallInv
    <3>2. \/ \A j \in DOMAIN Text(func)[i].data :
                   Text(func)[i].dest + j - 1 \in Bottom..(Top - 1)
          \/ func = "init_func" /\ ParamAt + Len(token) >= Region
      BY <1>1, <2>1, Found
    <3> QED BY <2>3, <3>1, <3>2
  <2>6. Stacked(func) \in Seq(Nat) /\ Top0 \in Nat BY <1>1, <2>1, ParamsOf, OnStack
  <2>7. regs.sp = Top0 - 4 * ReturnWords
    <3> DEFINE s == regs.sp
    <3>1. s \in Int
      <4>1. PICK m \in 0..Fallen(func) : s = Sp - 4 * (Depth + m) BY <1>1, <2>1 DEF PokeTypes
      <4>2. Depth \in Nat /\ Fallen(func) \in Nat
        BY <2>1, Layout DEF Depth, Before, Words, ReturnWords, Fallen
      <4> HIDE DEF s
      <4> QED BY <4>1, <4>2, Layout
    <3>2. Top0 = s + 4 * ReturnWords BY <1>1 DEF Top0
    <3>3. ReturnWords \in {0, 1} BY DEF ReturnWords
    <3> HIDE DEF s
    <3>4. s = Top0 - 4 * ReturnWords BY <3>1, <3>2, <3>3
    <3> QED BY <3>4 DEF s
  <2>8. Holds(regs.sp, Bytes((IF arch = "arm" THEN <<>> ELSE << 0 >>) \o Stacked(func)))
    <3>1. CASE arch = "arm"
      <4>1. <<>> \o Stacked(func) = Stacked(func) BY <2>6, ConcatEmptySeq
      <4>2. regs.sp = Top0 BY <2>6, <2>7, <3>1 DEF ReturnWords
      <4> QED BY <2>4, <3>1, <4>1, <4>2
    <3>2. CASE arch = "x86"
      <4> DEFINE s == Stacked(func)
                 all == Bytes(<< 0 >> \o s)
      <4>1. /\ DOMAIN all = 1..(4 + 4 * Len(s))
            /\ \A i \in 1..4 : all[i] = Bytes(<< 0 >>)[i]
            /\ \A i \in 1..(4 * Len(s)) : all[4 + i] = Bytes(s)[i]
        BY <2>6, BytesAbove
      <4>2. DOMAIN Bytes(s) = 1..(4 * Len(s)) BY <2>6, BytesType
      <4>3. DOMAIN Bytes(<< 0 >>) = 1..4
        <5>1. << 0 >> \in Seq(Nat) /\ Len(<< 0 >>) = 1 OBVIOUS
        <5>2. DOMAIN Bytes(<< 0 >>) = 1..(4 * Len(<< 0 >>)) BY <5>1, BytesType
        <5> QED BY <5>1, <5>2
      <4>4. regs.sp = Top0 - 4 BY <2>6, <2>7, <3>2 DEF ReturnWords
      <4>5. Len(s) \in Nat BY <2>6
      <4> DEFINE n == 4 * Len(s)
      <4>6. n \in Nat BY <4>5
      <4>7. /\ DOMAIN all = 1..(4 + n) /\ DOMAIN Bytes(s) = 1..n
            /\ \A i \in 1..4 : all[i] = Bytes(<< 0 >>)[i]
            /\ \A i \in 1..n : all[4 + i] = Bytes(s)[i]
        BY <4>1, <4>2
      <4>8. Holds(Top0, Bytes(s)) /\ Holds(Top0 - 4, Bytes(<< 0 >>)) BY <2>4, <3>2
      <4> HIDE DEF all, s, n
      <4>9. ASSUME NEW i \in 1..(4 + n)
            PROVE  (Top0 - 4) + i - 1 \in DOMAIN mem /\ mem[(Top0 - 4) + i - 1] = all[i]
        <5>1. CASE i \in 1..4 BY <4>3, <4>7, <4>8, <5>1 DEF Holds
        <5>2. CASE i \notin 1..4
          <6>1. i - 4 \in 1..n /\ 4 + (i - 4) = i /\ Top0 + (i - 4) - 1 = (Top0 - 4) + i - 1
            BY <2>6, <4>6, <4>9, <5>2
          <6>2. all[i] = Bytes(s)[i - 4] BY <4>7, <6>1
          <6> QED BY <4>7, <4>8, <6>1, <6>2 DEF Holds
        <5> QED BY <5>1, <5>2
      <4>10. Holds(regs.sp, all) BY <4>4, <4>7, <4>9 DEF Holds
      <4>11. arch # "arm" BY <3>2
      <4> QED BY <4>10, <4>11 DEF all, s
    <3> QED BY <2>1, <3>1, <3>2
  <2>9. func # "init_func" =>
          RemoteAddr(func) = (Lowest("zygote", func) + Local[func] - Lowest("self", func)) % Modulus
    <3>1. func # "init_func" => func \in Functions BY <2>1 DEF PokeTypes
    <3> QED BY <3>1, RemoteAddrOf
  <2>10. (IF regs.thumb THEN regs.pc + 1 ELSE regs.pc) =
           IF func = "init_func" THEN entry
           ELSE (Lowest("zygote", func) + Local[func] - Lowest("self", func)) % Modulus
    BY <2>2, <2>9
  <2> QED BY <2>2, <2>5, <2>8, <2>10 DEF CalledAsMeant, Stacked
<1>2. OwnInv /\ CallInv => CalledAsMeant
  <2>1. ppc # "called" => CalledAsMeant BY DEF CalledAsMeant
  <2> QED BY <1>1, <2>1
<1> QED BY <1>2, CallAlways, PTL

=============================================================================
