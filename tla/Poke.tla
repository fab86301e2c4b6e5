------------------------------- MODULE Poke --------------------------------
(***************************************************************************)
(* bootstrap.c, what inject_remote_process writes into the zygote: strings *)
(* into the memory the zygote was made to map, word by word, and the       *)
(* parameters and the address of each call, on ARM and on x86.  When and   *)
(* how calls stop and what becomes of the registers is in Bootstrap.       *)
(*                                                                         *)
(* A byte of memory is a pair: a byte of a string, one of a parameter, or  *)
(* what was there before.                                                  *)
(***************************************************************************)
EXTENDS FindPid, SequencesExt

CONSTANTS
  Bottom,    \* the zygote's addresses are Bottom..(Top - 1), words from
  Top,       \* multiples of 4
  Sp,        \* its stack pointer when it is stopped
  Base,      \* where mmap maps
  Region,    \* 0x4000: how much
  NameAt,    \* FUNCTION_NAME_ADDR_OFFSET
  ParamAt,   \* FUNCTION_PARAM_ADDR_OFFSET
  Path,      \* library_path, a sequence of characters
  FuncName,  \* function_name
  Tokens,    \* what param can be
  Maps,      \* the lines of /proc/self/maps and of the zygote's maps
  Local,     \* the addresses of the functions in bootstrap itself
  InitFunc,  \* the address of init_func in the zygote
  Frame,     \* bound: words on the stack of a function that crashes
  Junk,      \* what can be in the result's register then
  Modulus    \* 2^32

Functions == {"mmap", "__errno", "dlopen", "dlerror", "dlsym"}
Module(f) == IF f \in {"mmap", "__errno"} THEN "libc.so" ELSE "linker"

(* How far down the calls go on the stack: on x86 the six parameters of    *)
(* mmap, two of dlopen and of dlsym, one of init_func, a return address;   *)
(* and twice what a crash, in dlopen and in dlsym, leaves there, with a    *)
(* return address that nothing has popped.                                 *)
StackUsed == 4 * (12 + 2 * (Frame + 1))

(* Addresses and places are aligned; what is mapped is neither the stack   *)
(* nor at the addresses just above 0, where strings go if mmap fails; the  *)
(* strings have room before one another.                                   *)
ASSUME PlacesAssumption ==
  /\ {Bottom, Top, Sp, Base, Region, NameAt, ParamAt, Modulus, Frame} \subseteq Nat
  /\ \A a \in {Bottom, Top, Sp, Base, NameAt, ParamAt} : a % 4 = 0
  /\ Bottom + StackUsed <= Sp /\ Sp <= Top /\ Top < Modulus
  /\ Bottom <= Base /\ Base + Region <= Top
  /\ Sp <= Base \/ Base + Region <= Sp - StackUsed
  /\ ParamAt <= Region /\ ParamAt <= Bottom
  /\ Path \in Seq(Nat) /\ Len(Path) < NameAt
  /\ FuncName \in Seq(Nat) /\ NameAt + Len(FuncName) < ParamAt
  /\ Tokens \subseteq Seq(Nat) /\ \A t \in Tokens : ParamAt + Len(t) <= Bottom

(* maps lists what is mapped by address, the libraries of both processes   *)
(* among it.                                                               *)
ASSUME MapsAssumption ==
  \A who \in {"self", "zygote"} :
    /\ DOMAIN Maps[who] \subseteq Nat
    /\ \A i, j \in DOMAIN Maps[who] :
         Maps[who][i].start \in Nat /\ (i < j => Maps[who][i].start <= Maps[who][j].start)
    /\ \A f \in Functions : \E i \in DOMAIN Maps[who] : Maps[who][i].path = Module(f)

ASSUME AddressAssumption ==
  InitFunc \in Nat /\ Junk \subseteq Nat /\ \A f \in Functions : Local[f] \in Nat

VARIABLES
  arch,   \* what bootstrap was built for: "arm" or "x86"
  ppc,    \* where inject_remote_process is
  func,   \* the function to call
  token,  \* param
  mem,    \* the zygote's memory
  todo,   \* the writes still to be made before the call
  regs,   \* regs, as far as calls use it
  base,   \* map_base
  so,     \* sohandle
  entry,  \* hook_init_addr
  alive   \* the zygote has not died

given == <<arch, token>>
pokeVars == <<ppc, func, given, mem, todo, regs, base, so, entry, alive>>

InRegs == IF arch = "arm" THEN 4 ELSE 0

(* A string with its NUL; words as bytes. *)
Chars(s) == [i \in 1..(Len(s) + 1) |-> <<"char", IF i <= Len(s) THEN s[i] ELSE 0>>]
Bytes(ws) == [i \in 1..(4 * Len(ws)) |-> <<"byte", 4 * ws[((i - 1) \div 4) + 1] + ((i - 1) % 4)>>]

PokeInit ==
  /\ arch \in {"arm", "x86"} /\ token \in Tokens
  /\ ppc = "start" /\ func = "mmap"
  /\ mem = [a \in Bottom..(Top - 1) |-> <<"old", a>>] /\ todo = <<>>
  /\ regs = [r |-> [i \in 0..3 |-> 0], sp |-> Sp, pc |-> 0, thumb |-> FALSE]
  /\ base = 0 /\ so = 0 /\ entry = 0 /\ alive = TRUE

-----------------------------------------------------------------------------
(* get_module_range: the first line that has the name, 0 for none. *)
ModuleBase(who, module) ==
  LET lines == {i \in DOMAIN Maps[who] : Maps[who][i].path = module} IN
  IF lines = {} THEN 0 ELSE Maps[who][Min(lines)].start

(* get_remote_addr, in uint32_t *)
RemoteAddr(f) ==
  (Local[f] + ModuleBase("zygote", Module(f)) - ModuleBase("self", Module(f))) % Modulus

Params(f) ==
  CASE f = "mmap" -> <<0, Region, 3, 34, 0, 0>>
    [] f = "dlopen" -> <<base, 257>>
    [] f = "dlsym" -> <<so, (base + NameAt) % Modulus>>
    [] f = "init_func" -> <<(base + ParamAt) % Modulus>>
    [] OTHER -> <<>>

(* The string put into the mapping before the call. *)
Text(f) ==
  CASE f = "dlopen" -> <<[dest |-> base, data |-> Chars(Path)]>>
    [] f = "dlsym" -> <<[dest |-> (base + NameAt) % Modulus, data |-> Chars(FuncName)]>>
    [] f = "init_func" -> <<[dest |-> (base + ParamAt) % Modulus, data |-> Chars(token)]>>
    [] OTHER -> <<>>

(* Mutant of Below: the stack taken to grow upwards. *)
BelowUp(sp, words) == sp

Below(sp, words) == sp - 4 * words

(* ptrace_attach fails for -1, and so does everything for no zygote. *)
Attach ==
  /\ ppc = "start" /\ fpc = "done"
  /\ ppc' = IF pid = -1 THEN "exit" ELSE "prepare"
  /\ UNCHANGED <<func, given, mem, todo, regs, base, so, entry, alive>>

(* ptrace_call up to ptrace_setregs: x86 also wants the return address, 0. *)
Prepare ==
  LET params == Params(func)
      stacked == SubSeq(params, InRegs + 1, Len(params))
      top == Below(regs.sp, Len(stacked))
      addr == IF func = "init_func" THEN entry ELSE RemoteAddr(func)
      odd == arch = "arm" /\ addr % 2 = 1
  IN /\ ppc = "prepare" /\ ppc' = "write"
     /\ todo' = Text(func) \o <<[dest |-> top, data |-> Bytes(stacked)]>>
                \o (IF arch = "arm" THEN <<>> ELSE <<[dest |-> top - 4, data |-> Bytes(<<0>>)]>>)
     /\ regs' = [r  |-> [i \in 0..3 |->
                           IF i < Len(params) /\ i < InRegs THEN params[i + 1]
                           ELSE IF i = 0 THEN 0 ELSE regs.r[i]],
                 sp |-> IF arch = "arm" THEN top ELSE top - 4,
                 pc |-> IF odd THEN addr - 1 ELSE addr, thumb |-> odd]
     /\ UNCHANGED <<func, given, mem, base, so, entry, alive>>

(* ptrace_writedata.  A request for an address that is not mapped, or for  *)
(* a zygote that is gone, fails, and nobody looks.                         *)
Stored(dest, data) ==
  IF alive /\ dest \in Bottom..(Top - 4)
    THEN [a \in DOMAIN mem |-> IF a \in dest..(dest + Len(data) - 1) THEN data[a - dest + 1] ELSE mem[a]]
    ELSE mem

Writing == ppc = "write" /\ todo # <<>>

PokeWord ==
  /\ Writing /\ Len(todo[1].data) >= 4
  /\ mem' = Stored(todo[1].dest, SubSeq(todo[1].data, 1, 4))
  /\ todo' = [todo EXCEPT ![1] = [dest |-> @.dest + 4, data |-> SubSeq(@.data, 5, Len(@.data))]]
  /\ UNCHANGED <<ppc, func, given, regs, base, so, entry, alive>>

(* Mutant of PokeRest: what makes no whole word is left out. *)
PokeRestDrops ==
  /\ Writing /\ Len(todo[1].data) < 4
  /\ todo' = Tail(todo)
  /\ UNCHANGED <<ppc, func, given, mem, regs, base, so, entry, alive>>

(* The last word, if there is a part of one: read, changed, written back.  *)
PokeRest ==
  /\ Writing /\ Len(todo[1].data) < 4
  /\ mem' = Stored(todo[1].dest, todo[1].data)
  /\ todo' = Tail(todo)
  /\ UNCHANGED <<ppc, func, given, regs, base, so, entry, alive>>

(* ptrace_setregs and ptrace_continue. *)
Run ==
  /\ ppc = "write" /\ todo = <<>>
  /\ ppc' = IF alive THEN "called" ELSE "exit"
  /\ UNCHANGED <<func, given, mem, todo, regs, base, so, entry, alive>>

(* What inject_remote_process does with the result; ptrace_getregs has     *)
(* given it the stack pointer sp as well.                                  *)
After(f, v) ==
  CASE f = "mmap" -> IF v = Modulus - 1 THEN "__errno" ELSE "dlopen"
    [] f = "__errno" -> "dlopen"
    [] f = "dlopen" -> IF v = 0 THEN "dlerror" ELSE "dlsym"
    [] f = "dlerror" -> "dlsym"
    [] f = "dlsym" -> "init_func"
    [] f = "init_func" -> "restore"

Back(v, sp) ==
  /\ ppc = "called" /\ alive
  /\ func' = After(func, v) /\ ppc' = IF func = "init_func" THEN "exit" ELSE "prepare"
  /\ regs' = [regs EXCEPT !.sp = sp]
  /\ base' = IF func = "mmap" THEN v ELSE base
  /\ so' = IF func = "dlopen" THEN v ELSE so
  /\ entry' = IF func = "dlsym" THEN v ELSE entry
  /\ UNCHANGED <<given, mem, todo, alive>>

(* What the function can return, given what it was passed. *)
Results ==
  CASE func = "mmap" -> {Base, Modulus - 1}
    [] func = "dlopen" -> IF base = Base THEN {0, 1} ELSE {}
    [] func = "dlsym" -> IF so = 1 THEN {0, InitFunc} ELSE {0}
    [] func = "init_func" -> IF entry = InitFunc THEN {0} ELSE {}
    [] OTHER -> {0}

(* The parameters stay on the stack, the x86 return address is popped. *)
Return == \E v \in Results : Back(v, IF arch = "arm" THEN regs.sp ELSE regs.sp + 4)

(* A fault in the middle of a call is taken for its return: the stack      *)
(* pointer is where the function had it.                                   *)
MayCrash == func = "dlopen" \/ (func = "dlsym" /\ so \notin {0, 1}) \/ func = "init_func"

Crash == MayCrash /\ \E v \in Junk, n \in 0..Frame : Back(v, regs.sp - 4 * n)

Die ==
  /\ ppc \in {"prepare", "write", "called"} /\ alive /\ alive' = FALSE
  /\ UNCHANGED <<ppc, func, given, mem, todo, regs, base, so, entry>>

PokeNext == Attach \/ Prepare \/ PokeWord \/ PokeRest \/ Run \/ Return \/ Crash \/ Die

Init == FindInit /\ PokeInit

Next ==
  \/ FindNext /\ UNCHANGED pokeVars
  \/ PokeNext /\ UNCHANGED findVars

Spec == Init /\ [][Next]_<<findVars, pokeVars>>

-----------------------------------------------------------------------------
(* Correctness *)

(* The bytes at address a. *)
Holds(a, data) == \A i \in DOMAIN data : a + i - 1 \in DOMAIN mem /\ mem[a + i - 1] = data[i]

(* Where the library of f lies. *)
Lowest(who, f) ==
  Min({Maps[who][i].start : i \in {j \in DOMAIN Maps[who] : Maps[who][j].path = Module(f)}})

(* What the called function finds: its first parameters in registers, the  *)
(* rest above the stack pointer (above the return address on x86), the     *)
(* string its pointer leads to whole and ended, and itself where the       *)
(* zygote, not bootstrap, has it.  A mapping that failed holds no string.  *)
CalledAsMeant ==
  ppc = "called" =>
    LET params == Params(func) IN
    /\ \A i \in 1..Len(params) : i <= InRegs => regs.r[i - 1] = params[i]
    /\ Holds(regs.sp, Bytes((IF arch = "arm" THEN <<>> ELSE <<0>>)
                            \o SubSeq(params, InRegs + 1, Len(params))))
    /\ base = Base => \A i \in DOMAIN Text(func) :
         \/ Holds(Text(func)[i].dest, Text(func)[i].data)
         \/ func = "init_func" /\ ParamAt + Len(token) >= Region
    /\ (IF regs.thumb THEN regs.pc + 1 ELSE regs.pc) =
         IF func = "init_func" THEN entry
         ELSE (Lowest("zygote", func) + Local[func] - Lowest("self", func)) % Modulus

(* Nothing of the zygote's is overwritten, whichever calls fail or crash:  *)
(* what has changed is below the stack pointer it was stopped with, no     *)
(* further than what is called needs for itself, or in the mapping made    *)
(* for this, and beyond that only if the token is longer than its rest.    *)
OwnMemoryOnly ==
  \A a \in DOMAIN mem :
    mem[a] # <<"old", a>> =>
      \/ a \in (Sp - StackUsed)..(Sp - 1)
      \/ base = Base /\ a >= Base /\ (a < Base + Region \/ ParamAt + Len(token) >= Region)
=============================================================================
