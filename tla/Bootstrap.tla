----------------------------- MODULE Bootstrap -----------------------------
(***************************************************************************)
(* bootstrap.c: inject_remote_process stops the zygote, makes it call      *)
(* mmap, dlopen, dlsym and the bridge's init_func one after the other, and *)
(* puts its registers back.  With it the target's side: its one traced     *)
(* thread, and init_func of bridge.cpp, which runs there.                  *)
(***************************************************************************)
EXTENDS Naturals

CONSTANTS
  MaxRuns,   \* bound: times bootstrap is started
  MaxSignals \* bound: signals that reach the target during calls

ASSUME BoundAssumption == MaxRuns \in Nat /\ MaxSignals \in Nat

VARIABLES
  runs,    \* bootstraps started
  pc,      \* where the one there is stands; "idle" when there is none
  func,    \* the function to be called in the target
  base,    \* map_base,
  handle,  \* sohandle
  entry,   \* and hook_init_addr: what the calls returned
  target,  \* the zygote's thread
  init,    \* where it is in init_func
  once,    \* init_func's latch
  hooks,   \* how often fopen has been hooked
  signals  \* signals that came

bootVars == <<runs, pc, func, base, handle, entry>>
targetVars == <<target, init, once, hooks, signals>>
bootstrapVars == <<bootVars, targetVars>>

(* What a call gives back: something usable, 0 or -1, or whatever is in    *)
(* the register after a crash.                                             *)
Value == {"good", "none", "odd"}

Alive == target.is # "dead"

Init ==
  /\ runs = 0 /\ pc = "idle" /\ func = "mmap"
  /\ base = "none" /\ handle = "none" /\ entry = "none"
  /\ target = [is |-> "running", traced |-> FALSE, at |-> "own", by |-> "none", value |-> "none"]
  /\ init = "entry" /\ once = FALSE /\ hooks = 0 /\ signals = 0

-----------------------------------------------------------------------------
(* bootstrap.  A request to ptrace fails only when the target is gone; the *)
(* kernel lets a traced thread go when its tracer ends.                    *)

Start ==
  /\ pc = "idle" /\ runs < MaxRuns
  /\ runs' = runs + 1 /\ pc' = "attach"
  /\ UNCHANGED <<func, base, handle, entry, targetVars>>

Ended ==
  /\ pc' = "idle"
  /\ target' = [target EXCEPT !.traced = FALSE, !.is = IF Alive THEN "running" ELSE @]
  /\ UNCHANGED <<runs, func, base, handle, entry, init, once, hooks, signals>>

(* A request that fails: goto exit. *)
GiveUp == pc \in {"attach", "regs", "call", "wait"} /\ ~Alive /\ Ended

Refused == pc = "attach" /\ Alive /\ Ended

Attach ==
  /\ pc = "attach" /\ Alive /\ pc' = "regs"
  /\ target' = [target EXCEPT !.traced = TRUE, !.is = "stopped"]
  /\ UNCHANGED <<runs, func, base, handle, entry, init, once, hooks, signals>>

(* original_regs = regs *)
GetRegs ==
  /\ pc = "regs" /\ Alive
  /\ pc' = "call" /\ func' = "mmap"
  /\ UNCHANGED <<runs, base, handle, entry, targetVars>>

(* ptrace_call: the parameters, the registers, PTRACE_CONT. *)
Call ==
  /\ pc = "call" /\ Alive /\ pc' = "wait"
  /\ target' = [target EXCEPT !.is = "running", !.at = "call"]
  /\ init' = "entry"
  /\ UNCHANGED <<runs, func, base, handle, entry, once, hooks, signals>>

(* Mutant of AnotherStop: it waits again, without letting the target go on. *)
AnotherStopWaits ==
  /\ pc = "wait" /\ target.is = "stopped" /\ target.by = "signal"
  /\ UNCHANGED bootstrapVars

(* stat is not 0xb7f: PTRACE_CONT, and the signal is gone. *)
AnotherStop ==
  /\ pc = "wait" /\ target.is = "stopped" /\ target.by = "signal"
  /\ target' = [target EXCEPT !.is = "running"]
  /\ UNCHANGED <<bootVars, init, once, hooks, signals>>

(* A failure is logged, and the next call made all the same. *)
After(f, v) ==
  CASE f = "mmap" -> IF v = "none" THEN "__errno" ELSE "dlopen"
    [] f = "__errno" -> "dlopen"
    [] f = "dlopen" -> IF v = "none" THEN "dlerror" ELSE "dlsym"
    [] f = "dlerror" -> "dlsym"
    [] f = "dlsym" -> "init_func"
    [] f = "init_func" -> "restore"

(* SIGSEGV: taken for the return to address 0.  ptrace_getregs, and what   *)
(* inject_remote_process does with the value.                              *)
Back ==
  /\ pc = "wait" /\ target.is = "stopped" /\ target.by = "segv"
  /\ base' = IF func = "mmap" THEN target.value ELSE base
  /\ handle' = IF func = "dlopen" THEN target.value ELSE handle
  /\ entry' = IF func = "dlsym" THEN target.value ELSE entry
  /\ LET next == After(func, target.value) IN
     IF next = "restore" THEN pc' = "restore" /\ UNCHANGED func
     ELSE pc' = "call" /\ func' = next
  /\ UNCHANGED <<runs, targetVars>>

(* Mutant of Restore: detached with the registers of the last call. *)
RestoreForgets ==
  /\ pc = "restore" /\ pc' = "idle"
  /\ target' = IF Alive THEN [target EXCEPT !.is = "running", !.traced = FALSE] ELSE target
  /\ UNCHANGED <<runs, func, base, handle, entry, init, once, hooks, signals>>

(* ptrace_setregs with original_regs, ptrace_detach: nobody looks whether  *)
(* they fail.                                                              *)
Restore ==
  /\ pc = "restore" /\ pc' = "idle"
  /\ target' = IF Alive THEN [target EXCEPT !.is = "running", !.traced = FALSE, !.at = "own"]
               ELSE target
  /\ UNCHANGED <<runs, func, base, handle, entry, init, once, hooks, signals>>

Bootstrap ==
  \/ GiveUp \/ Refused \/ Attach \/ GetRegs \/ Call \/ AnotherStop \/ Back \/ Restore

-----------------------------------------------------------------------------
(* The target, in a call. *)

Calling == target.is = "running" /\ target.at = "call"

Stops(at, by, v) ==
  target' = [target EXCEPT !.is = "stopped", !.at = at, !.by = by, !.value = v]

(* What the function called can return, given what it was passed. *)
Returned ==
  CASE func = "mmap" -> {"good", "none"}
    [] func \in {"__errno", "dlerror"} -> {"good"}
    [] func = "dlopen" -> IF base = "good" THEN {"good", "none"} ELSE {}
    [] func = "dlsym" -> IF handle = "good" THEN {"good", "none"} ELSE {"none"}
    [] OTHER -> {}

Return ==
  /\ Calling /\ \E v \in Returned : Stops("back", "segv", v)
  /\ UNCHANGED <<bootVars, init, once, hooks, signals>>

(* A call of no address, a bad argument, a library that is not there: it   *)
(* stops in the middle, by the same signal.                                *)
MayCrash ==
  \/ func = "dlopen"
  \/ func = "dlsym" /\ handle = "odd"
  \/ func = "init_func" /\ (entry # "good" \/ init = "shooting")

Crash ==
  /\ Calling /\ MayCrash /\ \E v \in {"none", "odd"} : Stops("lost", "segv", v)
  /\ UNCHANGED <<bootVars, init, once, hooks, signals>>

InInit(at) == Calling /\ func = "init_func" /\ entry = "good" /\ init = at

(* Mutant of InitFunc: the latch is set first. *)
InitFuncLatches ==
  /\ InInit("entry")
  /\ init' = IF once THEN "end" ELSE "shooting"
  /\ once' = TRUE
  /\ UNCHANGED <<bootVars, target, hooks, signals>>

InitFunc ==
  /\ InInit("entry")
  /\ init' = IF once THEN "end" ELSE "shooting"
  /\ UNCHANGED <<bootVars, target, once, hooks, signals>>

(* init_shooting, when libSubstrate is there. *)
InitShooting ==
  /\ InInit("shooting") /\ init' = "latch" /\ hooks' = hooks + 1
  /\ UNCHANGED <<bootVars, target, once, signals>>

InitLatch ==
  /\ InInit("latch") /\ init' = "end" /\ once' = TRUE
  /\ UNCHANGED <<bootVars, target, hooks, signals>>

InitReturn ==
  /\ InInit("end") /\ Stops("back", "segv", "none")
  /\ UNCHANGED <<bootVars, init, once, hooks, signals>>

Target ==
  Return \/ Crash \/ InitFunc \/ InitShooting \/ InitLatch \/ InitReturn

(* Any other signal stops a traced thread as well. *)
Signal ==
  /\ Calling /\ signals < MaxSignals /\ signals' = signals + 1
  /\ Stops("call", "signal", target.value)
  /\ UNCHANGED <<bootVars, init, once, hooks>>

Die ==
  /\ Alive /\ target' = [target EXCEPT !.is = "dead", !.traced = FALSE]
  /\ UNCHANGED <<bootVars, init, once, hooks, signals>>

Next == Start \/ Bootstrap \/ Target \/ Signal \/ Die

(* bootstrap runs on, and what it calls returns or crashes. *)
Fairness == WF_bootstrapVars(Bootstrap) /\ WF_bootstrapVars(Target)

Spec == Init /\ [][Next]_bootstrapVars /\ Fairness

-----------------------------------------------------------------------------
(* Correctness *)

TypeOK ==
  /\ runs \in 0..MaxRuns /\ signals \in 0..MaxSignals
  /\ pc \in {"idle", "attach", "regs", "call", "wait", "restore"}
  /\ func \in {"mmap", "__errno", "dlopen", "dlerror", "dlsym", "init_func"}
  /\ base \in Value /\ handle \in Value /\ entry \in Value
  /\ target \in [is : {"running", "stopped", "dead"}, traced : BOOLEAN,
                 at : {"own", "call", "back", "lost"}, by : {"none", "segv", "signal"},
                 value : Value]
  /\ init \in {"entry", "shooting", "latch", "end"}
  /\ once \in BOOLEAN /\ hooks \in {0, 1}

(* Whichever calls fail or crash, and whichever signals come: when the     *)
(* bootstrap has ended, a zygote that still lives runs on where it was     *)
(* stopped, on its own registers, traced by nobody.                        *)
LeftAsFound ==
  pc = "idle" /\ Alive =>
    target.is = "running" /\ target.at = "own" /\ ~target.traced

(* Between two bootstraps, fopen is hooked just when the latch says so: a  *)
(* bootstrap whose init_func stopped halfway can be repeated, and one that *)
(* is repeated for nothing does not hook the hook.                         *)
LatchAgrees == pc = "idle" /\ Alive => (once <=> hooks = 1)

(* A bootstrap that has started ends, also when the zygote dies under it.  *)
Ends == pc # "idle" ~> pc = "idle"
=============================================================================
