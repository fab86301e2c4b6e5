------------------------------- MODULE Ticks -------------------------------
(***************************************************************************)
(* engine.cpp: what an unpaused Engine::tick does after checkEvent.  In    *)
(* develop mode it reloads the script if the file's mtime has changed;     *)
(* then guard_tick, main_tick and sync_tick each run when their period has *)
(* passed on the wall clock, which gettimeofday reads, the user may set    *)
(* back, and which goes on between the calls.                              *)
(*                                                                         *)
(* Times are uint64_t, periods are int and are converted when compared:    *)
(* Modulus stands for 2^64.                                                *)
(***************************************************************************)
EXTENDS Integers

CONSTANTS
  ConfigTick,   \* GuardTick, MainTick and SyncTick in the configuration
  DefaultTick,  \* what parse_config takes for a missing one (or for 0)
  Develop,      \* gconfig.is_develop
  Modulus,      \* one more than the largest uint64_t
  PerSecond,    \* clock units in one unit of st_mtime
  MaxTime,      \* bound: the latest time
  MaxEdits      \* bound: edits of the script file

Timers == {"guard", "main", "sync"}

ASSUME TicksAssumption ==
  /\ ConfigTick \in [Timers -> Int]
  /\ DefaultTick \in [Timers -> Nat \ {0}]
  /\ Develop \in BOOLEAN
  /\ PerSecond \in Nat \ {0} /\ MaxTime \in Nat /\ MaxTime >= PerSecond
  /\ MaxEdits \in Nat
  /\ Modulus \in Nat
  /\ \A t \in Timers : /\ MaxTime + ConfigTick[t] < Modulus
                       /\ MaxTime - ConfigTick[t] < Modulus
                       /\ MaxTime + DefaultTick[t] < Modulus

VARIABLES
  now,     \* the wall clock
  last,    \* gconfig.guard_last, main_last and sync_last
  back,    \* the clock was set back since that timer last fired (history)
  pc,      \* where Engine::tick is
  file,    \* the script file: which edit it is, when it was written, sound
  exists,  \* lstat finds it
  raced,   \* it was written between load_lua's last lstat and its dofile
  mtime,   \* load_lua's static last
  tried,   \* the edit luaL_dofile last ran
  inLua    \* the last sound one among those

clockVars  == <<now, back>>
fileVars   == <<file, exists, raced>>
scriptVars == <<mtime, tried, inLua>>
ticksVars == <<now, last, back, pc, file, exists, raced, mtime, tried, inLua>>

(* st_mtime *)
Seconds(t) == t \div PerSecond

(* A difference or an int, as uint64_t. *)
Unsigned(i) == IF i < 0 THEN i + Modulus ELSE i

(* parse_config: ?: takes the default for 0, and only for 0. *)
Period(t) == IF ConfigTick[t] = 0 THEN DefaultTick[t] ELSE ConfigTick[t]

(* Mutant of Due: >= for >. *)
DueAtOnce(t) == Unsigned(now - last[t]) >= Unsigned(Period(t))

(* now - last > tick, in uint64_t. *)
Due(t) == Unsigned(now - last[t]) > Unsigned(Period(t))

(* Engine::init has loaded the first edit; the timers are zero. *)
TicksInit ==
  /\ now \in PerSecond..MaxTime
  /\ last = [t \in Timers |-> 0] /\ back = [t \in Timers |-> FALSE]
  /\ pc = "idle"
  /\ file = [edit |-> 0, written |-> 1, sound |-> TRUE] /\ exists = TRUE
  /\ raced = FALSE
  /\ mtime = 1 /\ tried = 0 /\ inLua = 0

-----------------------------------------------------------------------------
TicksStart ==
  /\ pc = "idle"
  /\ pc' = IF Develop THEN "reload" ELSE "guard"
  /\ UNCHANGED <<clockVars, last, fileVars, scriptVars>>

(* Mutant of NeedsLoad: only a later time counts as a change. *)
NeedsLoadNewer == exists /\ mtime < file.written

(* load_lua's two tests: lstat succeeds, and the time is a new one. *)
NeedsLoad == exists /\ mtime # file.written

(* Mutant of StatLua: last is not static, so the time is not kept. *)
StatLuaForgets ==
  /\ pc = "reload" /\ pc' = IF NeedsLoad THEN "dofile" ELSE "guard"
  /\ raced' = IF NeedsLoad THEN FALSE ELSE raced
  /\ UNCHANGED <<clockVars, last, file, exists, scriptVars>>

(* load_lua, up to luaL_dofile: the time is noted before the script runs.  *)
StatLua ==
  /\ pc = "reload" /\ pc' = IF NeedsLoad THEN "dofile" ELSE "guard"
  /\ mtime' = IF NeedsLoad THEN file.written ELSE mtime
  /\ raced' = IF NeedsLoad THEN FALSE ELSE raced
  /\ UNCHANGED <<clockVars, last, file, exists, tried, inLua>>

(* luaL_dofile opens the file as it is now.  The tick goes on whatever     *)
(* comes of it, and a script that failed or is gone is not tried again.    *)
DoFile ==
  /\ pc = "dofile" /\ pc' = "guard"
  /\ tried' = IF exists THEN file.edit ELSE tried
  /\ inLua' = IF exists /\ file.sound THEN file.edit ELSE inLua
  /\ UNCHANGED <<clockVars, last, fileVars, mtime>>

(* guard_tick, main_tick or sync_tick. *)
Run(t, next) ==
  /\ pc = t /\ pc' = next
  /\ last' = IF Due(t) THEN [last EXCEPT ![t] = now] ELSE last
  /\ back' = IF Due(t) THEN [back EXCEPT ![t] = FALSE] ELSE back
  /\ UNCHANGED <<now, fileVars, scriptVars>>

GuardTick == Run("guard", "main")
MainTick  == Run("main", "sync")
SyncTick  == Run("sync", "idle")

(* Environment: time passes, the user sets the clock back, a developer     *)
(* writes or removes the script.                                           *)
ClockOn(t) ==
  /\ t > now /\ now' = t
  /\ UNCHANGED <<back, last, pc, fileVars, scriptVars>>

ClockBack(t) ==
  /\ t < now /\ now' = t
  /\ back' = [u \in Timers |-> TRUE]
  /\ UNCHANGED <<last, pc, fileVars, scriptVars>>

Edit(sound) ==
  /\ file.edit < MaxEdits
  /\ file' = [edit |-> file.edit + 1, written |-> Seconds(now), sound |-> sound]
  /\ exists' = TRUE
  /\ raced' = (raced \/ pc = "dofile")
  /\ UNCHANGED <<clockVars, last, pc, scriptVars>>

Remove ==
  /\ file.edit > 0 /\ exists /\ exists' = FALSE
  /\ UNCHANGED <<clockVars, last, pc, file, raced, scriptVars>>

TicksStep == TicksStart \/ StatLua \/ DoFile \/ GuardTick \/ MainTick \/ SyncTick

TicksNext ==
  \/ TicksStep
  \/ \E t \in PerSecond..MaxTime : ClockOn(t) \/ ClockBack(t)
  \/ \E sound \in BOOLEAN : Edit(sound)
  \/ Remove

(* The engine stays unpaused and the game keeps drawing frames. *)
TicksSpec == TicksInit /\ [][TicksNext]_ticksVars
FairTicksSpec == TicksSpec /\ WF_ticksVars(TicksStep)

-----------------------------------------------------------------------------
(* Correctness *)

TicksTypeOK ==
  /\ now \in PerSecond..MaxTime
  /\ last \in [Timers -> 0..MaxTime]
  /\ back \in [Timers -> BOOLEAN]
  /\ pc \in {"idle", "reload", "dofile"} \cup Timers
  /\ file \in [edit : Nat, written : Nat, sound : BOOLEAN]
  /\ exists \in BOOLEAN /\ raced \in BOOLEAN
  /\ mtime \in Nat /\ tried \in Nat /\ inLua \in Nat

(* Between two firings of a timer more than its period passes, unless the  *)
(* clock was set back between them.                                        *)
NoEarlyFiring ==
  [][\A t \in Timers :
       last'[t] # last[t] =>
         back[t] \/ Period(t) < 0 \/ now - last[t] > Period(t)]_ticksVars

(* A clock set back never silences a timer until the old time comes again: *)
(* the difference wraps, so the next tick fires and starts from the new    *)
(* time.                                                                   *)
NeverAhead ==
  [][\A t \in Timers :
       pc = t /\ pc' # t /\ Period(t) >= 0 => last'[t] <= now]_ticksVars

(* A negative period, as uint64_t, is longer than any time: never. *)
NegativeNever == \A t \in Timers : Period(t) < 0 => last[t] = 0

(* No edit of the script is run twice, a failed one included, unless it    *)
(* was written after the lstat and before the dofile that first ran it.    *)
LoadedOnce ==
  [][pc = "reload" /\ pc' = "dofile" => file.edit # tried \/ raced]_ticksVars

(* A sound edit reaches Lua, even one written after the clock was set      *)
(* back, unless it was written in the very second the last one tried was.  *)
EditReachesLua ==
  \A e \in 1..MaxEdits :
    Develop /\ exists /\ file.edit = e /\ file.sound /\ mtime # file.written ~>
      inLua = e \/ ~exists \/ file.edit # e
=============================================================================
