------------------------------- MODULE Bridge -------------------------------
(***************************************************************************)
(* bridge.cpp in the processes the zygote forks: they inherit the hook of  *)
(* fopen, and the first thread of a game to open its client data loads the *)
(* payload, whose constructor (payload.cpp) runs Engine::init.  Composed   *)
(* with the bootstrap that puts the hook into the zygote.                  *)
(***************************************************************************)
EXTENDS Bootstrap

CONSTANTS
  App,    \* processes the zygote may fork
  Thread  \* threads of each that open files

VARIABLES
  device,   \* "arm": no houdini; "strange": one without an entry; "bare": no payload; "whole"
  forked,   \* the processes there are, with or without the hook
  hookOnce, \* hook_once of each
  payload,  \* what the linker of each knows of libpayload.so
  at,       \* where each thread is in $fopen
  file,     \* and what it opens
  read      \* the processes whose client data has been opened

appVars == <<device, forked, hookOnce, payload, at, file, read>>
vars == <<bootstrapVars, appVars>>

AppInit ==
  /\ device \in {"arm", "strange", "bare", "whole"}
  /\ forked = [a \in App |-> "no"]
  /\ hookOnce = [a \in App |-> FALSE] /\ payload = [a \in App |-> "none"]
  /\ at = [a \in App |-> [t \in Thread |-> "out"]]
  /\ file = [a \in App |-> [t \in Thread |-> "other"]] /\ read = {}

-----------------------------------------------------------------------------
(* The zygote forks when it runs on its own, with its memory as it is. *)
Fork(a) ==
  /\ forked[a] = "no" /\ target.is = "running" /\ target.at = "own"
  /\ forked' = [forked EXCEPT ![a] = IF hooks > 0 THEN "hooked" ELSE "plain"]
  /\ UNCHANGED <<device, hookOnce, payload, at, file, read>>

To(a, t, place) == at' = [at EXCEPT ![a][t] = place]

(* Without the hook fopen is the library's and nothing happens here. *)
Fopen(a, t) ==
  /\ forked[a] = "hooked" /\ at[a][t] = "out" /\ To(a, t, "test")
  /\ \E f \in {"clientdata", "other"} : file' = [file EXCEPT ![a][t] = f]
  /\ UNCHANGED <<device, forked, hookOnce, payload, read>>

Found(a, t) == ~hookOnce[a] /\ file[a][t] = "clientdata"

(* Mutant of Test: the path is looked at once hook_once has been set. *)
TestMarks(a, t) ==
  /\ forked[a] = "hooked" /\ at[a][t] = "test"
  /\ To(a, t, IF Found(a, t) THEN "set" ELSE "open")
  /\ hookOnce' = [hookOnce EXCEPT ![a] = TRUE]
  /\ UNCHANGED <<device, forked, payload, file, read>>

(* !hook_once && strstr: another thread may test before this one sets. *)
Test(a, t) ==
  /\ forked[a] = "hooked" /\ at[a][t] = "test"
  /\ To(a, t, IF Found(a, t) THEN "set" ELSE "open")
  /\ UNCHANGED <<device, forked, hookOnce, payload, file, read>>

Set(a, t) ==
  /\ forked[a] = "hooked" /\ at[a][t] = "set" /\ To(a, t, "houdini")
  /\ hookOnce' = [hookOnce EXCEPT ![a] = TRUE]
  /\ UNCHANGED <<device, forked, payload, file, read>>

(* Mutant of LoadHoudini: the handle is tested the wrong way round. *)
LoadHoudiniInverted(a, t) ==
  /\ forked[a] = "hooked" /\ at[a][t] = "houdini"
  /\ IF device = "arm"
     THEN forked' = [forked EXCEPT ![a] = "crashed"] /\ UNCHANGED at
     ELSE To(a, t, "loaded") /\ UNCHANGED forked
  /\ UNCHANGED <<device, hookOnce, payload, file, read>>

(* dlopen of houdini and its entry; a call of no entry is the end. *)
LoadHoudini(a, t) ==
  /\ forked[a] = "hooked" /\ at[a][t] = "houdini"
  /\ IF device = "strange"
     THEN forked' = [forked EXCEPT ![a] = "crashed"] /\ UNCHANGED at
     ELSE To(a, t, IF device = "arm" THEN "loaded" ELSE "payload") /\ UNCHANGED forked
  /\ UNCHANGED <<device, hookOnce, payload, file, read>>

(* houdini's dlopen: the first call runs the constructor, the others wait  *)
(* for it and get the same library.                                        *)
LoadPayload(a, t) ==
  /\ forked[a] = "hooked" /\ at[a][t] = "payload" /\ payload[a] # "loading"
  /\ IF device = "whole" /\ payload[a] = "none"
     THEN To(a, t, "init") /\ payload' = [payload EXCEPT ![a] = "loading"]
     ELSE To(a, t, "loaded") /\ UNCHANGED payload
  /\ UNCHANGED <<device, forked, hookOnce, file, read>>

(* real_init_func: Engine::init has run. *)
InitEnds(a, t) ==
  /\ forked[a] = "hooked" /\ at[a][t] = "init" /\ To(a, t, "loaded")
  /\ payload' = [payload EXCEPT ![a] = "loaded"]
  /\ UNCHANGED <<device, forked, hookOnce, file, read>>

(* It does not where Net::init waits at its barrier for ever, as when      *)
(* uv_tcp_connect fails at once: the thread and the linker stay there.     *)
InitHangs(a, t) ==
  /\ forked[a] = "hooked" /\ at[a][t] = "init" /\ To(a, t, "hung")
  /\ UNCHANGED <<device, forked, hookOnce, payload, file, read>>

(* fopen_ori *)
Open(a, t) ==
  /\ forked[a] = "hooked" /\ at[a][t] \in {"open", "loaded"} /\ To(a, t, "out")
  /\ read' = IF file[a][t] = "clientdata" THEN read \cup {a} ELSE read
  /\ file' = [file EXCEPT ![a][t] = "other"]
  /\ UNCHANGED <<device, forked, hookOnce, payload>>

(* The rest of $fopen, once it has been entered. *)
Step(a, t) ==
  /\ \/ Test(a, t) \/ Set(a, t) \/ LoadHoudini(a, t) \/ LoadPayload(a, t)
     \/ InitEnds(a, t) \/ InitHangs(a, t) \/ Open(a, t)
  /\ UNCHANGED bootstrapVars

LoaderInit == Init /\ AppInit

LoaderNext ==
  \/ Next /\ UNCHANGED appVars
  \/ \E a \in App : Fork(a) /\ UNCHANGED bootstrapVars
  \/ \E a \in App, t \in Thread : Fopen(a, t) /\ UNCHANGED bootstrapVars
  \/ \E a \in App, t \in Thread : Step(a, t)

(* The game's threads run on, as the bootstrap and the zygote do. *)
LoaderSpec ==
  /\ LoaderInit /\ [][LoaderNext]_vars /\ Fairness
  /\ \A a \in App, t \in Thread : WF_vars(Step(a, t))

-----------------------------------------------------------------------------
(* Correctness *)

LoaderTypeOK ==
  /\ TypeOK
  /\ device \in {"arm", "strange", "bare", "whole"}
  /\ forked \in [App -> {"no", "plain", "hooked", "crashed"}]
  /\ hookOnce \in [App -> BOOLEAN] /\ payload \in [App -> {"none", "loading", "loaded"}]
  /\ at \in [App -> [Thread ->
       {"out", "test", "set", "houdini", "payload", "init", "hung", "loaded", "open"}]]
  /\ file \in [App -> [Thread -> {"clientdata", "other"}]] /\ read \subseteq App
  /\ \A a \in App : payload[a] # "none" => forked[a] = "hooked" /\ hookOnce[a]

(* Before any client data is read a thread has set out for the payload,    *)
(* and it is there in the end unless that thread hangs in it: hook_once is *)
(* set by nobody else.  A thread that finds it set goes on at once, and    *)
(* may read before the payload is there.                                   *)
ReadWithPayload ==
  device = "whole" =>
    \A a \in read :
      \/ payload[a] = "loaded"
      \/ \E t \in Thread : at[a][t] \in {"houdini", "payload", "init", "hung"}

(* A game that opens its client data gets the payload, where the device    *)
(* has all it takes and Engine::init does not wait for ever.               *)
Loads ==
  \A a \in App :
    (device = "whole" /\ \E t \in Thread : at[a][t] = "test" /\ file[a][t] = "clientdata")
      ~> (payload[a] = "loaded" \/ \E t \in Thread : at[a][t] = "hung")
=============================================================================
