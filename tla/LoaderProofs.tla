---------------------------- MODULE LoaderProofs ----------------------------
(***************************************************************************)
(* Proofs about Bootstrap and Bridge, for any number of runs and signals,  *)
(* any processes and any threads.                                          *)
(***************************************************************************)
EXTENDS Bridge, TLAPS

-----------------------------------------------------------------------------
(* bootstrap and the zygote's thread. *)

(* Where a thread that lives stands, at each place of bootstrap. *)
Standing ==
  Alive =>
    /\ pc \in {"idle", "attach"} =>
         target.is = "running" /\ target.at = "own" /\ ~target.traced
    /\ pc \in {"regs", "call", "restore"} => target.is = "stopped"
    /\ pc = "wait" =>
         \/ target.is = "running" /\ target.at = "call"
         \/ target.is = "stopped" /\ target.by = "signal" /\ target.at = "call"
         \/ target.is = "stopped" /\ target.by = "segv" /\ target.at \in {"back", "lost"}

(* The latch lags behind the hook only while the thread is between them,   *)
(* in a call that has not stopped for good; and nothing but its own death  *)
(* stops it there for good.                                                *)
Latching ==
  Alive =>
    /\ init = "latch" =>
         /\ ~once /\ hooks = 1
         /\ pc = "wait" /\ func = "init_func" /\ entry = "good" /\ target.at = "call"
    /\ init # "latch" => (once <=> hooks = 1)
    /\ init = "shooting" => ~once

ZygoteThread ==
  [is : {"running", "stopped", "dead"}, traced : BOOLEAN,
   at : {"own", "call", "back", "lost"}, by : {"none", "segv", "signal"}, value : Value]

BootInv == TypeOK /\ Standing /\ Latching

LEMMA BootStart == Init => BootInv
<1> SUFFICES ASSUME Init PROVE BootInv
  OBVIOUS
<1>1. TypeOK
  <2>1. target \in ZygoteThread
    BY DEF Init, ZygoteThread, Value
  <2>2. 0 \in 0..MaxRuns /\ 0 \in 0..MaxSignals
    BY BoundAssumption
  <2> QED
    BY <2>1, <2>2 DEF Init, TypeOK, ZygoteThread, Value
<1>2. Standing /\ Latching
  BY DEF Init, Standing, Latching
<1> QED
  BY <1>1, <1>2 DEF BootInv

LEMMA BootStep == BootInv /\ [Next]_bootstrapVars => BootInv'
<1> SUFFICES ASSUME BootInv, [Next]_bootstrapVars PROVE BootInv'
  OBVIOUS
<1> USE BoundAssumption DEF BootInv, TypeOK, Value, Standing, Latching, Alive
<1>1. CASE UNCHANGED bootstrapVars
  BY <1>1 DEF bootstrapVars, bootVars, targetVars
<1>2. CASE Start
  BY <1>2 DEF Start, targetVars
<1>3. CASE GiveUp \/ Refused
  <2>1. /\ pc' = "idle"
        /\ target' = [target EXCEPT !.traced = FALSE, !.is = IF Alive THEN "running" ELSE @]
        /\ UNCHANGED <<runs, func, base, handle, entry, init, once, hooks, signals>>
        /\ ~Alive \/ pc = "attach"
    BY <1>3 DEF GiveUp, Refused, Ended
  <2>2. target'.at = target.at /\ target'.by = target.by /\ target'.value = target.value
    BY <2>1
  <2>3. target'.traced = FALSE
    BY <2>1
  <2>4. target'.is = IF Alive THEN "running" ELSE target.is
    BY <2>1
  <2>5. target' \in ZygoteThread
    BY <2>1 DEF ZygoteThread
  <2>6. TypeOK'
    BY <2>1, <2>5 DEF ZygoteThread
  <2>7. Standing'
    BY <2>1, <2>2, <2>3, <2>4
  <2>8. Latching'
    BY <2>1, <2>2, <2>3, <2>4
  <2> QED BY <2>6, <2>7, <2>8
<1>4. CASE Attach
  BY <1>4 DEF Attach
<1>5. CASE GetRegs
  BY <1>5 DEF GetRegs, targetVars
<1>6. CASE Call
  BY <1>6 DEF Call
<1>7. CASE AnotherStop
  BY <1>7 DEF AnotherStop, bootVars
<1>8. CASE Back
  BY <1>8 DEF Back, After, targetVars
<1>9. CASE Restore
  <2>1. /\ pc = "restore" /\ pc' = "idle"
        /\ target' = IF Alive THEN [target EXCEPT !.is = "running", !.traced = FALSE, !.at = "own"]
                     ELSE target
        /\ UNCHANGED <<runs, func, base, handle, entry, init, once, hooks, signals>>
    BY <1>9 DEF Restore
  <2>2. Alive => target'.is = "running" /\ target'.traced = FALSE /\ target'.at = "own"
    BY <2>1
  <2>3. target' \in ZygoteThread
    BY <2>1 DEF ZygoteThread
  <2>4. TypeOK'
    BY <2>1, <2>3 DEF ZygoteThread
  <2>5. Standing'
    BY <2>1, <2>2
  <2>6. Latching'
    BY <2>1, <2>2
  <2> QED BY <2>4, <2>5, <2>6
<1>10. CASE Return
  <2>1. PICK v \in {"good", "none"} :
           target' = [target EXCEPT !.is = "stopped", !.at = "back", !.by = "segv", !.value = v]
    BY <1>10 DEF Return, Returned, Stops
  <2>2. /\ target.is = "running" /\ target.at = "call" /\ func # "init_func"
        /\ UNCHANGED <<runs, pc, func, base, handle, entry, init, once, hooks, signals>>
    BY <1>10 DEF Return, Returned, Calling, bootVars
  <2>3. pc = "wait"
    BY <2>1, <2>2
  <2>4. TypeOK'
    <3>1. target' \in ZygoteThread
      BY <2>1 DEF ZygoteThread
    <3> QED
      BY <2>1, <2>2, <3>1 DEF ZygoteThread
  <2>5. Standing'
    BY <2>1, <2>2, <2>3
  <2>6. Latching'
    BY <2>1, <2>2, <2>3
  <2> QED
    BY <2>4, <2>5, <2>6
<1>11. CASE Crash
  <2>1. PICK v \in {"none", "odd"} :
           target' = [target EXCEPT !.is = "stopped", !.at = "lost", !.by = "segv", !.value = v]
    BY <1>11 DEF Crash, Stops
  <2>2. /\ target.is = "running" /\ target.at = "call" /\ init # "latch"
        /\ UNCHANGED <<runs, pc, func, base, handle, entry, init, once, hooks, signals>>
    BY <1>11 DEF Crash, MayCrash, Calling, bootVars
  <2>3. pc = "wait"
    BY <2>1, <2>2
  <2>4. TypeOK'
    <3>1. target' \in ZygoteThread
      BY <2>1 DEF ZygoteThread
    <3> QED
      BY <2>1, <2>2, <3>1 DEF ZygoteThread
  <2>5. Standing'
    BY <2>1, <2>2, <2>3
  <2>6. Latching'
    BY <2>1, <2>2, <2>3
  <2> QED
    BY <2>4, <2>5, <2>6
<1>12. CASE InitFunc
  BY <1>12 DEF InitFunc, InInit, Calling, bootVars
<1>13. CASE InitShooting
  BY <1>13 DEF InitShooting, InInit, Calling, bootVars
<1>14. CASE InitLatch
  BY <1>14 DEF InitLatch, InInit, Calling, bootVars
<1>15. CASE InitReturn
  BY <1>15 DEF InitReturn, InInit, Calling, Stops, bootVars
<1>16. CASE Signal
  <2>1. /\ target.is = "running" /\ target.at = "call"
        /\ target' = [target EXCEPT !.is = "stopped", !.at = "call", !.by = "signal",
                                    !.value = target.value]
        /\ signals < MaxSignals /\ signals' = signals + 1
        /\ UNCHANGED <<runs, pc, func, base, handle, entry, init, once, hooks>>
    BY <1>16 DEF Signal, Calling, Stops, bootVars
  <2>2. signals' \in 0..MaxSignals
    BY <2>1
  <2>3. pc = "wait"
    BY <2>1, <2>2
  <2>4. TypeOK'
    <3>1. target' \in ZygoteThread
      BY <2>1 DEF ZygoteThread
    <3> QED
      BY <2>1, <2>2, <3>1 DEF ZygoteThread
  <2>5. Standing'
    BY <2>1, <2>2, <2>3
  <2>6. Latching'
    BY <2>1, <2>2, <2>3
  <2> QED
    BY <2>4, <2>5, <2>6
<1>17. CASE Die
  <2>1. target' = [target EXCEPT !.is = "dead", !.traced = FALSE]
        /\ UNCHANGED <<runs, pc, func, base, handle, entry, init, once, hooks, signals>>
    BY <1>17 DEF Die, bootVars
  <2>2. target'.is = "dead"
    BY <2>1
  <2>3. target' \in ZygoteThread
    BY <2>1 DEF ZygoteThread
  <2>4. TypeOK'
    BY <2>1, <2>3 DEF ZygoteThread
  <2>5. Standing'
    BY <2>1, <2>2
  <2>6. Latching'
    BY <2>1, <2>2
  <2> QED BY <2>4, <2>5, <2>6
<1> QED
  BY <1>1, <1>2, <1>3, <1>4, <1>5, <1>6, <1>7, <1>8, <1>9, <1>10, <1>11, <1>12, <1>13,
     <1>14, <1>15, <1>16, <1>17 DEF Next, Bootstrap, Target

(* What the processes do is no step of bootstrap or of the zygote. *)
LEMMA LoaderIsBootstrap == [LoaderNext]_vars => [Next]_bootstrapVars
BY DEF LoaderNext, Step, vars

LEMMA BootAlways == LoaderSpec => []BootInv
<1>1. LoaderInit => BootInv
  BY BootStart DEF LoaderInit
<1> QED
  BY <1>1, BootStep, LoaderIsBootstrap, PTL DEF LoaderSpec

(* However many bootstraps, failures and signals: a zygote that lives when *)
(* bootstrap has ended runs on where it was stopped, traced by nobody.     *)
THEOREM LeftAsFoundAlways == LoaderSpec => []LeftAsFound
<1>1. BootInv => LeftAsFound
  BY DEF BootInv, Standing, LeftAsFound, Alive
<1> QED
  BY <1>1, BootAlways, PTL

(* Between two bootstraps fopen is hooked just when init_func's latch says *)
(* so, and never twice.                                                    *)
THEOREM LatchAgreesAlways == LoaderSpec => []LatchAgrees
<1>1. BootInv => LatchAgrees
  BY DEF BootInv, Latching, LatchAgrees
<1> QED
  BY <1>1, BootAlways, PTL

-----------------------------------------------------------------------------
(* The processes forked from the zygote. *)

(* Where a thread is says what it knows of hook_once and of the payload. *)
ThreadKnows(a, t) ==
  /\ at[a][t] \in {"houdini", "payload", "init", "hung", "loaded"} => hookOnce[a]
  /\ at[a][t] = "init" => device = "whole"
  /\ at[a][t] = "open" /\ file[a][t] = "clientdata" => hookOnce[a]

(* Once hook_once is set, the payload is there or a thread is fetching it. *)
OnItsWay(a) ==
  \/ payload[a] = "loaded"
  \/ \E t \in Thread : at[a][t] \in {"houdini", "payload", "init", "hung"}

AppInv ==
  /\ \A a \in App, t \in Thread : ThreadKnows(a, t)
  /\ \A a \in App : payload[a] # "none" => device = "whole"
  /\ \A a \in App : device = "whole" /\ hookOnce[a] => OnItsWay(a)
  /\ \A a \in read : hookOnce[a]

Place == {"out", "test", "set", "houdini", "payload", "init", "hung", "loaded", "open"}

AppTypeOK ==
  /\ device \in {"arm", "strange", "bare", "whole"}
  /\ forked \in [App -> {"no", "plain", "hooked", "crashed"}]
  /\ hookOnce \in [App -> BOOLEAN] /\ payload \in [App -> {"none", "loading", "loaded"}]
  /\ at \in [App -> [Thread -> Place]]
  /\ file \in [App -> [Thread -> {"clientdata", "other"}]] /\ read \subseteq App
  /\ \A a \in App : payload[a] # "none" => forked[a] = "hooked" /\ hookOnce[a]

(* One thread moves, the others stay where they are. *)
LEMMA Moves ==
  ASSUME AppTypeOK, NEW a \in App, NEW t \in Thread, NEW place \in Place, To(a, t, place)
  PROVE  /\ at' \in [App -> [Thread -> Place]]
         /\ at'[a][t] = place
         /\ \A b \in App, u \in Thread : <<b, u>> # <<a, t>> => at'[b][u] = at[b][u]
BY DEF AppTypeOK, To

(* hook_once is set. *)
LEMMA Sets ==
  ASSUME AppTypeOK, NEW a \in App, hookOnce' = [hookOnce EXCEPT ![a] = TRUE]
  PROVE  /\ hookOnce' \in [App -> BOOLEAN]
         /\ hookOnce'[a]
         /\ \A b \in App : hookOnce[b] => hookOnce'[b]
         /\ \A b \in App : b # a => hookOnce'[b] = hookOnce[b]
BY DEF AppTypeOK

LEMMA AppStart == AppInit => AppTypeOK /\ AppInv
BY DEF AppInit, AppTypeOK, AppInv, ThreadKnows, OnItsWay, Place

LEMMA AppStep == AppTypeOK /\ AppInv /\ [LoaderNext]_vars => AppTypeOK' /\ AppInv'
<1> SUFFICES ASSUME AppTypeOK, AppInv, [LoaderNext]_vars PROVE AppTypeOK' /\ AppInv'
  OBVIOUS
<1>1. CASE UNCHANGED appVars
  BY <1>1 DEF appVars, AppTypeOK, AppInv, ThreadKnows, OnItsWay
<1>2. ASSUME NEW a \in App, Fork(a)
      PROVE  AppTypeOK' /\ AppInv'
  BY <1>2 DEF Fork, AppTypeOK, AppInv, ThreadKnows, OnItsWay
<1>3. ASSUME NEW a \in App, NEW t \in Thread, Fopen(a, t)
      PROVE  AppTypeOK' /\ AppInv'
  <2>1. PICK f \in {"clientdata", "other"} : file' = [file EXCEPT ![a][t] = f]
    BY <1>3 DEF Fopen
  <2>2. /\ at[a][t] = "out" /\ To(a, t, "test")
        /\ UNCHANGED <<device, forked, hookOnce, payload, read>>
    BY <1>3 DEF Fopen
  <2>3. /\ at' \in [App -> [Thread -> Place]] /\ at'[a][t] = "test"
        /\ \A b \in App, u \in Thread : <<b, u>> # <<a, t>> => at'[b][u] = at[b][u]
    BY <2>2, Moves DEF Place
  <2>4. /\ file' \in [App -> [Thread -> {"clientdata", "other"}]]
        /\ \A b \in App, u \in Thread : <<b, u>> # <<a, t>> => file'[b][u] = file[b][u]
    BY <2>1 DEF AppTypeOK
  <2>5. AppTypeOK'
    BY <2>2, <2>3, <2>4 DEF AppTypeOK
  <2>6. AppInv'
    <3>1. ASSUME NEW b \in App, NEW u \in Thread PROVE ThreadKnows(b, u)'
      <4>1. CASE b = a /\ u = t
        BY <2>2, <2>3, <2>4, <4>1 DEF AppTypeOK, AppInv, ThreadKnows
      <4>2. CASE <<b, u>> # <<a, t>>
        <5>1. at'[b][u] = at[b][u] /\ ThreadKnows(b, u)
          BY <2>2, <2>3, <2>4, <4>2 DEF AppInv
        <5> QED
          BY <2>2, <2>3, <2>4, <4>2, <5>1 DEF AppTypeOK, AppInv, ThreadKnows
      <4> QED BY <4>1, <4>2
    <3>2. \A b \in App : payload'[b] # "none" => device' = "whole"
      BY <2>2, <2>3, <2>4 DEF AppInv
    <3>3. \A b \in App : device' = "whole" /\ hookOnce'[b] => OnItsWay(b)'
      BY <2>2, <2>3, <2>4 DEF AppInv, OnItsWay
    <3>4. \A b \in read' : hookOnce'[b]
      BY <2>2, <2>3, <2>4 DEF AppInv, ThreadKnows
    <3> QED BY <3>1, <3>2, <3>3, <3>4 DEF AppInv
  <2> QED BY <2>5, <2>6
<1>4. ASSUME NEW a \in App, NEW t \in Thread, Test(a, t)
      PROVE  AppTypeOK' /\ AppInv'
  <2>1. /\ at[a][t] = "test" /\ To(a, t, IF Found(a, t) THEN "set" ELSE "open")
        /\ UNCHANGED <<device, forked, hookOnce, payload, file, read>>
    BY <1>4 DEF Test
  <2> DEFINE place == IF Found(a, t) THEN "set" ELSE "open"
  <2>3. place \in Place /\ To(a, t, place) /\ (place = "open" => hookOnce[a] \/ file[a][t] # "clientdata")
    BY <2>1 DEF Found, Place
  <2>4. place \in {"set", "open"}
    OBVIOUS
  <2> HIDE DEF place
  <2>2. /\ at' \in [App -> [Thread -> Place]] /\ at'[a][t] = place
        /\ \A b \in App, u \in Thread : <<b, u>> # <<a, t>> => at'[b][u] = at[b][u]
    BY <2>3, Moves
  <2>5. AppTypeOK'
    BY <2>1, <2>2, <2>3, <2>4 DEF AppTypeOK
  <2>6. AppInv'
    BY <2>1, <2>2, <2>3, <2>4 DEF AppInv, ThreadKnows, OnItsWay
  <2> QED BY <2>5, <2>6
<1>5. ASSUME NEW a \in App, NEW t \in Thread, Set(a, t)
      PROVE  AppTypeOK' /\ AppInv'
  <2>1. /\ forked[a] = "hooked" /\ at[a][t] = "set" /\ To(a, t, "houdini")
        /\ hookOnce' = [hookOnce EXCEPT ![a] = TRUE]
        /\ UNCHANGED <<device, forked, payload, file, read>>
    BY <1>5 DEF Set
  <2>2. /\ at' \in [App -> [Thread -> Place]] /\ at'[a][t] = "houdini"
        /\ \A b \in App, u \in Thread : <<b, u>> # <<a, t>> => at'[b][u] = at[b][u]
    BY <2>1, Moves DEF Place
  <2>3. /\ hookOnce' \in [App -> BOOLEAN] /\ hookOnce'[a]
        /\ \A b \in App : hookOnce[b] => hookOnce'[b]
        /\ \A b \in App : b # a => hookOnce'[b] = hookOnce[b]
    BY <2>1, Sets
  <2>5. AppTypeOK'
    BY <2>1, <2>2, <2>3 DEF AppTypeOK
  <2>6. AppInv'
    BY <2>1, <2>2, <2>3 DEF AppInv, ThreadKnows, OnItsWay
  <2> QED BY <2>5, <2>6
<1>6. ASSUME NEW a \in App, NEW t \in Thread, LoadHoudini(a, t)
      PROVE  AppTypeOK' /\ AppInv'
  <2>1. /\ forked[a] = "hooked" /\ at[a][t] = "houdini"
        /\ IF device = "strange"
             THEN forked' = [forked EXCEPT ![a] = "crashed"] /\ UNCHANGED at
             ELSE To(a, t, IF device = "arm" THEN "loaded" ELSE "payload") /\ UNCHANGED forked
        /\ UNCHANGED <<device, hookOnce, payload, file, read>>
    BY <1>6 DEF LoadHoudini
  <2>2. CASE device = "strange"
    <3>1. forked' = [forked EXCEPT ![a] = "crashed"] /\ at' = at /\ payload[a] = "none"
      BY <2>1, <2>2 DEF AppTypeOK, AppInv
    <3>2. AppTypeOK'
      BY <2>1, <3>1 DEF AppTypeOK
    <3>3. AppInv'
      BY <2>1, <2>2, <3>1 DEF AppInv, ThreadKnows, OnItsWay
    <3> QED BY <3>2, <3>3
  <2>3. CASE device # "strange"
    <3> DEFINE place == IF device = "arm" THEN "loaded" ELSE "payload"
    <3>1. place \in Place /\ To(a, t, place) /\ UNCHANGED forked
      BY <2>1, <2>3 DEF Place
    <3>2. place \in {"loaded", "payload"} /\ (device = "whole" => place = "payload")
      OBVIOUS
    <3> HIDE DEF place
    <3>3. /\ at' \in [App -> [Thread -> Place]] /\ at'[a][t] = place
          /\ \A b \in App, u \in Thread : <<b, u>> # <<a, t>> => at'[b][u] = at[b][u]
      BY <3>1, Moves
    <3>4. AppTypeOK'
      BY <2>1, <3>1, <3>3 DEF AppTypeOK
    <3>5. AppInv'
      BY <2>1, <3>1, <3>2, <3>3 DEF AppInv, ThreadKnows, OnItsWay
    <3> QED BY <3>4, <3>5
  <2> QED BY <2>2, <2>3
<1>7. ASSUME NEW a \in App, NEW t \in Thread, LoadPayload(a, t)
      PROVE  AppTypeOK' /\ AppInv'
  <2>1. /\ forked[a] = "hooked" /\ at[a][t] = "payload" /\ payload[a] # "loading"
        /\ IF device = "whole" /\ payload[a] = "none"
             THEN To(a, t, "init") /\ payload' = [payload EXCEPT ![a] = "loading"]
             ELSE To(a, t, "loaded") /\ UNCHANGED payload
        /\ UNCHANGED <<device, forked, hookOnce, file, read>>
    BY <1>7 DEF LoadPayload
  <2>2. CASE device = "whole" /\ payload[a] = "none"
    <3>1. /\ at' \in [App -> [Thread -> Place]] /\ at'[a][t] = "init"
          /\ \A b \in App, u \in Thread : <<b, u>> # <<a, t>> => at'[b][u] = at[b][u]
      BY <2>1, <2>2, Moves DEF Place
    <3>2. payload' = [payload EXCEPT ![a] = "loading"] /\ hookOnce[a]
      BY <2>1, <2>2 DEF AppInv, ThreadKnows
    <3>3. AppTypeOK'
      BY <2>1, <3>1, <3>2 DEF AppTypeOK
    <3>4. AppInv'
      <4>1. ASSUME NEW b \in App, NEW u \in Thread PROVE ThreadKnows(b, u)'
        <5>1. CASE b = a /\ u = t
          BY <2>1, <2>2, <3>1, <3>2, <5>1 DEF AppTypeOK, AppInv, ThreadKnows
        <5>2. CASE <<b, u>> # <<a, t>>
          <6>1. at'[b][u] = at[b][u] /\ ThreadKnows(b, u)
            BY <2>1, <2>2, <3>1, <3>2, <5>2 DEF AppInv
          <6> QED
            BY <2>1, <2>2, <3>1, <3>2, <5>2, <6>1 DEF AppTypeOK, AppInv, ThreadKnows
        <5> QED BY <5>1, <5>2
      <4>2. \A b \in App : payload'[b] # "none" => device' = "whole"
        BY <2>1, <2>2, <3>1, <3>2 DEF AppTypeOK, AppInv, ThreadKnows
      <4>3. \A b \in App : device' = "whole" /\ hookOnce'[b] => OnItsWay(b)'
        BY <2>1, <2>2, <3>1, <3>2 DEF AppTypeOK, AppInv, OnItsWay
      <4>4. \A b \in read' : hookOnce'[b]
        BY <2>1, <2>2, <3>1, <3>2 DEF AppTypeOK, AppInv
      <4> QED BY <4>1, <4>2, <4>3, <4>4 DEF AppInv
    <3> QED BY <3>3, <3>4
  <2>3. CASE ~(device = "whole" /\ payload[a] = "none")
    <3>1. /\ at' \in [App -> [Thread -> Place]] /\ at'[a][t] = "loaded"
          /\ \A b \in App, u \in Thread : <<b, u>> # <<a, t>> => at'[b][u] = at[b][u]
      BY <2>1, <2>3, Moves DEF Place
    <3>2. payload' = payload /\ (device = "whole" => payload[a] = "loaded")
      BY <2>1, <2>3 DEF AppTypeOK
    <3>3. AppTypeOK'
      BY <2>1, <3>1, <3>2 DEF AppTypeOK
    <3>4. AppInv'
      <4>1. ASSUME NEW b \in App, NEW u \in Thread PROVE ThreadKnows(b, u)'
        <5>1. CASE b = a /\ u = t
          BY <2>1, <3>1, <3>2, <5>1 DEF AppTypeOK, AppInv, ThreadKnows
        <5>2. CASE <<b, u>> # <<a, t>>
          <6>1. at'[b][u] = at[b][u] /\ ThreadKnows(b, u)
            BY <2>1, <3>1, <3>2, <5>2 DEF AppInv
          <6> QED
            BY <2>1, <3>1, <3>2, <5>2, <6>1 DEF AppTypeOK, AppInv, ThreadKnows
        <5> QED BY <5>1, <5>2
      <4>2. \A b \in App : payload'[b] # "none" => device' = "whole"
        BY <2>1, <3>1, <3>2 DEF AppTypeOK, AppInv, ThreadKnows
      <4>3. \A b \in App : device' = "whole" /\ hookOnce'[b] => OnItsWay(b)'
        BY <2>1, <3>1, <3>2 DEF AppTypeOK, AppInv, OnItsWay
      <4>4. \A b \in read' : hookOnce'[b]
        BY <2>1, <3>1, <3>2 DEF AppTypeOK, AppInv
      <4> QED BY <4>1, <4>2, <4>3, <4>4 DEF AppInv
    <3> QED BY <3>3, <3>4
  <2> QED BY <2>2, <2>3
<1>8. ASSUME NEW a \in App, NEW t \in Thread, InitEnds(a, t)
      PROVE  AppTypeOK' /\ AppInv'
  <2>1. /\ forked[a] = "hooked" /\ at[a][t] = "init" /\ To(a, t, "loaded")
        /\ payload' = [payload EXCEPT ![a] = "loaded"]
        /\ UNCHANGED <<device, forked, hookOnce, file, read>>
    BY <1>8 DEF InitEnds
  <2>2. /\ at' \in [App -> [Thread -> Place]] /\ at'[a][t] = "loaded"
        /\ \A b \in App, u \in Thread : <<b, u>> # <<a, t>> => at'[b][u] = at[b][u]
    BY <2>1, Moves DEF Place
  <2>3. hookOnce[a] /\ device = "whole"
    BY <2>1 DEF AppInv, ThreadKnows
  <2>4. /\ payload' \in [App -> {"none", "loading", "loaded"}] /\ payload'[a] = "loaded"
        /\ \A b \in App : b # a => payload'[b] = payload[b]
    BY <2>1 DEF AppTypeOK
  <2>5. AppTypeOK'
    BY <2>1, <2>2, <2>3, <2>4 DEF AppTypeOK
  <2>6. AppInv'
    <3>1. ASSUME NEW b \in App, NEW u \in Thread PROVE ThreadKnows(b, u)'
      <4>1. CASE b = a /\ u = t
        BY <2>1, <2>2, <2>3, <2>4, <4>1 DEF AppTypeOK, AppInv, ThreadKnows
      <4>2. CASE <<b, u>> # <<a, t>>
        <5>1. at'[b][u] = at[b][u] /\ ThreadKnows(b, u)
          BY <2>1, <2>2, <2>3, <2>4, <4>2 DEF AppInv
        <5> QED
          BY <2>1, <2>2, <2>3, <2>4, <4>2, <5>1 DEF AppTypeOK, AppInv, ThreadKnows
      <4> QED BY <4>1, <4>2
    <3>2. \A b \in App : payload'[b] # "none" => device' = "whole"
      BY <2>1, <2>2, <2>3, <2>4 DEF AppTypeOK, AppInv, ThreadKnows
    <3>3. \A b \in App : device' = "whole" /\ hookOnce'[b] => OnItsWay(b)'
      BY <2>1, <2>2, <2>3, <2>4 DEF AppTypeOK, AppInv, OnItsWay
    <3>4. \A b \in read' : hookOnce'[b]
      BY <2>1, <2>2, <2>3, <2>4 DEF AppTypeOK, AppInv
    <3> QED BY <3>1, <3>2, <3>3, <3>4 DEF AppInv
  <2> QED BY <2>5, <2>6
<1>9. ASSUME NEW a \in App, NEW t \in Thread, InitHangs(a, t)
      PROVE  AppTypeOK' /\ AppInv'
  <2>1. /\ at[a][t] = "init" /\ To(a, t, "hung")
        /\ UNCHANGED <<device, forked, hookOnce, payload, file, read>>
    BY <1>9 DEF InitHangs
  <2>2. /\ at' \in [App -> [Thread -> Place]] /\ at'[a][t] = "hung"
        /\ \A b \in App, u \in Thread : <<b, u>> # <<a, t>> => at'[b][u] = at[b][u]
    BY <2>1, Moves DEF Place
  <2>3. AppTypeOK'
    BY <2>1, <2>2 DEF AppTypeOK
  <2>4. AppInv'
    BY <2>1, <2>2 DEF AppInv, ThreadKnows, OnItsWay
  <2> QED BY <2>3, <2>4
<1>10. ASSUME NEW a \in App, NEW t \in Thread, Open(a, t)
       PROVE  AppTypeOK' /\ AppInv'
  <2>1. /\ at[a][t] \in {"open", "loaded"} /\ To(a, t, "out")
        /\ read' = IF file[a][t] = "clientdata" THEN read \cup {a} ELSE read
        /\ file' = [file EXCEPT ![a][t] = "other"]
        /\ UNCHANGED <<device, forked, hookOnce, payload>>
    BY <1>10 DEF Open
  <2>2. /\ at' \in [App -> [Thread -> Place]] /\ at'[a][t] = "out"
        /\ \A b \in App, u \in Thread : <<b, u>> # <<a, t>> => at'[b][u] = at[b][u]
    BY <2>1, Moves DEF Place
  <2>3. /\ file' \in [App -> [Thread -> {"clientdata", "other"}]]
        /\ \A b \in App, u \in Thread : <<b, u>> # <<a, t>> => file'[b][u] = file[b][u]
    BY <2>1 DEF AppTypeOK
  <2>5. AppTypeOK'
    BY <2>1, <2>2, <2>3 DEF AppTypeOK
  <2>6. AppInv'
    <3>1. ASSUME NEW b \in App, NEW u \in Thread PROVE ThreadKnows(b, u)'
      <4>1. CASE b = a /\ u = t
        BY <2>1, <2>2, <2>3, <4>1 DEF AppTypeOK, AppInv, ThreadKnows
      <4>2. CASE <<b, u>> # <<a, t>>
        <5>1. at'[b][u] = at[b][u] /\ ThreadKnows(b, u)
          BY <2>1, <2>2, <2>3, <4>2 DEF AppInv
        <5> QED
          BY <2>1, <2>2, <2>3, <4>2, <5>1 DEF AppTypeOK, AppInv, ThreadKnows
      <4> QED BY <4>1, <4>2
    <3>2. \A b \in App : payload'[b] # "none" => device' = "whole"
      BY <2>1, <2>2, <2>3 DEF AppInv
    <3>3. \A b \in App : device' = "whole" /\ hookOnce'[b] => OnItsWay(b)'
      BY <2>1, <2>2, <2>3 DEF AppInv, OnItsWay
    <3>4. \A b \in read' : hookOnce'[b]
      BY <2>1, <2>2, <2>3 DEF AppInv, ThreadKnows
    <3> QED BY <3>1, <3>2, <3>3, <3>4 DEF AppInv
  <2> QED BY <2>5, <2>6
<1> QED
  BY <1>1, <1>2, <1>3, <1>4, <1>5, <1>6, <1>7, <1>8, <1>9, <1>10 DEF LoaderNext, Step, vars

LEMMA AppAlways == LoaderSpec => [](AppTypeOK /\ AppInv)
<1>1. LoaderInit => AppTypeOK /\ AppInv
  BY AppStart DEF LoaderInit
<1> QED
  BY <1>1, AppStep, PTL DEF LoaderSpec

(* Every variable keeps its type, fopen is hooked at most once, and only a *)
(* hooked process has the payload.                                         *)
THEOREM LoaderTypeCorrect == LoaderSpec => []LoaderTypeOK
<1>1. BootInv /\ AppTypeOK => LoaderTypeOK
  BY DEF BootInv, AppTypeOK, LoaderTypeOK, Place
<1> QED
  BY <1>1, BootAlways, AppAlways, PTL

(* On a device that has all it takes, with any number of threads opening   *)
(* files at once, no game reads its client data before a thread has set    *)
(* out for the payload, which then has it or is still on its way.          *)
THEOREM ReadWithPayloadAlways == LoaderSpec => []ReadWithPayload
<1>1. AppTypeOK /\ AppInv => ReadWithPayload
  BY DEF AppTypeOK, AppInv, OnItsWay, ReadWithPayload
<1> QED
  BY <1>1, AppAlways, PTL
=============================================================================
