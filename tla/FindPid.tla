------------------------------ MODULE FindPid ------------------------------
(***************************************************************************)
(* find_pid_of (bootstrap.c): the process whose cmdline is "zygote", found *)
(* by reading /proc while processes are forked, renamed and end.  One      *)
(* buffer serves for all cmdlines, and fgets leaves it as it was when      *)
(* there is nothing to read: a kernel thread, or a process that has ended. *)
(***************************************************************************)
EXTENDS Integers, FiniteSetsExt

CONSTANTS
  MaxPid,  \* bound: the largest pid; 1 is init
  Zygote   \* the zygote's pid

ASSUME PidAssumption == MaxPid \in Nat /\ Zygote \in 2..MaxPid

Others == 2..MaxPid \ {Zygote}

VARIABLES
  name,     \* each pid's cmdline: "" of a kernel thread, "gone" for no process
  id,       \* the entry of /proc at hand
  cmdline,  \* the buffer
  pid,      \* the result
  fpc,      \* where find_pid_of is
  matched   \* the pids whose own cmdline was read as "zygote" (history)

findVars == <<name, id, cmdline, pid, fpc, matched>>

(* The buffer starts with whatever is on the stack. *)
FindInit ==
  /\ \E n \in [Others -> {"app", "", "gone"}] :
       name = [p \in 1..MaxPid |->
                 IF p = 1 THEN "init" ELSE IF p = Zygote THEN "zygote" ELSE n[p]]
  /\ id = 0 /\ cmdline \in {"junk", "zygote"} /\ pid = -1
  /\ fpc = "readdir" /\ matched = {}

-----------------------------------------------------------------------------
(* /proc is listed in the order of pids, as it is at each readdir. *)
Listed == {p \in (id + 1)..MaxPid : name[p] # "gone"}

ReadDir ==
  /\ fpc = "readdir"
  /\ IF Listed = {} THEN fpc' = "done" /\ UNCHANGED id
     ELSE fpc' = "open" /\ id' = Min(Listed)
  /\ UNCHANGED <<name, cmdline, pid, matched>>

Open ==
  /\ fpc = "open" /\ fpc' = IF name[id] = "gone" THEN "readdir" ELSE "gets"
  /\ UNCHANGED <<name, id, cmdline, pid, matched>>

(* fgets, whose result is not looked at. *)
Gets ==
  /\ fpc = "gets" /\ fpc' = "compare"
  /\ cmdline' = IF name[id] \in {"", "gone"} THEN cmdline ELSE name[id]
  /\ matched' = IF name[id] = "zygote" THEN matched \cup {id} ELSE matched
  /\ UNCHANGED <<name, id, pid>>

(* Mutant of Compare: the loop goes on after the match. *)
CompareGoesOn ==
  /\ fpc = "compare" /\ fpc' = "readdir"
  /\ pid' = IF cmdline = "zygote" THEN id ELSE pid
  /\ UNCHANGED <<name, id, cmdline, matched>>

Compare ==
  /\ fpc = "compare"
  /\ IF cmdline = "zygote" THEN pid' = id /\ fpc' = "done"
     ELSE fpc' = "readdir" /\ UNCHANGED pid
  /\ UNCHANGED <<name, id, cmdline, matched>>

(* Meanwhile: a child of the zygote bears its name until it is given its   *)
(* own; any process but init may end.                                      *)
Become(p, from, to) ==
  /\ fpc # "done" /\ name[p] \in from /\ name' = [name EXCEPT ![p] = to]
  /\ UNCHANGED <<id, cmdline, pid, fpc, matched>>

Fork   == name[Zygote] = "zygote" /\ \E p \in Others : Become(p, {"gone"}, "zygote")
Rename == \E p \in Others : Become(p, {"zygote"}, "app")
Exit   == \E p \in 2..MaxPid : Become(p, {"zygote", "app", ""}, "gone")

FindNext == ReadDir \/ Open \/ Gets \/ Compare \/ Fork \/ Rename \/ Exit

-----------------------------------------------------------------------------
(* Correctness *)

(* Although text of an earlier process stays in the buffer, the process    *)
(* found is one that called itself zygote when it was read; a zygote that  *)
(* is there all the time is found, or a child of it that has a lower pid.  *)
FindsZygote ==
  fpc = "done" =>
    /\ pid # -1 => pid \in matched
    /\ name[Zygote] = "zygote" => pid \in 2..Zygote
=============================================================================
