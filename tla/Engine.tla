------------------------------- MODULE Engine -------------------------------
(***************************************************************************)
(* engine.cpp: Engine::init brings the client up, then every frame of the  *)
(* game calls Engine::tick, which handles the server's commands and, unless*)
(* paused, runs the scripts.  What the ticks themselves do is in Ticks.    *)
(*                                                                         *)
(* Three actors share gconfig: the thread that runs Engine::init (the one  *)
(* that opened clientdata.json), the game thread in its main loop, and     *)
(* net.cpp's loop thread, whose on_close pauses the engine and exits.  The *)
(* network is the queue Inbox describes; Net shows how it is made.         *)
(*                                                                         *)
(* A command is its cmd and what its parms decide; the timestamp a config  *)
(* carries is its position among the commands, so that it is unique.       *)
(***************************************************************************)
EXTENDS Integers, Sequences

CONSTANTS
  MaxCommands,       \* bound: commands the server sends
  InitOnGameThread   \* Engine::init and the main loop are on one thread

ASSUME EngineAssumption == MaxCommands \in Nat /\ InitOnGameThread \in BOOLEAN

(* on_control's paused: 0, 1 and -1.  on_config's config: JSON of a table, *)
(* JSON of something else, and text that does not parse.                   *)
Command ==
  [cmd : {"control"}, arg : {"start", "stop", "query"}]
    \cup [cmd : {"config"}, arg : {"table", "scalar", "broken"}]
    \cup [cmd : {"unknown"}, arg : {"none"}]

(* What update_config tells on_config of each config: its return value, 0  *)
(* for a success and -1 for a failure, and the errmsg it leaves.           *)
Outcome ==
  [table  |-> [succeed |-> 0,  errmsg |-> "empty"],
   scalar |-> [succeed |-> -1, errmsg |-> "not a table"],
   broken |-> [succeed |-> -1, errmsg |-> "from Lua"]]
Outcomes == {Outcome[c] : c \in DOMAIN Outcome}

VARIABLES
  stage,      \* the step Engine::init takes next, or how it ended
  link,       \* the connection: none, up, lost (gnet.client NULL), closed
  running,    \* the process runs
  sent,       \* commands the server has sent (history)
  delivered,  \* commands Net::recv has returned (history)
  done,       \* how many of them checkEvent has finished with
  gpc,        \* where the game thread is in Engine::tick
  paused,     \* gconfig.is_paused, as a truth value
  conf,       \* Lua's GConfig: the config it was set from, 0 before any
  outcome,    \* on_config's locals succeed and errmsg
  acks,       \* config.ack messages sent, of each the config and parms
  login,      \* the login message has been sent
  synced      \* a sync message has been sent

initVars == <<stage, login>>
netVars  == <<link, running>>
boxVars  == <<sent, delivered>>
confVars == <<conf, outcome, acks>>
vars == <<stage, link, running, sent, delivered, done, gpc, paused, conf,
          outcome, acks, login, synced>>

Box == INSTANCE Inbox WITH Packet <- Command

Init ==
  /\ stage = "token" /\ login = FALSE
  /\ link = "none" /\ running = TRUE
  /\ Box!Init
  /\ done = 0 /\ gpc = "idle"
  /\ paused = FALSE
  /\ conf = 0 /\ outcome = Outcome.table /\ acks = <<>>
  /\ synced = FALSE

-----------------------------------------------------------------------------
(* Engine::init. *)

InitAt(s) == running /\ stage = s

(* The first call that fails ends Engine::init; nothing is undone. *)
InitFails ==
  /\ running /\ stage \in {"token", "config", "net", "lua"}
  /\ stage' = "failed"
  /\ UNCHANGED <<netVars, boxVars, done, gpc, paused, confVars, login, synced>>

OpenToken ==
  /\ InitAt("token") /\ stage' = "config"
  /\ UNCHANGED <<netVars, boxVars, done, gpc, paused, confVars, login, synced>>

(* Mutant of OpenConfig: is_paused keeps its initial 0. *)
OpenConfigRunning ==
  /\ InitAt("config") /\ stage' = "handler"
  /\ UNCHANGED <<netVars, boxVars, done, gpc, paused, confVars, login, synced>>

(* parse_config: paused until the client starts it. *)
OpenConfig ==
  /\ InitAt("config") /\ stage' = "handler"
  /\ paused' = TRUE
  /\ UNCHANGED <<netVars, boxVars, done, gpc, confVars, login, synced>>

OpenHander ==
  /\ InitAt("handler") /\ stage' = "net"
  /\ UNCHANGED <<netVars, boxVars, done, gpc, paused, confVars, login, synced>>

(* Net::init returns 0: from here on the loop thread runs too. *)
OpenNet ==
  /\ InitAt("net") /\ stage' = "lua"
  /\ link' = "up"
  /\ UNCHANGED <<running, boxVars, done, gpc, paused, confVars, login, synced>>

OpenLua ==
  /\ InitAt("lua") /\ stage' = "hook"
  /\ UNCHANGED <<netVars, boxVars, done, gpc, paused, confVars, login, synced>>

(* open_tick hooks the main loop: its next frame calls Engine::tick. *)
OpenTick ==
  /\ InitAt("hook") /\ stage' = "login"
  /\ UNCHANGED <<netVars, boxVars, done, gpc, paused, confVars, login, synced>>

(* Engine::login; Net::send sends nothing once the connection is lost. *)
Login ==
  /\ InitAt("login") /\ stage' = "done"
  /\ login' = (link = "up")
  /\ UNCHANGED <<netVars, boxVars, done, gpc, paused, confVars, synced>>

-----------------------------------------------------------------------------
(* The server and the loop thread. *)

ServerSend(c) ==
  /\ running /\ link = "up" /\ Len(sent) < MaxCommands
  /\ Box!Send(c)
  /\ UNCHANGED <<initVars, netVars, done, gpc, paused, confVars, synced>>

(* on_read or on_write: gnet.client = NULL. *)
Lose ==
  /\ running /\ link = "up" /\ link' = "lost"
  /\ UNCHANGED <<initVars, running, boxVars, done, gpc, paused, confVars, synced>>

(* on_close: Engine::paused(1), ... *)
OnClose ==
  /\ running /\ link = "lost" /\ link' = "closed"
  /\ paused' = TRUE
  /\ UNCHANGED <<initVars, running, boxVars, done, gpc, confVars, synced>>

(* ... then exit(0).  Net also shows that the process may die before.  *)
Exit ==
  /\ running /\ link \in {"lost", "closed"}
  /\ running' = FALSE
  /\ UNCHANGED <<initVars, link, boxVars, done, gpc, paused, confVars, synced>>

-----------------------------------------------------------------------------
(* Engine::tick, on the game thread. *)

GameAt(p) == running /\ gpc = p

(* The hook is called once it is installed; on the thread of Engine::init, *)
(* not before that returns.                                                *)
Hooked == stage = "done" \/ (stage = "login" /\ ~InitOnGameThread)

TickStart ==
  /\ GameAt("idle") /\ Hooked
  /\ gpc' = "recv"
  /\ UNCHANGED <<initVars, netVars, boxVars, done, paused, confVars, synced>>

(* checkEvent calls Net::recv; a lost connection returns nothing. *)
Recv(n) ==
  /\ GameAt("recv")
  /\ IF link = "up" THEN Box!Deliver(n) ELSE UNCHANGED boxVars
  /\ gpc' = "handle"
  /\ UNCHANGED <<initVars, netVars, done, paused, confVars, synced>>

(* handleEvent on the next packet of the batch. *)
Current == delivered[done + 1]
Handling(c) == GameAt("handle") /\ done < Len(delivered) /\ Current.cmd = c

(* Mutant of HandleControl: the value is taken for "run". *)
HandleControlInverted ==
  /\ Handling("control")
  /\ paused' = IF Current.arg = "query" THEN paused ELSE Current.arg = "start"
  /\ done' = done + 1
  /\ UNCHANGED <<initVars, netVars, boxVars, gpc, confVars, synced>>

(* on_control: Engine::paused(op), which takes -1 for a question. *)
HandleControl ==
  /\ Handling("control")
  /\ paused' = IF Current.arg = "query" THEN paused ELSE Current.arg = "stop"
  /\ done' = done + 1
  /\ UNCHANGED <<initVars, netVars, boxVars, gpc, confVars, synced>>

(* A cmd without a handler is passed over. *)
HandleUnknown ==
  /\ Handling("unknown")
  /\ done' = done + 1
  /\ UNCHANGED <<initVars, netVars, boxVars, gpc, paused, confVars, synced>>

(* Mutant of UpdateConfig: GConfig is set before the result is looked at. *)
UpdateConfigAlways ==
  /\ Handling("config")
  /\ outcome' = Outcome[Current.arg]
  /\ conf' = done + 1
  /\ gpc' = "ack"
  /\ UNCHANGED <<initVars, netVars, boxVars, done, paused, acks, synced>>

(* Mutant of UpdateConfig: on_config returns on an error, without an ack. *)
UpdateConfigReturns ==
  /\ Handling("config")
  /\ outcome' = Outcome[Current.arg]
  /\ conf' = IF Current.arg = "table" THEN done + 1 ELSE conf
  /\ gpc' = IF Current.arg = "table" THEN "ack" ELSE "handle"
  /\ done' = IF Current.arg = "table" THEN done ELSE done + 1
  /\ UNCHANGED <<initVars, netVars, boxVars, paused, acks, synced>>

(* on_config, first half: update_config sets GConfig to a table it could   *)
(* decode and returns 0; otherwise it leaves GConfig alone, says why and   *)
(* returns -1.                                                             *)
UpdateConfig ==
  /\ Handling("config")
  /\ outcome' = Outcome[Current.arg]
  /\ conf' = IF Current.arg = "table" THEN done + 1 ELSE conf
  /\ gpc' = "ack"
  /\ UNCHANGED <<initVars, netVars, boxVars, done, paused, acks, synced>>

(* The message config_ack makes: parms' timestamp, succeed and errmsg.     *)
Ack == [of |-> done + 1, succeed |-> outcome.succeed,
        errmsg |-> outcome.errmsg]

(* Mutant of ConfigAck: succeed is sent as the truth value of its name.    *)
ConfigAckBoolean ==
  /\ GameAt("ack")
  /\ acks' = IF link = "up"
               THEN Append(acks, [Ack EXCEPT !.succeed = IF @ = 0 THEN 1 ELSE 0])
               ELSE acks
  /\ done' = done + 1 /\ gpc' = "handle"
  /\ UNCHANGED <<initVars, netVars, boxVars, paused, conf, outcome, synced>>

(* on_config, second half: config_ack sends the return value of            *)
(* update_config as it is, and nothing if the connection is lost.          *)
ConfigAck ==
  /\ GameAt("ack")
  /\ acks' = IF link = "up" THEN Append(acks, Ack) ELSE acks
  /\ done' = done + 1 /\ gpc' = "handle"
  /\ UNCHANGED <<initVars, netVars, boxVars, paused, conf, outcome, synced>>

(* Mutant of Gate: one packet for each tick, the rest of the batch lost. *)
GateDropsRest ==
  /\ GameAt("handle")
  /\ done' = Len(delivered)
  /\ gpc' = IF paused THEN "idle" ELSE "ticks"
  /\ UNCHANGED <<initVars, netVars, boxVars, paused, confVars, synced>>

(* The batch is empty: Engine::tick looks at is_paused, once. *)
Gate ==
  /\ GameAt("handle") /\ done = Len(delivered)
  /\ gpc' = IF paused THEN "idle" ELSE "ticks"
  /\ UNCHANGED <<initVars, netVars, boxVars, done, paused, confVars, synced>>

(* guard_tick, main_tick and sync_tick; the last may send. *)
RunTicks ==
  /\ GameAt("ticks") /\ gpc' = "idle"
  /\ synced' \in {synced, synced \/ link = "up"}
  /\ UNCHANGED <<initVars, netVars, boxVars, done, paused, confVars>>

-----------------------------------------------------------------------------
EngineInit ==
  \/ InitFails \/ OpenToken \/ OpenConfig \/ OpenHander \/ OpenNet
  \/ OpenLua \/ OpenTick \/ Login

Tick ==
  \/ TickStart
  \/ \E n \in Len(delivered)..Len(sent) : Recv(n)
  \/ HandleControl \/ HandleUnknown \/ UpdateConfig \/ ConfigAck
  \/ Gate \/ RunTicks

Network == (\E c \in Command : ServerSend(c)) \/ Lose \/ OnClose \/ Exit

Next == EngineInit \/ Tick \/ Network

(* Engine::init goes on, the game keeps drawing frames, a tick ends, and a *)
(* command sent is one day among those Net::recv returns, which is what    *)
(* Net's EverythingDelivered says.                                         *)
Fairness ==
  /\ WF_vars(EngineInit)
  /\ WF_vars(Tick)
  /\ SF_vars(\E n \in (Len(delivered) + 1)..Len(sent) : Recv(n))

Spec == Init /\ [][Next]_vars
FairSpec == Spec /\ Fairness

-----------------------------------------------------------------------------
(* Correctness *)

Acks == [of : Nat, succeed : {0, -1},
         errmsg : {Outcome[c].errmsg : c \in DOMAIN Outcome}]

TypeOK ==
  /\ stage \in {"token", "config", "handler", "net", "lua", "hook", "login",
                "done", "failed"}
  /\ link \in {"none", "up", "lost", "closed"}
  /\ running \in BOOLEAN
  /\ sent \in Seq(Command) /\ delivered \in Seq(Command)
  /\ done \in 0..Len(delivered)
  /\ gpc \in {"idle", "recv", "handle", "ack", "ticks"}
  /\ paused \in BOOLEAN
  /\ conf \in Nat /\ outcome \in Outcomes
  /\ acks \in Seq(Acks)
  /\ login \in BOOLEAN /\ synced \in BOOLEAN

Starts(k) == sent[k].cmd = "control" /\ sent[k].arg = "start"
Stops(k)  == sent[k].cmd = "control" /\ sent[k].arg = "stop"

(* Among the commands handled so far, the last to say so said start. *)
Started ==
  \E k \in 1..done : Starts(k) /\ \A j \in 1..done : j > k => ~Stops(j)

(* The scripts run in a tick only if the last word of the server, the      *)
(* batch handled in this very tick included, was start: the engine is      *)
(* paused by default and started by the client (engine.cpp:39).            *)
OnlyIfStarted == gpc = "ticks" => Started

(* Conversely, until on_close pauses it, an engine told to start is not    *)
(* paused: no other command, failed config or tick pauses it.              *)
StartObeyed == Started /\ link \in {"up", "lost"} => ~paused

IsConfig(k) == sent[k].cmd = "config"
Accepted(k) == IsConfig(k) /\ sent[k].arg = "table"

(* The configs update_config has seen. *)
Applied == IF gpc = "ack" THEN 1..(done + 1) ELSE 1..done

(* The scripts see the last config that was accepted: a later one that is  *)
(* refused does not disturb it.                                            *)
ConfigIsLastAccepted ==
  /\ conf = 0 \/ (conf \in Applied /\ Accepted(conf))
  /\ \A k \in Applied : Accepted(k) => k <= conf

(* Acks come in the order of the configs, one for each, and tell its fate: *)
(* the number under "succeed" is 0 for a config that was accepted, -1 for  *)
(* one that was refused (so that read as a truth value it says the         *)
(* opposite), and errmsg is empty for the first only.                      *)
AcksTruthful ==
  /\ \A i \in 1..Len(acks) :
       /\ acks[i].of \in 1..done /\ IsConfig(acks[i].of)
       /\ acks[i].succeed = IF Accepted(acks[i].of) THEN 0 ELSE -1
       /\ acks[i].errmsg = "empty" <=> Accepted(acks[i].of)
  /\ \A i, j \in 1..Len(acks) : i < j => acks[i].of < acks[j].of

Acked(k) == \E i \in 1..Len(acks) : acks[i].of = k

(* While the connection stands, no config is handled without an ack. *)
NoneUnacked == link = "up" => \A k \in 1..done : IsConfig(k) => Acked(k)

(* When Engine::init runs on the game thread, the server hears of the      *)
(* client's login before any ack or sync.                                  *)
LoginFirst == InitOnGameThread => (acks # <<>> \/ synced => login)

(* Once up, a config is answered unless the connection is lost or          *)
(* Engine::init fails: no command is left in a batch.                      *)
ConfigAcked ==
  \A k \in 1..MaxCommands :
    Len(sent) >= k /\ IsConfig(k) ~> (Acked(k) \/ link # "up" \/ stage = "failed")

(* A start that no stop follows makes the scripts run. *)
StartRuns ==
  \A k \in 1..MaxCommands :
    Len(sent) >= k /\ Starts(k) ~>
      \/ gpc = "ticks" \/ link # "up" \/ stage = "failed"
      \/ \E j \in (k + 1)..Len(sent) : Stops(j)
=============================================================================
