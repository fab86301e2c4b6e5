---------------------------- MODULE EngineProofs ----------------------------
(***************************************************************************)
(* Proofs about Engine, for any number of commands and either threading,   *)
(* and about Ticks, for every configuration and width that fit in          *)
(* TicksAssumption.                                                        *)
(***************************************************************************)
EXTENDS Engine, Ticks, SequenceTheorems, TLAPS

-----------------------------------------------------------------------------
(* The queue: types, what was delivered is a prefix of what was sent, and  *)
(* what on_config is in the middle of.                                     *)

Prefix ==
  /\ Len(delivered) <= Len(sent)
  /\ \A k \in 1..Len(delivered) : delivered[k] = sent[k]

Pending ==
  gpc = "ack" => /\ done + 1 \in 1..Len(delivered)
                 /\ IsConfig(done + 1)
                 /\ outcome = Outcome[sent[done + 1].arg]

QueueInv == TypeOK /\ Prefix /\ Pending

(* What was sent stays. *)
LEMMA SentStays ==
  ASSUME TypeOK, [Next]_vars
  PROVE  /\ sent' \in Seq(Command)
         /\ Len(sent) <= Len(sent')
         /\ \A k \in 1..Len(sent) : sent'[k] = sent[k]
<1>1. sent \in Seq(Command) /\ Len(sent) \in Nat
  BY DEF TypeOK
<1>2. ASSUME NEW c \in Command, sent' = Append(sent, c)
      PROVE  /\ sent' \in Seq(Command)
             /\ Len(sent) <= Len(sent')
             /\ \A k \in 1..Len(sent) : sent'[k] = sent[k]
  BY <1>1, <1>2, AppendProperties
<1>3. sent' = sent \/ \E c \in Command : sent' = Append(sent, c)
  <2>1. CASE EngineInit
    BY <2>1 DEF EngineInit, InitFails, OpenToken, OpenConfig, OpenHander, OpenNet,
           OpenLua, OpenTick, Login, boxVars
  <2>2. CASE Tick
    BY <2>2 DEF Tick, TickStart, Recv, HandleControl, HandleUnknown,
           UpdateConfig, ConfigAck, Gate, RunTicks, boxVars, Box!Deliver
  <2>3. CASE Network
    BY <2>3 DEF Network, ServerSend, Lose, OnClose, Exit, boxVars, Box!Send
  <2>4. CASE UNCHANGED vars
    BY <2>4 DEF vars
  <2> QED
    BY <2>1, <2>2, <2>3, <2>4 DEF Next
<1> QED
  BY <1>1, <1>2, <1>3

(* One call of Net::recv. *)
LEMMA Delivery ==
  ASSUME TypeOK, NEW n \in Len(delivered)..Len(sent), Box!Deliver(n)
  PROVE  /\ delivered' \in Seq(Command)
         /\ Len(delivered') = n
         /\ \A k \in 1..n : delivered'[k] = sent[k]
<1>1. /\ sent \in Seq(Command) /\ delivered \in Seq(Command)
      /\ n \in Nat /\ n <= Len(sent) /\ delivered' = SubSeq(sent, 1, n)
  BY DEF TypeOK, Box!Deliver
<1>2. \A k \in 1..n : sent[k] \in Command
  BY <1>1, ElementOfSeq
<1>3. /\ SubSeq(sent, 1, n) \in Seq(Command)
      /\ Len(SubSeq(sent, 1, n)) = IF 1 <= n THEN n - 1 + 1 ELSE 0
      /\ \A k \in 1..(n - 1 + 1) : SubSeq(sent, 1, n)[k] = sent[1 + k - 1]
  BY <1>1, <1>2, SubSeqProperties
<1> QED
  BY <1>1, <1>3

(* The command being handled is the next one the server sent. *)
LEMMA CurrentIsNext ==
  ASSUME QueueInv, done < Len(delivered)
  PROVE  /\ done + 1 \in 1..Len(delivered) /\ done + 1 \in 1..Len(sent)
         /\ Current = sent[done + 1] /\ Current \in Command
<1>1. /\ done \in Nat /\ Len(delivered) \in Nat /\ Len(sent) \in Nat
      /\ delivered \in Seq(Command)
  BY DEF QueueInv, TypeOK
<1>2. done + 1 \in 1..Len(delivered) /\ done + 1 \in 1..Len(sent)
  BY <1>1 DEF QueueInv, Prefix
<1> QED
  BY <1>1, <1>2, ElementOfSeq DEF QueueInv, Prefix, Current

LEMMA OutcomeFields ==
  /\ Outcome["table"].succeed = 0 /\ Outcome["table"].errmsg = "empty"
  /\ Outcome["scalar"].succeed = -1 /\ Outcome["scalar"].errmsg = "not a table"
  /\ Outcome["broken"].succeed = -1 /\ Outcome["broken"].errmsg = "from Lua"
<1>1. Outcome["table"] = [succeed |-> 0, errmsg |-> "empty"]
  BY DEF Outcome
<1>2. Outcome["scalar"] = [succeed |-> -1, errmsg |-> "not a table"]
  BY DEF Outcome
<1>3. Outcome["broken"] = [succeed |-> -1, errmsg |-> "from Lua"]
  BY DEF Outcome
<1>4. Outcome["table"].succeed = 0 /\ Outcome["table"].errmsg = "empty"
  BY <1>1
<1>5. ASSUME NEW x
      PROVE  /\ [succeed |-> x, errmsg |-> "not a table"].succeed = x
             /\ [succeed |-> x, errmsg |-> "not a table"].errmsg = "not a table"
             /\ [succeed |-> x, errmsg |-> "from Lua"].succeed = x
             /\ [succeed |-> x, errmsg |-> "from Lua"].errmsg = "from Lua"
  OBVIOUS
<1>6. /\ [succeed |-> -1, errmsg |-> "not a table"].succeed = -1
      /\ [succeed |-> -1, errmsg |-> "not a table"].errmsg = "not a table"
      /\ [succeed |-> -1, errmsg |-> "from Lua"].succeed = -1
      /\ [succeed |-> -1, errmsg |-> "from Lua"].errmsg = "from Lua"
  BY <1>5, Zenon
<1> QED
  BY <1>2, <1>3, <1>4, <1>6, Zenon

LEMMA AckTyped ==
  ASSUME QueueInv
  PROVE  Ack \in Acks
<1>1. PICK c \in {"table", "scalar", "broken"} : outcome = Outcome[c]
  BY DEF QueueInv, TypeOK, Outcomes, Outcome
<1>2. outcome.succeed \in {0, -1}
  BY <1>1, OutcomeFields
<1>3. outcome.errmsg \in {Outcome[d].errmsg : d \in DOMAIN Outcome}
  BY <1>1 DEF Outcome
<1>4. done + 1 \in Nat
  BY DEF QueueInv, TypeOK
<1> QED
  BY <1>2, <1>3, <1>4 DEF Ack, Acks

LEMMA QueueStep == QueueInv /\ [Next]_vars => QueueInv'
<1> SUFFICES ASSUME QueueInv, [Next]_vars PROVE QueueInv'
  OBVIOUS
<1>s. /\ sent' \in Seq(Command) /\ Len(sent) <= Len(sent')
      /\ \A k \in 1..Len(sent) : sent'[k] = sent[k]
  BY SentStays DEF QueueInv
<1>t. /\ TypeOK /\ Prefix /\ Pending
      /\ sent \in Seq(Command) /\ delivered \in Seq(Command)
      /\ Len(sent) \in Nat /\ Len(delivered) \in Nat
      /\ done \in Nat /\ done <= Len(delivered)
  BY DEF QueueInv, TypeOK
<1>u. ASSUME delivered' = delivered PROVE Prefix'
  <2>1. Len(sent') \in Nat
    BY <1>s
  <2>2. ASSUME NEW k \in 1..Len(delivered) PROVE delivered[k] = sent'[k]
    BY <1>s, <1>t DEF Prefix
  <2> QED
    BY <1>u, <1>s, <1>t, <2>1, <2>2 DEF Prefix
<1>v. ASSUME UNCHANGED <<delivered, done, gpc, outcome>> PROVE Pending'
  <2>1. \A k \in 1..Len(delivered) : sent'[k] = sent[k]
    BY <1>s, <1>t DEF Prefix
  <2> QED
    BY <1>v, <1>t, <2>1 DEF Pending, IsConfig, Accepted
<1> USE DEF InitAt, GameAt, initVars, netVars, boxVars, confVars
<1>1. CASE EngineInit
  <2>1. UNCHANGED <<sent, delivered, done, gpc, outcome>>
    BY <1>1 DEF EngineInit, InitFails, OpenToken, OpenConfig, OpenHander, OpenNet,
           OpenLua, OpenTick, Login
  <2>2. TypeOK'
    BY <1>1, <1>t DEF EngineInit, InitFails, OpenToken, OpenConfig, OpenHander,
           OpenNet, OpenLua, OpenTick, Login, TypeOK
  <2> QED
    BY <1>u, <1>v, <2>1, <2>2 DEF QueueInv
<1>2. CASE Network
  <2>1. UNCHANGED <<delivered, done, gpc, outcome>>
    BY <1>2 DEF Network, ServerSend, Lose, OnClose, Exit, Box!Send
  <2>2. /\ UNCHANGED <<stage, login, conf, outcome, acks, synced>>
        /\ link' \in {link, "lost", "closed"}
        /\ running' \in {running, FALSE} /\ paused' \in {paused, TRUE}
    BY <1>2 DEF Network, ServerSend, Lose, OnClose, Exit
  <2>3. running' \in BOOLEAN /\ paused' \in BOOLEAN
    BY <1>t, <2>2 DEF TypeOK
  <2>4. link' \in {"none", "up", "lost", "closed"}
    BY <1>t, <2>2 DEF TypeOK
  <2>5. TypeOK'
    BY <1>s, <1>t, <2>1, <2>2, <2>3, <2>4 DEF TypeOK
  <2> QED
    BY <1>u, <1>v, <2>1, <2>5 DEF QueueInv
<1>3. CASE TickStart
  <2>1. UNCHANGED <<sent, delivered, done, outcome>> /\ gpc' = "recv"
    BY <1>3 DEF TickStart
  <2>2. TypeOK'
    BY <1>3, <1>t DEF TickStart, TypeOK
  <2> QED
    BY <1>u, <2>1, <2>2 DEF QueueInv, Pending
<1>4. ASSUME NEW n \in Len(delivered)..Len(sent), Recv(n) PROVE QueueInv'
  <2>1. CASE link = "up"
    <3>1. Box!Deliver(n)
      BY <1>4, <2>1 DEF Recv
    <3>2. /\ delivered' \in Seq(Command) /\ Len(delivered') = n
          /\ \A k \in 1..n : delivered'[k] = sent[k]
      BY <1>t, <3>1, Delivery
    <3>3. sent' = sent /\ gpc' = "handle" /\ done' = done
      BY <1>4, <3>1 DEF Recv, Box!Deliver
    <3>4. n \in Nat /\ n <= Len(sent) /\ Len(delivered) <= n
      BY <1>t
    <3>5. done' \in 0..Len(delivered')
      BY <1>t, <3>2, <3>3, <3>4
    <3>6. TypeOK'
      BY <1>4, <1>t, <3>2, <3>3, <3>5 DEF Recv, TypeOK
    <3> QED
      BY <3>2, <3>3, <3>4, <3>6 DEF QueueInv, Prefix, Pending
  <2>2. CASE link # "up"
    <3>1. UNCHANGED <<sent, delivered, done>> /\ gpc' = "handle"
      BY <1>4, <2>2 DEF Recv
    <3>2. TypeOK'
      BY <1>4, <1>t, <3>1 DEF Recv, TypeOK
    <3> QED
      BY <1>u, <3>1, <3>2 DEF QueueInv, Pending
  <2> QED
    BY <2>1, <2>2
<1>5. CASE HandleControl \/ HandleUnknown
  <2>1. /\ UNCHANGED <<sent, delivered, gpc, stage, login, link, running,
                       conf, outcome, acks, synced>>
        /\ done' = done + 1 /\ done < Len(delivered) /\ gpc = "handle"
        /\ paused' \in BOOLEAN
    BY <1>5, <1>t DEF HandleControl, HandleUnknown, Handling, TypeOK
  <2>2. done' \in 0..Len(delivered)
    BY <1>t, <2>1
  <2>3. TypeOK'
    BY <1>t, <2>1, <2>2 DEF TypeOK
  <2> QED
    BY <1>u, <2>1, <2>3 DEF QueueInv, Pending
<1>6. CASE UpdateConfig
  <2>1. /\ UNCHANGED <<sent, delivered, done, stage, login, link, running,
                       paused, acks, synced>>
        /\ gpc' = "ack" /\ done < Len(delivered) /\ Current.cmd = "config"
        /\ outcome' = Outcome[Current.arg]
        /\ conf' = IF Current.arg = "table" THEN done + 1 ELSE conf
    BY <1>6 DEF UpdateConfig, Handling
  <2>2. /\ done + 1 \in 1..Len(delivered) /\ Current = sent[done + 1]
        /\ Current \in Command
    BY <2>1, CurrentIsNext
  <2>3. outcome' \in Outcomes
    BY <2>1, <2>2 DEF Command, Outcome, Outcomes
  <2>4. TypeOK'
    BY <1>t, <2>1, <2>3 DEF TypeOK
  <2> QED
    BY <1>u, <2>1, <2>4, <2>2 DEF QueueInv, Pending, IsConfig, Accepted
<1>7. CASE ConfigAck
  <2>1. /\ UNCHANGED <<sent, delivered, stage, login, link, running,
                       paused, conf, outcome, synced>>
        /\ gpc' = "handle" /\ done' = done + 1 /\ gpc = "ack"
        /\ acks' \in {acks, Append(acks, Ack)}
    BY <1>7 DEF ConfigAck
  <2>2. done' \in 0..Len(delivered)
    BY <1>t, <2>1 DEF Pending
  <2>3. acks' \in Seq(Acks)
    <3>1. acks \in Seq(Acks) /\ Ack \in Acks
      BY <1>t, AckTyped DEF TypeOK
    <3>2. Append(acks, Ack) \in Seq(Acks)
      BY <3>1, AppendProperties
    <3> QED
      BY <2>1, <3>1, <3>2
  <2>4. TypeOK'
    BY <1>t, <2>1, <2>2, <2>3 DEF TypeOK
  <2> QED
    BY <1>u, <2>1, <2>4 DEF QueueInv, Pending
<1>8. CASE Gate \/ RunTicks
  <2>1. /\ UNCHANGED <<sent, delivered, done, stage, login, link, running,
                       paused, conf, outcome, acks>>
        /\ gpc' \in {"idle", "ticks"} /\ synced' \in BOOLEAN
    BY <1>8, <1>t DEF Gate, RunTicks, TypeOK
  <2>2. TypeOK'
    BY <1>t, <2>1 DEF TypeOK
  <2> QED
    BY <1>u, <2>1, <2>2 DEF QueueInv, Pending
<1>9. CASE UNCHANGED vars
  BY <1>9, <1>u, <1>v, <1>t DEF vars, TypeOK, QueueInv
<1> QED
  BY <1>1, <1>2, <1>3, <1>4, <1>5, <1>6, <1>7, <1>8, <1>9 DEF Next, Tick

LEMMA QueueAlways == Spec => []QueueInv
<1>1. Init => QueueInv
  <2>1. /\ <<>> \in Seq(Command) /\ Len(<<>>) = 0
        /\ <<>> \in Seq(Acks)
    BY EmptySeq
  <2> SUFFICES ASSUME Init PROVE QueueInv
    OBVIOUS
  <2>2. sent = <<>> /\ delivered = <<>> /\ done = 0 /\ done \in 0..Len(delivered)
    BY <2>1 DEF Init, Box!Init
  <2>3. outcome \in Outcomes
    BY DEF Init, Outcomes, Outcome
  <2>4. TypeOK
    BY <2>1, <2>2, <2>3 DEF Init, TypeOK
  <2> QED
    BY <2>1, <2>2, <2>4 DEF Init, QueueInv, Prefix, Pending
<1> QED
  BY <1>1, QueueStep, PTL DEF Spec

-----------------------------------------------------------------------------
(* What a step does to the commands handled so far, and to Started. *)

(* A step handles no command, or the next one the server sent. *)
LEMMA DoneStep ==
  ASSUME QueueInv, [Next]_vars
  PROVE  \/ done' = done
         \/ /\ done' = done + 1 /\ done + 1 \in 1..Len(sent)
            /\ HandleControl \/ HandleUnknown \/ ConfigAck
<1> USE DEF InitAt, GameAt, boxVars
<1>1. CASE HandleControl \/ HandleUnknown
  <2>1. done' = done + 1 /\ done < Len(delivered)
    BY <1>1 DEF HandleControl, HandleUnknown, Handling
  <2> QED
    BY <1>1, <2>1, CurrentIsNext
<1>2. CASE ConfigAck
  <2>1. done' = done + 1 /\ done + 1 \in 1..Len(delivered)
    BY <1>2 DEF ConfigAck, QueueInv, Pending
  <2>2. /\ Len(delivered) \in Nat /\ Len(sent) \in Nat
        /\ Len(delivered) <= Len(sent)
    BY DEF QueueInv, TypeOK, Prefix
  <2> QED
    BY <1>2, <2>1, <2>2
<1>3. CASE EngineInit
  BY <1>3 DEF EngineInit, InitFails, OpenToken, OpenConfig, OpenHander, OpenNet,
         OpenLua, OpenTick, Login
<1>4. CASE Tick
  BY <1>1, <1>2, <1>4 DEF Tick, TickStart, Recv, UpdateConfig, Gate, RunTicks
<1>5. CASE Network
  BY <1>5 DEF Network, ServerSend, Lose, OnClose, Exit
<1>6. CASE UNCHANGED vars
  BY <1>6 DEF vars
<1> QED
  BY <1>3, <1>4, <1>5, <1>6 DEF Next

(* The commands handled stay the same commands. *)
LEMMA HandledStay ==
  ASSUME QueueInv, [Next]_vars
  PROVE  \A k \in 1..Len(sent) : /\ Starts(k)' <=> Starts(k)
                                 /\ Stops(k)' <=> Stops(k)
                                 /\ IsConfig(k)' <=> IsConfig(k)
                                 /\ Accepted(k)' = Accepted(k)
  BY SentStays DEF QueueInv, Starts, Stops, IsConfig, Accepted

LEMMA DoneInSent ==
  ASSUME QueueInv
  PROVE  done \in Nat /\ done <= Len(sent) /\ Len(sent) \in Nat
  BY DEF QueueInv, TypeOK, Prefix

LEMMA StartedSame ==
  ASSUME QueueInv, [Next]_vars, done' = done
  PROVE  Started' <=> Started
<1>1. \A k \in 1..done : (Starts(k)' <=> Starts(k)) /\ (Stops(k)' <=> Stops(k))
  BY HandledStay, DoneInSent
<1> QED
  BY <1>1 DEF Started

LEMMA StartedNext ==
  ASSUME QueueInv, [Next]_vars, done' = done + 1, done + 1 \in 1..Len(sent)
  PROVE  /\ Starts(done + 1) => Started'
         /\ Stops(done + 1) => ~Started'
         /\ ~Starts(done + 1) /\ ~Stops(done + 1) => (Started' <=> Started)
<1> DEFINE n == done + 1
<1>1. done \in Nat /\ n \in Nat /\ n > done
  BY DoneInSent
<1>2. \A k \in 1..n : (Starts(k)' <=> Starts(k)) /\ (Stops(k)' <=> Stops(k))
  BY <1>1, HandledStay, DoneInSent
<1>3. Started' <=> \E k \in 1..n : Starts(k) /\ \A j \in 1..n : j > k => ~Stops(j)
  BY <1>2 DEF Started
<1>4. ~(Starts(n) /\ Stops(n))
  BY DEF Starts, Stops
<1>5. \A k \in 1..n : k \in 1..done \/ k = n
  BY <1>1
<1>6. \A k \in 1..done : k \in 1..n /\ n > k
  BY <1>1
<1>7. n \in 1..n /\ \A j \in 1..n : ~(j > n)
  BY <1>1
<1> HIDE DEF n
<1>8. Starts(n) => Started'
  BY <1>3, <1>7
<1>9. Stops(n) => ~Started'
  BY <1>3, <1>4, <1>5, <1>6, <1>7
<1>10. ~Starts(n) /\ ~Stops(n) => (Started' <=> Started)
  BY <1>3, <1>5, <1>6 DEF Started
<1> QED
  BY <1>8, <1>9, <1>10 DEF n

-----------------------------------------------------------------------------
(* Pausing. *)

GateInv ==
  /\ gpc # "idle" \/ done # 0 => stage \in {"login", "done"}
  /\ stage \in {"handler", "net", "lua", "hook", "login", "done"} /\ ~paused => Started
  /\ OnlyIfStarted
  /\ StartObeyed

LEMMA GateStep == QueueInv /\ GateInv /\ [Next]_vars => GateInv'
<1> SUFFICES ASSUME QueueInv, GateInv, [Next]_vars PROVE GateInv'
  OBVIOUS
<1>n. done \in Nat /\ (done = 0 => ~Started)
  BY DoneInSent DEF Started
<1>s. done' = done => (Started' <=> Started)
  BY StartedSame
<1> USE DEF GateInv, OnlyIfStarted, StartObeyed, InitAt, GameAt, initVars,
            netVars, boxVars, confVars
<1>1. CASE EngineInit
  BY <1>1, <1>n, <1>s DEF EngineInit, InitFails, OpenToken, OpenConfig,
         OpenHander, OpenNet, OpenLua, OpenTick, Login
<1>2. CASE Network
  BY <1>2, <1>s DEF Network, ServerSend, Lose, OnClose, Exit
<1>3. CASE TickStart
  BY <1>3, <1>s DEF TickStart, Hooked
<1>4. ASSUME NEW n \in Len(delivered)..Len(sent), Recv(n) PROVE GateInv'
  BY <1>4, <1>s DEF Recv
<1>5. CASE HandleControl \/ HandleUnknown \/ ConfigAck
  <2>1. /\ done' = done + 1 /\ done + 1 \in 1..Len(sent)
        /\ gpc # "idle" /\ gpc' = "handle" /\ UNCHANGED <<stage, link>>
    BY <1>5, <1>n, DoneStep
       DEF HandleControl, HandleUnknown, ConfigAck, Handling
  <2>2. /\ Starts(done + 1) => Started'
        /\ Stops(done + 1) => ~Started'
        /\ ~Starts(done + 1) /\ ~Stops(done + 1) => (Started' <=> Started)
    BY <2>1, StartedNext
  <2>3. CASE HandleControl
    <3>1. /\ Current = sent[done + 1] /\ Current \in Command
          /\ Current.cmd = "control"
          /\ paused' = IF Current.arg = "query" THEN paused ELSE Current.arg = "stop"
      BY <2>3, CurrentIsNext DEF HandleControl, Handling
    <3>2. Current.arg \in {"start", "stop", "query"}
      BY <3>1 DEF Command
    <3> QED
      BY <2>1, <2>2, <3>1, <3>2 DEF Starts, Stops
  <2>4. CASE HandleUnknown \/ ConfigAck
    <3>1. sent[done + 1].cmd # "control" /\ paused' = paused
      BY <2>4, CurrentIsNext
         DEF HandleUnknown, ConfigAck, Handling, QueueInv, Pending, IsConfig
    <3> QED
      BY <2>1, <2>2, <3>1 DEF Starts, Stops
  <2> QED
    BY <1>5, <2>3, <2>4
<1>6. CASE UpdateConfig
  BY <1>6, <1>s DEF UpdateConfig, Handling
<1>7. CASE Gate
  BY <1>7, <1>s DEF Gate
<1>8. CASE RunTicks
  BY <1>8, <1>s DEF RunTicks
<1>9. CASE UNCHANGED vars
  BY <1>9, <1>s DEF vars
<1> QED
  BY <1>1, <1>2, <1>3, <1>4, <1>5, <1>6, <1>7, <1>8, <1>9 DEF Next, Tick

LEMMA GateAlways == Spec => []GateInv
<1>1. Init => GateInv
  BY DEF Init, GateInv, OnlyIfStarted, StartObeyed, Started, Box!Init
<1> QED
  BY <1>1, GateStep, QueueAlways, PTL DEF Spec

(* Every variable keeps its type; no tick handles more than it received. *)
THEOREM TypeCorrect == Spec => []TypeOK
<1>1. QueueInv => TypeOK
  BY DEF QueueInv
<1> QED
  BY <1>1, QueueAlways, PTL

(* No script runs in a tick unless start was the server's last word. *)
THEOREM OnlyIfStartedAlways == Spec => []OnlyIfStarted
<1>1. GateInv => OnlyIfStarted
  BY DEF GateInv
<1> QED
  BY <1>1, GateAlways, PTL

(* An engine told to start is not paused while it is connected. *)
THEOREM StartObeyedAlways == Spec => []StartObeyed
<1>1. GateInv => StartObeyed
  BY DEF GateInv
<1> QED
  BY <1>1, GateAlways, PTL

-----------------------------------------------------------------------------
(* Configs and their acks. *)

(* Only update_config changes GConfig, to the config it has just accepted. *)
LEMMA ConfStep ==
  QueueInv /\ ConfigIsLastAccepted /\ [Next]_vars => ConfigIsLastAccepted'
<1> SUFFICES ASSUME QueueInv, ConfigIsLastAccepted, [Next]_vars
             PROVE  ConfigIsLastAccepted'
  OBVIOUS
<1>n. done \in Nat /\ done <= Len(sent) /\ Len(sent) \in Nat
  BY DoneInSent
<1>p. gpc = "ack" => done + 1 \in 1..Len(sent)
  BY <1>n DEF QueueInv, Pending, Prefix, TypeOK
<1>a. ASSUME Applied' = Applied, conf' = conf PROVE ConfigIsLastAccepted'
  <2>1. \A k \in Applied : k \in 1..Len(sent)
    BY <1>n, <1>p DEF Applied
  <2> QED
    BY <1>a, <2>1, HandledStay DEF ConfigIsLastAccepted
<1> USE DEF InitAt, GameAt, initVars, netVars, boxVars, confVars
<1>1. CASE EngineInit
  BY <1>1, <1>a DEF EngineInit, InitFails, OpenToken, OpenConfig, OpenHander,
         OpenNet, OpenLua, OpenTick, Login, Applied
<1>2. CASE Network
  BY <1>2, <1>a DEF Network, ServerSend, Lose, OnClose, Exit, Applied
<1>3. CASE TickStart
  BY <1>3, <1>a DEF TickStart, Applied
<1>4. ASSUME NEW n \in Len(delivered)..Len(sent), Recv(n) PROVE ConfigIsLastAccepted'
  BY <1>4, <1>a DEF Recv, Applied
<1>5. CASE HandleControl \/ HandleUnknown
  <2>1. /\ gpc = "handle" /\ UNCHANGED <<gpc, conf, sent>> /\ done' = done + 1
        /\ done < Len(delivered) /\ Current.cmd # "config"
    BY <1>5 DEF HandleControl, HandleUnknown, Handling
  <2>2. ~Accepted(done + 1)
    BY <2>1, CurrentIsNext DEF Accepted, IsConfig
  <2>3. Applied = 1..done /\ Applied' = 1..(done + 1)
    BY <2>1 DEF Applied
  <2>4. \A k : Accepted(k)' = Accepted(k)
    BY <2>1 DEF Accepted, IsConfig
  <2> QED
    BY <1>n, <2>1, <2>2, <2>3, <2>4 DEF ConfigIsLastAccepted
<1>6. CASE UpdateConfig
  <2>1. /\ gpc = "handle" /\ gpc' = "ack" /\ UNCHANGED <<done, sent>>
        /\ done < Len(delivered) /\ Current.cmd = "config"
        /\ conf' = IF Current.arg = "table" THEN done + 1 ELSE conf
    BY <1>6 DEF UpdateConfig, Handling
  <2>2. Accepted(done + 1) <=> Current.arg = "table"
    BY <2>1, CurrentIsNext DEF Accepted, IsConfig
  <2>3. Applied = 1..done /\ Applied' = 1..(done + 1)
    BY <2>1 DEF Applied
  <2>4. \A k : Accepted(k)' = Accepted(k)
    BY <2>1 DEF Accepted, IsConfig
  <2>5. ASSUME Accepted(done + 1) PROVE ConfigIsLastAccepted'
    <3>1. conf' = done + 1
      BY <2>1, <2>2, <2>5
    <3>2. \A k \in 1..(done + 1) : k <= done + 1
      BY <1>n
    <3>3. done + 1 \in 1..(done + 1)
      BY <1>n
    <3> QED
      BY <2>3, <2>4, <2>5, <3>1, <3>2, <3>3 DEF ConfigIsLastAccepted
  <2>6. ASSUME ~Accepted(done + 1) PROVE ConfigIsLastAccepted'
    <3>1. conf' = conf
      BY <2>1, <2>2, <2>6
    <3>2. \A k \in 1..(done + 1) : k \in 1..done \/ k = done + 1
      BY <1>n
    <3>3. \A k \in 1..done : k \in 1..(done + 1)
      BY <1>n
    <3> QED
      BY <2>3, <2>4, <2>6, <3>1, <3>2, <3>3 DEF ConfigIsLastAccepted
  <2> QED
    BY <2>5, <2>6
<1>7. CASE ConfigAck
  BY <1>7, <1>a DEF ConfigAck, Applied
<1>8. CASE Gate \/ RunTicks
  BY <1>8, <1>a DEF Gate, RunTicks, Applied
<1>9. CASE UNCHANGED vars
  BY <1>9, <1>a DEF vars, Applied
<1> QED
  BY <1>1, <1>2, <1>3, <1>4, <1>5, <1>6, <1>7, <1>8, <1>9 DEF Next, Tick

(* GConfig is the last config accepted, whatever was refused since. *)
THEOREM ConfigIsLastAcceptedAlways == Spec => []ConfigIsLastAccepted
<1>1. Init => ConfigIsLastAccepted
  BY DEF Init, ConfigIsLastAccepted, Applied
<1> QED
  BY <1>1, ConfStep, QueueAlways, PTL DEF Spec

AckInv == AcksTruthful /\ NoneUnacked

(* An ack is appended exactly when on_config finishes with its config. *)
LEMMA AckStep == QueueInv /\ GateInv /\ AckInv /\ [Next]_vars => AckInv'
<1> SUFFICES ASSUME QueueInv, GateInv, AckInv, [Next]_vars PROVE AckInv'
  OBVIOUS
<1>n. done \in Nat /\ done <= Len(sent) /\ Len(sent) \in Nat
  BY DoneInSent
<1>t. acks \in Seq(Acks) /\ Len(acks) \in Nat
  BY DEF QueueInv, TypeOK
<1>h. \A k \in 1..done : (IsConfig(k)' <=> IsConfig(k)) /\ (Accepted(k)' = Accepted(k))
  BY <1>n, HandledStay
<1>a. ASSUME acks' = acks, done' = done PROVE AcksTruthful'
  BY <1>a, <1>h DEF AckInv, AcksTruthful
<1>b. ASSUME acks' = acks, done' = done, link' = "up" => link = "up" \/ done = 0
      PROVE  NoneUnacked'
  <2>1. \A k : Acked(k)' <=> Acked(k)
    BY <1>b DEF Acked
  <2>2. CASE done = 0
    BY <1>b, <2>2 DEF NoneUnacked
  <2>3. CASE link = "up"
    BY <1>b, <1>h, <2>1, <2>3 DEF AckInv, NoneUnacked
  <2> QED
    BY <1>b, <2>2, <2>3 DEF NoneUnacked
<1> USE DEF InitAt, GameAt, initVars, netVars, boxVars, confVars
<1>1. CASE EngineInit
  <2>1. acks' = acks /\ done' = done
    BY <1>1 DEF EngineInit, InitFails, OpenToken, OpenConfig, OpenHander, OpenNet,
           OpenLua, OpenTick, Login
  <2>2. link' = "up" => link = "up" \/ stage = "net"
    BY <1>1 DEF EngineInit, InitFails, OpenToken, OpenConfig, OpenHander, OpenNet,
           OpenLua, OpenTick, Login
  <2> QED
    BY <1>a, <1>b, <2>1, <2>2 DEF AckInv, GateInv
<1>2. CASE Network
  BY <1>2, <1>a, <1>b DEF Network, ServerSend, Lose, OnClose, Exit, AckInv
<1>3. CASE TickStart
  BY <1>3, <1>a, <1>b DEF TickStart, AckInv
<1>4. ASSUME NEW n \in Len(delivered)..Len(sent), Recv(n) PROVE AckInv'
  BY <1>4, <1>a, <1>b DEF Recv, AckInv
<1>5. CASE HandleControl \/ HandleUnknown
  <2>1. /\ UNCHANGED <<acks, link, sent>> /\ done' = done + 1
        /\ done < Len(delivered) /\ Current.cmd # "config"
    BY <1>5 DEF HandleControl, HandleUnknown, Handling
  <2>2. ~IsConfig(done + 1)
    BY <2>1, CurrentIsNext DEF IsConfig
  <2>3. /\ \A k : IsConfig(k)' <=> IsConfig(k)
        /\ \A k : Accepted(k)' = Accepted(k)
        /\ \A k : Acked(k)' <=> Acked(k)
    BY <2>1 DEF Accepted, IsConfig, Acked
  <2>4. AcksTruthful'
    BY <1>n, <2>1, <2>3 DEF AckInv, AcksTruthful
  <2>5. NoneUnacked'
    BY <1>n, <2>1, <2>2, <2>3 DEF AckInv, NoneUnacked
  <2> QED
    BY <2>4, <2>5 DEF AckInv
<1>6. CASE UpdateConfig
  BY <1>6, <1>a, <1>b DEF UpdateConfig, AckInv
<1>7. CASE ConfigAck
  <2> DEFINE n == done + 1
             a == Ack
  <2>1. /\ done' = n /\ UNCHANGED <<link, sent>>
        /\ acks' = IF link = "up" THEN Append(acks, a) ELSE acks
        /\ n \in Nat /\ n > done
    BY <1>7, <1>n DEF ConfigAck
  <2>2. /\ IsConfig(n) /\ Accepted(n) \in BOOLEAN
        /\ a.succeed = IF Accepted(n) THEN 0 ELSE -1
        /\ a.errmsg = "empty" <=> Accepted(n)
    <3>1. /\ IsConfig(n) /\ outcome = Outcome[sent[n].arg] /\ n \in 1..Len(sent)
      BY <1>7, <1>n DEF ConfigAck, QueueInv, Pending, Prefix, TypeOK
    <3>2. sent[n].arg \in {"table", "scalar", "broken"}
      BY <3>1, ElementOfSeq DEF QueueInv, TypeOK, Command, IsConfig
    <3>3. a.succeed = outcome.succeed /\ a.errmsg = outcome.errmsg
      BY DEF Ack
    <3>4. CASE sent[n].arg = "table"
      BY <3>1, <3>3, <3>4, OutcomeFields DEF Accepted
    <3>5. CASE sent[n].arg = "scalar"
      BY <3>1, <3>3, <3>5, OutcomeFields DEF Accepted
    <3>6. CASE sent[n].arg = "broken"
      BY <3>1, <3>3, <3>6, OutcomeFields DEF Accepted
    <3> QED
      BY <3>2, <3>4, <3>5, <3>6
  <2>3. /\ \A k : IsConfig(k)' <=> IsConfig(k)
        /\ \A k : Accepted(k)' = Accepted(k)
    BY <2>1 DEF Accepted, IsConfig
  <2>4. CASE link # "up"
    <3>1. acks' = acks /\ link' # "up"
      BY <2>1, <2>4
    <3>2. \A k \in 1..done : k \in 1..n
      BY <1>n, <2>1
    <3>3. AcksTruthful'
      BY <2>1, <2>3, <3>1, <3>2 DEF AckInv, AcksTruthful
    <3> QED
      BY <3>1, <3>3 DEF AckInv, NoneUnacked
  <2>5. CASE link = "up"
    <3> DEFINE m == Len(acks) + 1
    <3>1. a \in Acks /\ a.of = n
      BY <2>1, AckTyped DEF AckInv, Ack
    <3> HIDE DEF a
    <3>2. /\ Len(acks') = m /\ acks'[m] = a
          /\ \A i \in 1..Len(acks) : acks'[i] = acks[i]
      BY <1>t, <2>1, <2>5, <3>1, AppendProperties
    <3>3. \A i \in 1..m : i \in 1..Len(acks) \/ i = m
      BY <1>t
    <3>4. m \in 1..m /\ m > Len(acks) /\ \A i \in 1..Len(acks) : i \in 1..m /\ ~(m < i)
      BY <1>t
    <3> HIDE DEF m
    <3>5. \A i \in 1..Len(acks) :
            /\ acks[i].of \in 1..done /\ acks[i].of \in 1..n /\ acks[i].of < n
            /\ IsConfig(acks[i].of)
            /\ acks[i].succeed = IF Accepted(acks[i].of) THEN 0 ELSE -1
            /\ acks[i].errmsg = "empty" <=> Accepted(acks[i].of)
      BY <1>n, <2>1 DEF AckInv, AcksTruthful
    <3>6. n \in 1..n
      BY <1>n
    <3>7. ASSUME NEW i \in 1..m
          PROVE  /\ acks'[i].of \in 1..n /\ IsConfig(acks'[i].of)
                 /\ acks'[i].succeed = IF Accepted(acks'[i].of) THEN 0 ELSE -1
                 /\ acks'[i].errmsg = "empty" <=> Accepted(acks'[i].of)
      <4>1. CASE i \in 1..Len(acks)
        BY <3>2, <3>5, <4>1
      <4>2. CASE i = m
        BY <2>2, <3>1, <3>2, <3>6, <4>2
      <4> QED
        BY <3>3, <4>1, <4>2
    <3>8. ASSUME NEW i \in 1..m, NEW j \in 1..m, i < j
          PROVE  acks'[i].of < acks'[j].of
      <4>1. CASE j \in 1..Len(acks)
        <5>1. i \in 1..Len(acks)
          BY <3>3, <3>4, <3>8, <4>1
        <5> QED
          BY <3>2, <3>8, <4>1, <5>1 DEF AckInv, AcksTruthful
      <4>2. CASE j = m
        <5>1. i \in 1..Len(acks)
          BY <3>3, <3>8, <4>2
        <5> QED
          BY <3>1, <3>2, <3>5, <4>2, <5>1
      <4> QED
        BY <3>3, <4>1, <4>2
    <3>9. AcksTruthful'
      <4>1. \A i \in 1..m : /\ acks'[i].of \in 1..done'
                           /\ sent'[acks'[i].of].cmd = "config"
        BY <2>1, <3>7 DEF IsConfig
      <4>2. \A k : Accepted(k) <=> /\ sent'[k].cmd = "config"
                                    /\ sent'[k].arg = "table"
        BY <2>1 DEF IsConfig, Accepted
      <4>3. \A i \in 1..m :
              LET k == acks'[i].of
                  y == sent'[k].cmd = "config" /\ sent'[k].arg = "table"
              IN  /\ acks'[i].succeed = IF y THEN 0 ELSE -1
                  /\ acks'[i].errmsg = "empty" <=> y
        BY <3>7, <4>2
      <4> QED
        BY <3>2, <3>8, <4>1, <4>3 DEF AcksTruthful, IsConfig, Accepted
    <3>10. ASSUME NEW k \in 1..n, IsConfig(k) PROVE \E i \in 1..m : acks'[i].of = k
      <4>1. CASE k = n
        BY <3>1, <3>2, <3>4, <4>1
      <4>2. CASE k # n
        <5>1. k \in 1..done
          BY <1>n, <4>2
        <5>2. PICK i \in 1..Len(acks) : acks[i].of = k
          BY <2>5, <3>10, <5>1 DEF AckInv, NoneUnacked, Acked
        <5> QED
          BY <3>2, <3>4, <5>2
      <4> QED
        BY <4>1, <4>2
    <3>11. NoneUnacked'
      BY <2>1, <2>3, <3>2, <3>10 DEF NoneUnacked, Acked
    <3> QED
      BY <3>9, <3>11 DEF AckInv
  <2> QED
    BY <2>4, <2>5
<1>8. CASE Gate \/ RunTicks
  BY <1>8, <1>a, <1>b DEF Gate, RunTicks, AckInv
<1>9. CASE UNCHANGED vars
  BY <1>9, <1>a, <1>b DEF vars, AckInv
<1> QED
  BY <1>1, <1>2, <1>3, <1>4, <1>5, <1>6, <1>7, <1>8, <1>9 DEF Next, Tick

LEMMA AckAlways == Spec => []AckInv
<1>1. Init => AckInv
  BY EmptySeq DEF Init, AckInv, AcksTruthful, NoneUnacked
<1> QED
  BY <1>1, AckStep, QueueAlways, GateAlways, PTL DEF Spec

(* Acks are in order, at most one for a config, and tell its fate. *)
THEOREM AcksTruthfulAlways == Spec => []AcksTruthful
<1>1. AckInv => AcksTruthful
  BY DEF AckInv
<1> QED
  BY <1>1, AckAlways, PTL

(* While the connection stands, every config handled has its ack. *)
THEOREM NoneUnackedAlways == Spec => []NoneUnacked
<1>1. AckInv => NoneUnacked
  BY DEF AckInv
<1> QED
  BY <1>1, AckAlways, PTL

-----------------------------------------------------------------------------
(* Login. *)

LoginInv ==
  /\ LoginFirst
  /\ link = "up" => stage \notin {"token", "config", "handler", "net"}
  /\ link = "up" /\ stage = "done" => login
  /\ login => stage = "done"
  /\ InitOnGameThread /\ gpc # "idle" => stage = "done"

LEMMA LoginStep == QueueInv /\ LoginInv /\ [Next]_vars => LoginInv'
<1> SUFFICES ASSUME QueueInv, LoginInv, [Next]_vars PROVE LoginInv'
  OBVIOUS
<1>t. acks \in Seq(Acks) /\ login \in BOOLEAN /\ synced \in BOOLEAN
  BY DEF QueueInv, TypeOK
<1> USE DEF LoginInv, LoginFirst, InitAt, GameAt, initVars, netVars, boxVars, confVars
<1>1. CASE Login
  <2>1. /\ stage = "login" /\ stage' = "done" /\ UNCHANGED <<link, acks, synced, gpc>>
        /\ login' = (link = "up")
    BY <1>1 DEF Login
  <2>2. ~login
    BY <2>1
  <2>3. InitOnGameThread => acks = <<>> /\ ~synced
    BY <2>2
  <2> QED
    BY <2>1, <2>3
<1>2. CASE EngineInit /\ ~Login
  <2>1. UNCHANGED <<login, acks, synced, gpc>>
    BY <1>2 DEF EngineInit, InitFails, OpenToken, OpenConfig, OpenHander,
           OpenNet, OpenLua, OpenTick
  <2>2. /\ stage # "done" /\ stage' # "done"
        /\ stage' \in {"token", "config", "handler", "net"}
             => stage \in {"token", "config", "handler", "net"}
        /\ link' = link \/ stage' = "lua"
        /\ stage = "login" => FALSE
    BY <1>2 DEF EngineInit, InitFails, OpenToken, OpenConfig, OpenHander,
           OpenNet, OpenLua, OpenTick
  <2> QED
    BY <2>1, <2>2
<1>3. CASE Network
  BY <1>3, <1>t DEF Network, ServerSend, Lose, OnClose, Exit
<1>4. CASE Tick
  <2>1. /\ UNCHANGED <<stage, login, link>>
        /\ synced' \in {synced, synced \/ link = "up"}
        /\ acks' = acks \/ (link = "up" /\ gpc # "idle")
        /\ synced' = synced \/ (link = "up" /\ gpc # "idle")
        /\ gpc = "idle" /\ gpc' # "idle" => Hooked
    BY <1>4, <1>t DEF Tick, TickStart, Recv, HandleControl, HandleUnknown, Handling,
           UpdateConfig, ConfigAck, Gate, RunTicks
  <2> QED
    BY <2>1, <1>t DEF Hooked
<1>5. CASE UNCHANGED vars
  BY <1>5 DEF vars
<1> QED
  BY <1>1, <1>2, <1>3, <1>4, <1>5 DEF Next

(* On one thread, the server hears of the login before anything else the   *)
(* engine says.                                                            *)
THEOREM LoginFirstAlways == Spec => []LoginFirst
<1>1. Init => LoginInv
  BY DEF Init, LoginInv, LoginFirst
<1>2. LoginInv => LoginFirst
  BY DEF LoginInv
<1> QED
  BY <1>1, <1>2, LoginStep, QueueAlways, PTL DEF Spec

-----------------------------------------------------------------------------
(* The timers. *)

TimerInv ==
  /\ now \in PerSecond..MaxTime
  /\ last \in [Timers -> 0..MaxTime]
  /\ back \in [Timers -> BOOLEAN]
  /\ \A t \in Timers : back[t] \/ last[t] <= now
  /\ NegativeNever

LEMMA PeriodType ==
  ASSUME NEW t \in Timers
  PROVE  /\ Period(t) \in Int
         /\ MaxTime + Period(t) < Modulus /\ MaxTime - Period(t) < Modulus
  BY TicksAssumption DEF Period

(* The comparison in uint64_t: right while the clock has not been set back *)
(* behind last, true when it has, false for a negative period.             *)
LEMMA DueMeans ==
  ASSUME TimerInv, NEW t \in Timers
  PROVE  /\ Period(t) >= 0 /\ last[t] <= now => (Due(t) <=> now - last[t] > Period(t))
         /\ Period(t) >= 0 /\ last[t] > now => Due(t)
         /\ Period(t) < 0 /\ last[t] = 0 => ~Due(t)
<1>1. /\ now \in Nat /\ last[t] \in Nat /\ now <= MaxTime /\ last[t] <= MaxTime
      /\ MaxTime \in Nat /\ Modulus \in Nat
  BY TicksAssumption DEF TimerInv
<1>2. /\ Period(t) \in Int
      /\ MaxTime + Period(t) < Modulus /\ MaxTime - Period(t) < Modulus
  BY PeriodType
<1> QED
  BY <1>1, <1>2 DEF Due, Unsigned

(* One timer's function sets only its own time, and only when due. *)
LEMMA RunStep ==
  ASSUME TimerInv, NEW t \in Timers, NEW next, Run(t, next)
  PROVE  /\ TimerInv'
         /\ last'[t] # last[t] => back[t] \/ Period(t) < 0 \/ now - last[t] > Period(t)
         /\ Period(t) >= 0 => last'[t] <= now
         /\ \A u \in Timers : u # t => last'[u] = last[u]
         /\ now' = now /\ pc = t
<1>1. /\ now' = now /\ pc = t
      /\ last' = IF Due(t) THEN [last EXCEPT ![t] = now] ELSE last
      /\ back' = IF Due(t) THEN [back EXCEPT ![t] = FALSE] ELSE back
  BY DEF Run
<1>2. /\ now \in Nat /\ now \in 0..MaxTime /\ now \in PerSecond..MaxTime
      /\ \A u \in Timers : last[u] \in 0..MaxTime
  BY TicksAssumption DEF TimerInv
<1>3. /\ Period(t) >= 0 /\ last[t] <= now => (Due(t) <=> now - last[t] > Period(t))
      /\ Period(t) >= 0 /\ last[t] > now => Due(t)
      /\ Period(t) < 0 /\ last[t] = 0 => ~Due(t)
  BY DueMeans
<1>4. Period(t) \in Int /\ (Period(t) < 0 => last[t] = 0)
  BY PeriodType DEF TimerInv, NegativeNever
<1>5. CASE Due(t)
  <2>1. last' = [last EXCEPT ![t] = now] /\ back' = [back EXCEPT ![t] = FALSE]
    BY <1>1, <1>5
  <2>2. /\ last' \in [Timers -> 0..MaxTime] /\ back' \in [Timers -> BOOLEAN]
        /\ last'[t] = now /\ \A u \in Timers : u # t => last'[u] = last[u] /\ back'[u] = back[u]
    BY <1>2, <2>1 DEF TimerInv
  <2>3. Period(t) >= 0
    BY <1>3, <1>4, <1>5
  <2>4. \A u \in Timers : back'[u] \/ last'[u] <= now
    BY <1>2, <2>2 DEF TimerInv
  <2>5. \A u \in Timers : Period(u)' = Period(u)
    BY DEF Period
  <2>6. NegativeNever'
    <3>1. ASSUME NEW u \in Timers, Period(u) < 0 PROVE last'[u] = 0
      <4>1. u # t
        BY <2>3, <1>4, <3>1
      <4> QED
        BY <2>2, <3>1, <4>1 DEF TimerInv, NegativeNever
    <3> QED
      BY <2>5, <3>1 DEF NegativeNever
  <2>7. TimerInv'
    BY <1>1, <1>2, <2>2, <2>4, <2>6 DEF TimerInv
  <2>8. back[t] \/ now - last[t] > Period(t)
    BY <1>3, <1>5, <2>3 DEF TimerInv
  <2> QED
    BY <1>1, <1>2, <2>2, <2>7, <2>8
<1>6. CASE ~Due(t)
  <2>1. last' = last /\ back' = back
    BY <1>1, <1>6
  <2>2. TimerInv'
    BY <1>1, <2>1 DEF TimerInv, NegativeNever, Period
  <2>3. Period(t) >= 0 => last[t] <= now
    BY <1>2, <1>3, <1>6
  <2> QED
    BY <1>1, <2>1, <2>2, <2>3
<1> QED
  BY <1>5, <1>6

(* What every step does to the timers. *)
TimersStep ==
  /\ TimerInv'
  /\ \A t \in Timers :
       /\ last'[t] # last[t] => back[t] \/ Period(t) < 0 \/ now - last[t] > Period(t)
       /\ pc = t /\ pc' # t /\ Period(t) >= 0 => last'[t] <= now

LEMMA TimerStep == TimerInv /\ [TicksNext]_ticksVars => TimersStep
<1> SUFFICES ASSUME TimerInv, [TicksNext]_ticksVars PROVE TimersStep
  OBVIOUS
<1>1. ASSUME NEW t \in Timers, NEW next, Run(t, next) PROVE TimersStep
  <2>1. /\ TimerInv'
        /\ last'[t] # last[t] => back[t] \/ Period(t) < 0 \/ now - last[t] > Period(t)
        /\ Period(t) >= 0 => last'[t] <= now
        /\ \A u \in Timers : u # t => last'[u] = last[u]
        /\ pc = t
    BY <1>1, RunStep
  <2> QED
    BY <2>1 DEF TimersStep
<1>2. CASE GuardTick \/ MainTick \/ SyncTick
  BY <1>1, <1>2 DEF GuardTick, MainTick, SyncTick, Timers
<1>3. CASE TicksStart \/ StatLua \/ DoFile
  <2>1. UNCHANGED <<now, last, back>> /\ pc \notin Timers
    BY <1>3 DEF TicksStart, StatLua, DoFile, clockVars, Timers
  <2>2. TimerInv'
    BY <2>1 DEF TimerInv, NegativeNever, Period
  <2> QED
    BY <2>1, <2>2 DEF TimersStep
<1>4. ASSUME NEW t \in PerSecond..MaxTime, ClockOn(t) PROVE TimersStep
  <2>1. now' = t /\ t > now /\ UNCHANGED <<last, back, pc>>
    BY <1>4 DEF ClockOn
  <2>2. TimerInv'
    <3>1. t \in Int /\ now \in Int /\ \A u \in Timers : last[u] \in Int
      BY TicksAssumption DEF TimerInv
    <3>2. \A u \in Timers : back[u] \/ last[u] <= t
      BY <2>1, <3>1 DEF TimerInv
    <3> QED
      BY <2>1, <3>2 DEF TimerInv, NegativeNever, Period
  <2> QED
    BY <2>1, <2>2 DEF TimersStep
<1>5. ASSUME NEW t \in PerSecond..MaxTime, ClockBack(t) PROVE TimersStep
  <2>1. now' = t /\ back' = [u \in Timers |-> TRUE] /\ UNCHANGED <<last, pc>>
    BY <1>5 DEF ClockBack
  <2>2. back' \in [Timers -> BOOLEAN] /\ \A u \in Timers : back'[u]
    BY <2>1
  <2>3. TimerInv'
    BY <2>1, <2>2 DEF TimerInv, NegativeNever, Period
  <2> QED
    BY <2>1, <2>3 DEF TimersStep
<1>6. CASE (\E sound \in BOOLEAN : Edit(sound)) \/ Remove \/ UNCHANGED ticksVars
  <2>1. UNCHANGED <<now, last, back, pc>>
    BY <1>6 DEF Edit, Remove, ticksVars, clockVars
  <2>2. TimerInv'
    BY <2>1 DEF TimerInv, NegativeNever, Period
  <2> QED
    BY <2>1, <2>2 DEF TimersStep
<1> QED
  BY <1>2, <1>3, <1>4, <1>5, <1>6 DEF TicksNext, TicksStep

LEMMA TimerAlways == TicksSpec => []TimerInv
<1>1. TicksInit => TimerInv
  BY TicksAssumption DEF TicksInit, TimerInv, NegativeNever
<1>2. TimerInv /\ [TicksNext]_ticksVars => TimerInv'
  BY TimerStep DEF TimersStep
<1> QED
  BY <1>1, <1>2, PTL DEF TicksSpec

(* No timer fires before its period has passed, but for a clock set back. *)
THEOREM NoEarlyFiringAlways == TicksSpec => NoEarlyFiring
<1>1. TimerInv /\ [TicksNext]_ticksVars =>
        [\A t \in Timers : last'[t] # last[t] =>
           back[t] \/ Period(t) < 0 \/ now - last[t] > Period(t)]_ticksVars
  BY TimerStep DEF TimersStep
<1> QED
  BY <1>1, TimerAlways, PTL DEF TicksSpec, NoEarlyFiring

(* A timer never keeps a time that lies in the future. *)
THEOREM NeverAheadAlways == TicksSpec => NeverAhead
<1>1. TimerInv /\ [TicksNext]_ticksVars =>
        [\A t \in Timers :
           pc = t /\ pc' # t /\ Period(t) >= 0 => last'[t] <= now]_ticksVars
  BY TimerStep DEF TimersStep
<1> QED
  BY <1>1, TimerAlways, PTL DEF TicksSpec, NeverAhead

(* A timer with a negative period never fires. *)
THEOREM NegativeNeverAlways == TicksSpec => []NegativeNever
<1>1. TimerInv => NegativeNever
  BY DEF TimerInv
<1> QED
  BY <1>1, TimerAlways, PTL

-----------------------------------------------------------------------------
(* The script: an edit that was tried has left its time in load_lua. *)

ScriptInv ==
  /\ tried \in Nat /\ file.edit \in Nat /\ tried <= file.edit
  /\ file = [edit |-> file.edit, written |-> file.written, sound |-> file.sound]
  /\ tried = file.edit /\ ~raced => mtime = file.written
  /\ pc = "dofile" /\ ~raced => mtime = file.written

LEMMA ScriptStep == ScriptInv /\ [TicksNext]_ticksVars => ScriptInv'
<1> SUFFICES ASSUME ScriptInv, [TicksNext]_ticksVars PROVE ScriptInv'
  OBVIOUS
<1> USE DEF ScriptInv, clockVars, fileVars, scriptVars
<1>1. CASE TicksStart
  <2>1. pc' # "dofile"
    BY <1>1, TicksAssumption DEF TicksStart
  <2>2. UNCHANGED <<file, raced, mtime, tried>>
    BY <1>1 DEF TicksStart
  <2> QED
    BY <2>1, <2>2
<1>2. CASE StatLua
  <2>1. CASE NeedsLoad
    <3>1. mtime' = file.written /\ UNCHANGED <<file, tried>>
      BY <1>2, <2>1 DEF StatLua
    <3> QED
      BY <3>1
  <2>2. CASE ~NeedsLoad
    <3>1. pc' = "guard" /\ raced' = raced /\ UNCHANGED <<mtime, file, tried>>
      BY <1>2, <2>2 DEF StatLua
    <3> QED
      BY <3>1
  <2> QED
    BY <2>1, <2>2
<1>3. CASE DoFile
  <2>1. pc = "dofile" /\ pc' = "guard" /\ UNCHANGED <<file, raced, mtime>>
    BY <1>3 DEF DoFile
  <2>2. tried' = IF exists THEN file.edit ELSE tried
    BY <1>3 DEF DoFile
  <2> QED
    BY <2>1, <2>2
<1>4. CASE GuardTick \/ MainTick \/ SyncTick
  BY <1>4 DEF GuardTick, MainTick, SyncTick, Run
<1>5. ASSUME NEW t \in PerSecond..MaxTime, ClockOn(t) \/ ClockBack(t) PROVE ScriptInv'
  BY <1>5 DEF ClockOn, ClockBack
<1>6. ASSUME NEW sound \in BOOLEAN, Edit(sound) PROVE ScriptInv'
  <2>1. file' = [edit |-> file.edit + 1, written |-> Seconds(now), sound |-> sound]
    BY <1>6 DEF Edit
  <2>2. UNCHANGED <<pc, mtime, tried>>
    BY <1>6 DEF Edit
  <2>3. pc = "dofile" => raced'
    BY <1>6, Zenon DEF Edit
  <2>4. tried \in Nat /\ file'.edit \in Nat /\ tried < file'.edit
    BY <2>1
  <2>5. file' = [edit |-> file'.edit, written |-> file'.written, sound |-> file'.sound]
    BY <2>1
  <2>6. tried' # file'.edit
    BY <2>2, <2>4
  <2> QED
    BY <2>2, <2>3, <2>4, <2>5, <2>6
<1>7. CASE Remove  BY <1>7 DEF Remove
<1>8. CASE UNCHANGED ticksVars  BY <1>8 DEF ticksVars
<1> QED
  BY <1>1, <1>2, <1>3, <1>4, <1>5, <1>6, <1>7, <1>8 DEF TicksNext, TicksStep

(* No edit of the script is run twice, unless the first run had raced.  *)
THEOREM LoadedOnceAlways == TicksSpec => LoadedOnce
<1>1. TicksInit => ScriptInv
  BY DEF TicksInit, ScriptInv
<1>2. ScriptInv /\ [TicksNext]_ticksVars =>
        [pc = "reload" /\ pc' = "dofile" => file.edit # tried \/ raced]_ticksVars
  BY DEF ScriptInv, TicksNext, TicksStep, TicksStart, StatLua, DoFile, NeedsLoad,
         GuardTick, MainTick, SyncTick, Run, ClockOn, ClockBack, Edit, Remove
<1> QED
  BY <1>1, <1>2, ScriptStep, PTL DEF TicksSpec, LoadedOnce

-----------------------------------------------------------------------------
(* Types: TimerInv has those of the clock and the timers. *)

File == [edit : Nat, written : Nat, sound : BOOLEAN]

PlaceType == pc \in {"idle", "reload", "dofile"} \cup Timers
ScriptType == file \in File /\ mtime \in Nat /\ tried \in Nat /\ inLua \in Nat
FlagType == exists \in BOOLEAN /\ raced \in BOOLEAN

LEMMA PlaceStep == PlaceType /\ [TicksNext]_ticksVars => PlaceType'
BY DEF PlaceType, Timers, TicksNext, TicksStep, TicksStart, StatLua, DoFile, GuardTick,
       MainTick, SyncTick, Run, ClockOn, ClockBack, Edit, Remove, ticksVars

LEMMA FlagStep == FlagType /\ [TicksNext]_ticksVars => FlagType'
BY Zenon DEF FlagType, TicksNext, TicksStep, TicksStart, StatLua, DoFile, GuardTick, MainTick,
     SyncTick, Run, ClockOn, ClockBack, Edit, Remove, ticksVars, fileVars

LEMMA ScriptTypeStep == TimerInv /\ ScriptType /\ [TicksNext]_ticksVars => ScriptType'
<1> SUFFICES ASSUME TimerInv, ScriptType, [TicksNext]_ticksVars PROVE ScriptType'
  OBVIOUS
<1> USE DEF ScriptType
<1>1. file.edit \in Nat /\ file.written \in Nat
  BY DEF File
<1>2. CASE StatLua
  BY <1>1, <1>2 DEF StatLua
<1>3. CASE DoFile
  BY <1>1, <1>3 DEF DoFile, fileVars
<1>4. ASSUME NEW sound \in BOOLEAN, Edit(sound) PROVE ScriptType'
  <2>1. Seconds(now) \in Nat
    BY TicksAssumption DEF TimerInv, Seconds
  <2>2. file.edit + 1 \in Nat
    BY <1>1
  <2>3. file' = [edit |-> file.edit + 1, written |-> Seconds(now), sound |-> sound]
    BY <1>4 DEF Edit
  <2>4. file' \in File
    BY <2>1, <2>2, <2>3 DEF File
  <2> QED
    BY <1>4, <2>4 DEF Edit, scriptVars
<1>5. CASE UNCHANGED <<file, scriptVars>>
  BY <1>5 DEF scriptVars
<1> QED
  BY <1>2, <1>3, <1>4, <1>5
  DEF TicksNext, TicksStep, TicksStart, GuardTick, MainTick, SyncTick, Run, ClockOn,
      ClockBack, Remove, fileVars, ticksVars

(* Every variable keeps its type: the clock, the timers, the script's file *)
(* and what load_lua knows of it.                                          *)
THEOREM TicksTypeCorrect == TicksSpec => []TicksTypeOK
<1>1. TicksInit => PlaceType /\ ScriptType /\ FlagType
  <2>1. TicksInit => PlaceType /\ FlagType
    BY DEF TicksInit, PlaceType, FlagType
  <2>2. TicksInit => ScriptType
    BY DEF TicksInit, ScriptType, File
  <2> QED
    BY <2>1, <2>2
<1>2. TimerInv /\ PlaceType /\ ScriptType /\ FlagType => TicksTypeOK
  BY DEF TimerInv, PlaceType, ScriptType, FlagType, File, TicksTypeOK
<1> QED
  BY <1>1, <1>2, PlaceStep, FlagStep, ScriptTypeStep, TimerAlways, PTL DEF TicksSpec
=============================================================================
