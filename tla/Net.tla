-------------------------------- MODULE Net --------------------------------
(***************************************************************************)
(* net.cpp: the connection to the control server.  Two threads share       *)
(* gnet: the loop thread (entry, uv_run and its callbacks) and the game    *)
(* thread (Net::init once, then Net::recv and Net::send from every tick).  *)
(* gnet.lock protects gnet.recv only; gnet.client is shared without it.    *)
(*                                                                         *)
(* Data abstraction.  A unit stands for some bytes of the TCP stream.  A   *)
(* packet of size s is s units: the first holds s (Packet::size), the rest *)
(* hold Payload.  TCP delivers the stream in order, so gnet.buffer is the  *)
(* window of the stream between the offsets consumed and received: append  *)
(* moves received, erase moves consumed.                                   *)
(***************************************************************************)
EXTENDS Integers, Sequences

CONSTANTS
  HeaderLen,  \* sizeof(Packet), in units
  Sizes,      \* the values of Packet::size the server uses
  Payload,    \* what a unit of a packet after the first one holds
  MaxStream,  \* bound: units the server sends
  MaxSends    \* bound: calls of Net::send that reach create_packet

(* The server frames as net.h:7 says: size counts the header too. *)
ASSUME NetAssumption ==
  /\ HeaderLen \in Nat \ {0}
  /\ Sizes \subseteq Nat
  /\ \A s \in Sizes : s >= HeaderLen
  /\ Payload \in Nat
  /\ MaxStream \in Nat
  /\ MaxSends \in Nat

VARIABLES
  stream,     \* every unit the server has written to the connection
  bounds,     \* bounds[k]: where in stream the k-th packet ends (history)
  received,   \* stream offset up to which on_read has appended to gnet.buffer
  consumed,   \* stream offset up to which resolve_packet has erased it
  inbox,      \* gnet.recv: packets [at, size], copied but not yet fetched
  delivered,  \* every packet Net::recv has returned (history)
  lock,       \* gnet.lock: who holds it
  client,     \* gnet.client # NULL
  handle,     \* state libuv keeps for the uv_tcp_t
  index,      \* gnet.index
  wq,         \* libuv's queue of write requests: their packet indices
  wire,       \* packet indices written to the socket (history)
  lpc,        \* where the loop thread is
  gpc,        \* where the game thread is
  proc,       \* the process: running, left by exit(0), or dead
  caught      \* the connection was lost with a write under way (history)

streamVars == <<stream, bounds>>
readVars   == <<received, consumed>>
connVars   == <<client, handle>>
writeVars  == <<index, wq, wire>>
vars == <<stream, bounds, received, consumed, inbox, delivered, lock, client,
          handle, index, wq, wire, lpc, gpc, proc, caught>>

-----------------------------------------------------------------------------
(* Helpers *)

(* Where packet k begins in the stream, for k up to one past the last. *)
Start(k) == IF k = 1 THEN 0 ELSE bounds[k - 1]

SentPacket(k) == [at |-> Start(k), size |-> bounds[k] - Start(k)]

BufferSize == received - consumed

(* header->size, read from the first unit of gnet.buffer. *)
HeaderSize == stream[consumed + 1]

(* Mutant of CanResolve: > for >=, so a packet that fills the buffer waits. *)
CanResolveStrict == BufferSize >= HeaderLen /\ BufferSize > HeaderSize

(* The two tests with which resolve_packet returns false, negated. *)
CanResolve == BufferSize >= HeaderLen /\ BufferSize >= HeaderSize

LoopAt(p) == proc = "running" /\ lpc = p
GameAt(p) == proc = "running" /\ gpc = p

Init ==
  /\ stream = <<>> /\ bounds = <<>>
  /\ received = 0 /\ consumed = 0
  /\ inbox = <<>> /\ delivered = <<>>
  /\ lock = "free"
  /\ client = FALSE /\ handle = "none"
  /\ index = 0 /\ wq = <<>> /\ wire = <<>>
  /\ lpc = "none" /\ gpc = "start"
  /\ proc = "running" /\ caught = FALSE

-----------------------------------------------------------------------------
(* Net::init, on the game thread, and entry / on_connect, on the loop      *)
(* thread.  They meet at gnet.blocker, a barrier for two.                  *)

(* uv_thread_create, then wait at the barrier. *)
InitSpawn ==
  /\ GameAt("start")
  /\ gpc' = "barrier" /\ lpc' = "entry"
  /\ UNCHANGED <<streamVars, readVars, inbox, delivered, lock, connVars,
                 writeVars, proc, caught>>

(* entry: the handle is made and uv_tcp_connect takes the request. *)
EntryConnect ==
  /\ LoopAt("entry")
  /\ client' = TRUE /\ handle' = "connecting" /\ lpc' = "connecting"
  /\ UNCHANGED <<streamVars, readVars, inbox, delivered, lock, writeVars,
                 gpc, proc, caught>>

(* entry: uv_tcp_connect returns an error (no route, no descriptor left).  *)
(* Nobody looks at the result; uv_run has nothing to wait for and the      *)
(* thread ends without having called on_connect.                           *)
EntryRefused ==
  /\ LoopAt("entry")
  /\ client' = TRUE /\ handle' = "refused" /\ lpc' = "ended"
  /\ UNCHANGED <<streamVars, readVars, inbox, delivered, lock, writeVars,
                 gpc, proc, caught>>

OnConnectOk ==
  /\ LoopAt("connecting")
  /\ handle' = "open" /\ lpc' = "barrier"
  /\ UNCHANGED <<streamVars, readVars, inbox, delivered, lock, client,
                 writeVars, gpc, proc, caught>>

(* Mutant of OnConnectFailed: an early return before uv_barrier_wait. *)
OnConnectFailedReturns ==
  /\ LoopAt("connecting")
  /\ client' = FALSE /\ handle' = "freed" /\ lpc' = "ended"
  /\ UNCHANGED <<streamVars, readVars, inbox, delivered, lock, writeVars,
                 gpc, proc, caught>>


OnConnectFailed ==
  /\ LoopAt("connecting")
  /\ client' = FALSE /\ handle' = "freed" /\ lpc' = "barrier"
  /\ UNCHANGED <<streamVars, readVars, inbox, delivered, lock, writeVars,
                 gpc, proc, caught>>

(* Both threads leave uv_barrier_wait; a loop without a handle ends. *)
BarrierPass ==
  /\ LoopAt("barrier") /\ GameAt("barrier")
  /\ lpc' = IF handle = "open" THEN "poll" ELSE "ended"
  /\ gpc' = "check"
  /\ UNCHANGED <<streamVars, readVars, inbox, delivered, lock, connVars,
                 writeVars, proc, caught>>

(* Net::init reports success or failure by looking at gnet.client. *)
InitCheck ==
  /\ GameAt("check")
  /\ gpc' = IF client THEN "idle" ELSE "failed"
  /\ UNCHANGED <<streamVars, readVars, inbox, delivered, lock, connVars,
                 writeVars, lpc, proc, caught>>

-----------------------------------------------------------------------------
(* Environment: the server. *)

ServerSend(s) ==
  /\ proc = "running" /\ handle = "open"
  /\ Len(stream) + s <= MaxStream
  /\ stream' = stream \o [i \in 1..s |-> IF i = 1 THEN s ELSE Payload]
  /\ bounds' = Append(bounds, Len(stream) + s)
  /\ UNCHANGED <<readVars, inbox, delivered, lock, connVars, writeVars,
                 lpc, gpc, proc, caught>>

-----------------------------------------------------------------------------
(* on_read, on the loop thread. *)

(* nread = n > 0: append to gnet.buffer, then wait for the lock.  nread = 0 *)
(* appends nothing and is not modelled.                                     *)
OnRead(n) ==
  /\ LoopAt("poll") /\ handle = "open"
  /\ n > 0 /\ received + n <= Len(stream)
  /\ received' = received + n
  /\ lpc' = "lock"
  /\ UNCHANGED <<streamVars, consumed, inbox, delivered, lock, connVars,
                 writeVars, gpc, proc, caught>>

LoopLock ==
  /\ LoopAt("lock") /\ lock = "free"
  /\ lock' = "loop" /\ lpc' = "resolve"
  /\ UNCHANGED <<streamVars, readVars, inbox, delivered, connVars, writeVars,
                 gpc, proc, caught>>

(* Mutant of ResolvePacket: erase takes size for the body's alone. *)
ResolvePacketKeepsHeader ==
  /\ LoopAt("resolve") /\ CanResolve
  /\ inbox' = Append(inbox, [at |-> consumed, size |-> HeaderSize])
  /\ consumed' = consumed + HeaderSize - HeaderLen
  /\ UNCHANGED <<streamVars, received, delivered, lock, connVars, writeVars,
                 lpc, gpc, proc, caught>>

(* Mutant of ResolvePacket: one packet for each read, no recursive call. *)
ResolvePacketOnce ==
  /\ LoopAt("resolve") /\ CanResolve
  /\ inbox' = Append(inbox, [at |-> consumed, size |-> HeaderSize])
  /\ consumed' = consumed + HeaderSize
  /\ lock' = "free" /\ lpc' = "poll"
  /\ UNCHANGED <<streamVars, received, delivered, connVars, writeVars,
                 gpc, proc, caught>>

(* One call of resolve_packet that finds a packet: append_packet, erase,   *)
(* and the recursive call.                                                 *)
ResolvePacket ==
  /\ LoopAt("resolve") /\ CanResolve
  /\ inbox' = Append(inbox, [at |-> consumed, size |-> HeaderSize])
  /\ consumed' = consumed + HeaderSize
  /\ UNCHANGED <<streamVars, received, delivered, lock, connVars, writeVars,
                 lpc, gpc, proc, caught>>

(* The call that finds none returns false, and on_read unlocks. *)
ResolveDone ==
  /\ LoopAt("resolve") /\ ~CanResolve
  /\ lock' = "free" /\ lpc' = "poll"
  /\ UNCHANGED <<streamVars, readVars, inbox, delivered, connVars, writeVars,
                 gpc, proc, caught>>

(* nread < 0: uv_close(gnet.client); gnet.client is still set until the    *)
(* next statement.                                                         *)
OnReadError ==
  /\ LoopAt("poll") /\ handle = "open"
  /\ handle' = "closing" /\ lpc' = "clear"
  /\ UNCHANGED <<streamVars, readVars, inbox, delivered, lock, client,
                 writeVars, gpc, proc, caught>>

-----------------------------------------------------------------------------
(* on_write, on the loop thread: libuv completes the oldest request. *)

OnWriteOk ==
  /\ LoopAt("poll") /\ handle = "open" /\ wq # <<>>
  /\ wire' = Append(wire, Head(wq)) /\ wq' = Tail(wq)
  /\ UNCHANGED <<streamVars, readVars, inbox, delivered, lock, connVars,
                 index, lpc, gpc, proc, caught>>

(* status < 0 on an open connection: on_write closes it as on_read does. *)
OnWriteError ==
  /\ LoopAt("poll") /\ handle = "open" /\ wq # <<>>
  /\ wq' = Tail(wq)
  /\ handle' = "closing" /\ lpc' = "clear"
  /\ UNCHANGED <<streamVars, readVars, inbox, delivered, lock, client, index,
                 wire, gpc, proc, caught>>

(* gnet.client = NULL, the statement after uv_close. *)
ClearClient ==
  /\ LoopAt("clear")
  /\ client' = FALSE /\ lpc' = "poll"
  /\ caught' = (wq # <<>> \/ gpc \in {"build", "write"})
  /\ UNCHANGED <<streamVars, readVars, inbox, delivered, lock, handle,
                 writeVars, gpc, proc>>

(* Closing the handle, libuv first cancels the requests still queued; each *)
(* reaches on_write with a non-zero status, which calls uv_close with      *)
(* gnet.client, NULL by now.                                               *)
OnWriteCancelled ==
  /\ LoopAt("poll") /\ handle = "closing" /\ wq # <<>>
  /\ wq' = Tail(wq)
  /\ proc' = "crashed"
  /\ UNCHANGED <<streamVars, readVars, inbox, delivered, lock, connVars,
                 index, wire, lpc, gpc, caught>>

(* Mutant of OnClose: the callback does not exit. *)
OnCloseStays ==
  /\ LoopAt("poll") /\ handle = "closing" /\ wq = <<>>
  /\ handle' = "closed"
  /\ UNCHANGED <<streamVars, readVars, inbox, delivered, lock, client,
                 writeVars, lpc, gpc, proc, caught>>

(* With none queued it calls on_close, which ends the process. *)
OnClose ==
  /\ LoopAt("poll") /\ handle = "closing" /\ wq = <<>>
  /\ handle' = "closed" /\ proc' = "exited"
  /\ UNCHANGED <<streamVars, readVars, inbox, delivered, lock, client,
                 writeVars, lpc, gpc, caught>>

-----------------------------------------------------------------------------
(* Net::recv, on the game thread.  With gnet.client NULL it returns -1 and *)
(* changes nothing: no step.                                               *)

RecvEnter ==
  /\ GameAt("idle") /\ client
  /\ gpc' = "try"
  /\ UNCHANGED <<streamVars, readVars, inbox, delivered, lock, connVars,
                 writeVars, lpc, proc, caught>>

(* try_lock: without the lock Net::recv returns the empty vector. *)
RecvTryLock ==
  /\ GameAt("try")
  /\ \/ lock = "free" /\ lock' = "game" /\ gpc' = "swap"
     \/ lock # "free" /\ gpc' = "idle" /\ UNCHANGED lock
  /\ UNCHANGED <<streamVars, readVars, inbox, delivered, connVars, writeVars,
                 lpc, proc, caught>>

(* Mutant of RecvSwap: gnet.recv is copied instead of swapped out. *)
RecvCopy ==
  /\ GameAt("swap")
  /\ delivered' = delivered \o inbox
  /\ gpc' = "unlock"
  /\ UNCHANGED <<streamVars, readVars, inbox, lock, connVars, writeVars, lpc,
                 proc, caught>>


RecvSwap ==
  /\ GameAt("swap")
  /\ delivered' = delivered \o inbox /\ inbox' = <<>>
  /\ gpc' = "unlock"
  /\ UNCHANGED <<streamVars, readVars, lock, connVars, writeVars, lpc, proc,
                 caught>>

RecvUnlock ==
  /\ GameAt("unlock")
  /\ lock' = "free" /\ gpc' = "idle"
  /\ UNCHANGED <<streamVars, readVars, inbox, delivered, connVars, writeVars,
                 lpc, proc, caught>>

-----------------------------------------------------------------------------
(* Net::send, on the game thread.  With gnet.client NULL it returns -1 and *)
(* changes nothing: no step.                                               *)

(* Mutant of SendEnter: no check of gnet.client. *)
SendEnterUnchecked ==
  /\ GameAt("idle") /\ index < MaxSends
  /\ gpc' = "build"
  /\ UNCHANGED <<streamVars, readVars, inbox, delivered, lock, connVars,
                 writeVars, lpc, proc, caught>>


SendEnter ==
  /\ GameAt("idle") /\ client /\ index < MaxSends
  /\ gpc' = "build"
  /\ UNCHANGED <<streamVars, readVars, inbox, delivered, lock, connVars,
                 writeVars, lpc, proc, caught>>

(* Mutant of SendBuild: the index is used and not advanced. *)
SendBuildSameIndex ==
  /\ GameAt("build")
  /\ gpc' = "write"
  /\ UNCHANGED <<streamVars, readVars, inbox, delivered, lock, connVars,
                 writeVars, lpc, proc, caught>>

(* create_packet takes the next index. *)
SendBuild ==
  /\ GameAt("build")
  /\ index' = index + 1 /\ gpc' = "write"
  /\ UNCHANGED <<streamVars, readVars, inbox, delivered, lock, connVars, wq,
                 wire, lpc, proc, caught>>

(* uv_write reads gnet.client again.  On a handle being closed it returns  *)
(* an error nobody looks at; on NULL the process dies.                     *)
SendWrite ==
  /\ GameAt("write")
  /\ gpc' = "idle"
  /\ proc' = IF client THEN proc ELSE "crashed"
  /\ wq' = IF client /\ handle = "open" THEN Append(wq, index - 1) ELSE wq
  /\ UNCHANGED <<streamVars, readVars, inbox, delivered, lock, connVars,
                 index, wire, lpc, caught>>

-----------------------------------------------------------------------------
Loop ==
  \/ EntryConnect \/ EntryRefused \/ OnConnectOk \/ OnConnectFailed
  \/ \E n \in 1..MaxStream : OnRead(n)
  \/ LoopLock \/ ResolvePacket \/ ResolveDone
  \/ OnReadError \/ OnWriteOk \/ OnWriteError \/ ClearClient
  \/ OnWriteCancelled \/ OnClose

Game ==
  \/ InitSpawn \/ InitCheck
  \/ RecvEnter \/ RecvTryLock \/ RecvSwap \/ RecvUnlock
  \/ SendEnter \/ SendBuild \/ SendWrite

Next ==
  \/ Loop
  \/ Game
  \/ BarrierPass
  \/ \E s \in Sizes : ServerSend(s)

(* Both threads are scheduled: a step that stays possible is taken.  The   *)
(* loop's blocking lock() gets its turn although the game thread takes the *)
(* lock again every tick.  Every connection attempt is answered.  Nothing  *)
(* is assumed of the server, of errors, or of the engine sending.          *)
Fairness ==
  /\ WF_vars(InitSpawn) /\ WF_vars(InitCheck) /\ WF_vars(BarrierPass)
  /\ WF_vars(EntryConnect \/ EntryRefused)
  /\ WF_vars(OnConnectOk \/ OnConnectFailed)
  /\ WF_vars(\E n \in 1..MaxStream : OnRead(n))
  /\ SF_vars(LoopLock)
  /\ WF_vars(ResolvePacket \/ ResolveDone)
  /\ WF_vars(ClearClient) /\ WF_vars(OnWriteCancelled \/ OnClose)
  /\ WF_vars(RecvEnter) /\ WF_vars(RecvTryLock)
  /\ WF_vars(RecvSwap) /\ WF_vars(RecvUnlock)
  /\ WF_vars(SendBuild) /\ WF_vars(SendWrite)

Spec == Init /\ [][Next]_vars
FairSpec == Spec /\ Fairness

-----------------------------------------------------------------------------
(* Correctness *)

Packets == [at : 0..MaxStream, size : Sizes]

TypeOK ==
  /\ stream \in Seq(Nat) /\ bounds \in Seq(Nat)
  /\ received \in Nat /\ consumed \in Nat
  /\ inbox \in Seq(Packets) /\ delivered \in Seq(Packets)
  /\ lock \in {"free", "loop", "game"}
  /\ client \in BOOLEAN
  /\ handle \in {"none", "connecting", "refused", "freed", "open", "closing",
                 "closed"}
  /\ index \in Nat /\ wq \in Seq(Nat) /\ wire \in Seq(Nat)
  /\ lpc \in {"none", "entry", "connecting", "barrier", "poll", "lock",
              "resolve", "clear", "ended"}
  /\ gpc \in {"start", "barrier", "check", "failed", "idle", "try", "swap",
              "unlock", "build", "write"}
  /\ proc \in {"running", "exited", "crashed"}
  /\ caught \in BOOLEAN

(* However TCP cuts the stream into reads and however the two threads      *)
(* interleave, what on_read has stored and Net::recv has returned is the   *)
(* sequence of packets the server sent: each whole, once, in order.        *)
Got == delivered \o inbox
InOrder ==
  /\ Len(Got) <= Len(bounds)
  /\ \A k \in 1..Len(Got) : Got[k] = SentPacket(k)

(* When on_read returns, gnet.buffer holds no complete packet: a packet    *)
(* never waits for later bytes to be noticed (resolve_packet recurses).    *)
NothingStuck ==
  lpc \notin {"lock", "resolve"} =>
    \A k \in 1..Len(bounds) : bounds[k] <= received => k <= Len(Got)

(* append_packet's push_back and Net::recv's swap never touch gnet.recv at *)
(* the same time, although Net::recv only tries the lock.                  *)
InboxExclusive == ~(lpc = "resolve" /\ gpc = "swap")

(* Packets leave in the order of create_packet's indices and, until the    *)
(* connection is lost, none is dropped or doubled on the way to the socket.*)
Handed == IF gpc = "write" THEN index - 1 ELSE index
OutgoingInOrder ==
  /\ \A i \in 1..Len(wire) : wire[i] = i - 1
  /\ handle = "open" =>
       /\ Len(wire) + Len(wq) = Handed
       /\ \A i \in 1..Len(wq) : wq[i] = Len(wire) + i - 1

(* Net::init returns 0 only for a connection that was made, -1 only when   *)
(* none is: the barrier orders on_connect's writes before the check.       *)
InitTruthful ==
  /\ gpc \in {"idle", "try", "swap", "unlock", "build", "write"} =>
       handle \in {"open", "closing", "closed"}
  /\ gpc = "failed" => handle # "open"

(* Losing the connection ends the process through on_close's exit(0),      *)
(* unless a write was queued or Net::send was past its check of            *)
(* gnet.client at that moment: only then can on_write or uv_write use the  *)
(* NULL pointer.                                                           *)
CleanUnlessCaught ==
  proc = "crashed" => handle = "closing" /\ caught

(* Net implements Inbox: the engine sees a reliable, ordered command queue.*)
Abstract == INSTANCE Inbox WITH
  Packet <- Packets,
  sent <- [k \in 1..Len(bounds) |-> SentPacket(k)]
ImplementsInbox == Abstract!Spec

(* Net::init ends, unless uv_tcp_connect itself refused the request: then  *)
(* nobody arrives at the barrier and the game thread stays there for ever. *)
InitEnds ==
  gpc = "barrier" ~> (gpc \in {"idle", "failed"} \/ handle = "refused"
                      \/ proc # "running")

(* A packet the server sent reaches the engine, unless the connection is   *)
(* lost first: no read, lock or try_lock is missed for good.               *)
EverythingDelivered ==
  \A k \in 1..MaxStream :
    Len(bounds) >= k ~> (Len(delivered) >= k \/ handle \in {"closing", "closed"})

(* Once the connection is lost the process ends, one way or the other.     *)
LossEndsProcess == handle = "closing" ~> proc # "running"
=============================================================================
