----------------------------- MODULE NetProofs -----------------------------
(***************************************************************************)
(* Proofs about Net, for every HeaderLen, Sizes, Payload and bound.        *)
(***************************************************************************)
EXTENDS Net, SequenceTheorems, TLAPS

-----------------------------------------------------------------------------
(* The life of the connection: what each place of the two threads says of  *)
(* gnet.client and of the handle, and who was caught when it was lost.     *)

(* Where the loop thread is decides which states the handle can be in. *)
HandleByPlace ==
  /\ lpc \in {"none", "entry"} => handle = "none"
  /\ lpc = "connecting" => handle = "connecting"
  /\ lpc = "barrier" => handle \in {"open", "freed"}
  /\ lpc = "poll" => handle \in {"open", "closing", "closed"}
  /\ lpc \in {"lock", "resolve"} => handle = "open"
  /\ lpc = "clear" => handle = "closing"
  /\ lpc = "ended" => handle \in {"refused", "freed"}

ClientByHandle ==
  /\ handle \in {"connecting", "refused", "open"} => client
  /\ handle \in {"none", "freed"} => ~client
  /\ lpc = "clear" => client
  /\ handle = "closing" /\ lpc = "poll" => ~client
  /\ handle = "closed" => proc = "exited"

(* The barrier: the game thread is past it only if the loop thread is. *)
Rendezvous ==
  /\ lpc \in {"none", "entry", "connecting", "barrier", "poll", "lock",
              "resolve", "clear", "ended"}
  /\ gpc = "start" => lpc = "none"
  /\ gpc = "barrier" =>
       lpc \in {"entry", "connecting", "barrier"} \/ handle = "refused"
  /\ gpc \notin {"start", "barrier"} =>
       lpc \notin {"none", "entry", "connecting", "barrier"} /\ handle # "refused"

Using == {"idle", "try", "swap", "unlock", "build", "write"}

CaughtInv ==
  /\ wq # <<>> => gpc \in Using
  /\ handle = "closing" /\ lpc = "poll" /\ (wq # <<>> \/ gpc \in {"build", "write"})
       => caught

ConnInv ==
  /\ HandleByPlace /\ ClientByHandle /\ Rendezvous /\ CaughtInv
  /\ InitTruthful /\ CleanUnlessCaught

LEMMA ConnStep == ConnInv /\ [Next]_vars => ConnInv'
<1> SUFFICES ASSUME ConnInv, [Next]_vars PROVE ConnInv'
  OBVIOUS
<1> USE DEF ConnInv, HandleByPlace, ClientByHandle, Rendezvous, CaughtInv, Using,
            InitTruthful, CleanUnlessCaught, LoopAt, GameAt, streamVars,
            readVars, connVars, writeVars
<1>1. CASE EntryConnect  BY <1>1 DEF EntryConnect
<1>2. CASE EntryRefused  BY <1>2 DEF EntryRefused
<1>3. CASE OnConnectOk  BY <1>3 DEF OnConnectOk
<1>4. CASE OnConnectFailed  BY <1>4 DEF OnConnectFailed
<1>5. ASSUME NEW n \in 1..MaxStream, OnRead(n) PROVE ConnInv'
  BY <1>5 DEF OnRead
<1>6. CASE LoopLock  BY <1>6 DEF LoopLock
<1>7. CASE ResolvePacket  BY <1>7 DEF ResolvePacket
<1>8. CASE ResolveDone  BY <1>8 DEF ResolveDone
<1>9. CASE OnReadError  BY <1>9 DEF OnReadError
<1>10. CASE OnWriteOk  BY <1>10 DEF OnWriteOk
<1>11. CASE OnWriteError  BY <1>11 DEF OnWriteError
<1>12. CASE ClearClient  BY <1>12 DEF ClearClient
<1>13. CASE OnWriteCancelled  BY <1>13 DEF OnWriteCancelled
<1>14. CASE OnClose  BY <1>14 DEF OnClose
<1>15. CASE InitSpawn  BY <1>15 DEF InitSpawn
<1>16. CASE InitCheck  BY <1>16 DEF InitCheck
<1>17. CASE RecvEnter  BY <1>17 DEF RecvEnter
<1>18. CASE RecvTryLock  BY <1>18 DEF RecvTryLock
<1>19. CASE RecvSwap  BY <1>19 DEF RecvSwap
<1>20. CASE RecvUnlock  BY <1>20 DEF RecvUnlock
<1>21. CASE SendEnter  BY <1>21 DEF SendEnter
<1>22. CASE SendBuild  BY <1>22 DEF SendBuild
<1>23. CASE SendWrite  BY <1>23 DEF SendWrite
<1>24. CASE BarrierPass  BY <1>24 DEF BarrierPass
<1>25. ASSUME NEW s \in Sizes, ServerSend(s) PROVE ConnInv'
  BY <1>25 DEF ServerSend
<1>26. CASE UNCHANGED vars  BY <1>26 DEF vars
<1> QED
  BY <1>1, <1>2, <1>3, <1>4, <1>5, <1>6, <1>7, <1>8, <1>9, <1>10, <1>11,
     <1>12, <1>13, <1>14, <1>15, <1>16, <1>17, <1>18, <1>19, <1>20, <1>21,
     <1>22, <1>23, <1>24, <1>25, <1>26 DEF Next, Loop, Game

LEMMA ConnAlways == Spec => []ConnInv
<1>1. Init => ConnInv
  BY DEF Init, ConnInv, HandleByPlace, ClientByHandle, Rendezvous, CaughtInv,
         Using, InitTruthful, CleanUnlessCaught
<1> QED
  BY <1>1, ConnStep, PTL DEF Spec

-----------------------------------------------------------------------------
(* gnet.lock. *)

LockInv ==
  /\ lpc = "resolve" <=> lock = "loop"
  /\ gpc \in {"swap", "unlock"} <=> lock = "game"

LEMMA LockStep == ConnInv /\ LockInv /\ [Next]_vars => LockInv'
<1> SUFFICES ASSUME ConnInv, LockInv, [Next]_vars PROVE LockInv'
  OBVIOUS
<1> USE DEF LockInv, LoopAt, GameAt, streamVars, readVars, connVars, writeVars
<1>1. CASE Loop
  BY <1>1 DEF Loop, EntryConnect, EntryRefused, OnConnectOk, OnConnectFailed,
         OnRead, LoopLock, ResolvePacket, ResolveDone, OnReadError, OnWriteOk,
         OnWriteError, ClearClient, OnWriteCancelled, OnClose
<1>2. CASE Game
  BY <1>2 DEF Game, InitSpawn, InitCheck, RecvEnter, RecvTryLock, RecvSwap,
         RecvUnlock, SendEnter, SendBuild, SendWrite, ConnInv, Rendezvous
<1>3. CASE BarrierPass  BY <1>3 DEF BarrierPass
<1>4. ASSUME NEW s \in Sizes, ServerSend(s) PROVE LockInv'
  BY <1>4 DEF ServerSend
<1>5. CASE UNCHANGED vars  BY <1>5 DEF vars
<1> QED
  BY <1>1, <1>2, <1>3, <1>4, <1>5 DEF Next

(* append_packet and the swap never touch gnet.recv at the same time. *)
THEOREM InboxExclusiveAlways == Spec => []InboxExclusive
<1>1. Init => LockInv
  BY DEF Init, LockInv
<1>2. LockInv => InboxExclusive
  BY DEF LockInv, InboxExclusive
<1> QED
  BY <1>1, <1>2, LockStep, ConnAlways, PTL DEF Spec

-----------------------------------------------------------------------------
(* Types and framing: bounds cuts stream into packets whose first unit     *)
(* holds their size, and consumed is always at such a cut.                 *)

Framing ==
  /\ Len(stream) <= MaxStream
  /\ Len(stream) = Start(Len(bounds) + 1)
  /\ \A k \in 1..Len(bounds) :
       /\ bounds[k] <= Len(stream)
       /\ bounds[k] - Start(k) \in Sizes
       /\ stream[Start(k) + 1] = bounds[k] - Start(k)
  /\ \A i, j \in 1..Len(bounds) : i <= j => bounds[i] <= bounds[j]

Reading ==
  /\ consumed <= received /\ received <= Len(stream)
  /\ consumed = Start(Len(Got) + 1)

(* Net::send between create_packet and uv_write has taken an index. *)
IndexTaken == gpc = "write" => index > 0

FrameInv == TypeOK /\ IndexTaken /\ Framing /\ Reading /\ InOrder

(* Packets of positive size: a cut is where the next packet begins. *)
LEMMA SizesPositive == \A s \in Sizes : s \in Nat /\ s > 0 /\ s >= HeaderLen
  BY NetAssumption

(* Where packet k begins is an offset in the stream. *)
LEMMA StartInStream ==
  ASSUME TypeOK, Framing, NEW k \in 1..(Len(bounds) + 1)
  PROVE  /\ Start(k) \in Nat
         /\ Start(k) <= Len(stream)
         /\ k <= Len(bounds) => Start(k) < bounds[k]
<1>1. Start(k) \in Nat /\ Start(k) <= Len(stream)
  <2>1. CASE k = 1
    BY <2>1 DEF TypeOK, Start
  <2>2. CASE k # 1
    <3>1. k - 1 \in 1..Len(bounds)
      BY <2>2 DEF TypeOK
    <3>2. bounds[k - 1] \in Nat /\ bounds[k - 1] <= Len(stream)
      BY <3>1 DEF TypeOK, Framing
    <3> QED
      BY <2>2, <3>2 DEF Start
  <2> QED
    BY <2>1, <2>2
<1>2. ASSUME k <= Len(bounds) PROVE Start(k) < bounds[k]
  <2>1. k \in 1..Len(bounds)
    BY <1>2 DEF TypeOK
  <2>2. bounds[k] - Start(k) \in Sizes /\ bounds[k] \in Nat
    BY <2>1 DEF TypeOK, Framing
  <2>3. bounds[k] - Start(k) > 0
    BY <2>2, SizesPositive
  <2> QED
    BY <1>1, <2>2, <2>3
<1> QED
  BY <1>1, <1>2

(* What is in gnet.buffer when resolve_packet finds a packet is the next   *)
(* packet the server sent.                                                 *)
LEMMA NextPacket ==
  ASSUME FrameInv, CanResolve
  PROVE  /\ Len(Got) + 1 \in 1..Len(bounds)
         /\ HeaderSize = bounds[Len(Got) + 1] - consumed
         /\ HeaderSize \in Sizes
         /\ consumed \in 0..MaxStream
         /\ consumed + HeaderSize <= received
<1> DEFINE n == Len(Got) + 1
<1>1. /\ n \in Nat \ {0} /\ n <= Len(bounds) + 1 /\ consumed = Start(n)
      /\ Len(bounds) \in Nat
  BY DEF FrameInv, Reading, InOrder, TypeOK, Got
<1>2. n # Len(bounds) + 1
  BY <1>1, NetAssumption
     DEF FrameInv, Framing, Reading, TypeOK, CanResolve, BufferSize
<1>3. n \in 1..Len(bounds)
  BY <1>1, <1>2
<1>4. HeaderSize = bounds[n] - consumed /\ HeaderSize \in Sizes
  BY <1>1, <1>3 DEF FrameInv, Framing, HeaderSize
<1>5. consumed \in 0..MaxStream
  BY NetAssumption DEF FrameInv, Framing, Reading, TypeOK
<1>6. consumed + HeaderSize <= received
  BY <1>4, SizesPositive DEF CanResolve, BufferSize, FrameInv, TypeOK
<1> QED
  BY <1>3, <1>4, <1>5, <1>6

(* The steps that leave the stream and both ends of the inbox alone. *)
LEMMA FrameUnchanged ==
  ASSUME FrameInv,
         UNCHANGED <<stream, bounds, received, consumed, inbox, delivered>>
  PROVE  Framing' /\ Reading' /\ InOrder'
<1>1. \A k : Start(k)' = Start(k) /\ SentPacket(k)' = SentPacket(k)
  BY DEF Start, SentPacket
<1>2. Got' = Got
  BY DEF Got
<1>3. Framing'
  BY <1>1 DEF FrameInv, Framing
<1>4. Reading'
  BY <1>1, <1>2 DEF FrameInv, Reading
<1>5. InOrder'
  BY <1>1, <1>2 DEF FrameInv, InOrder
<1> QED
  BY <1>3, <1>4, <1>5

(* The server's packet ends the stream and moves no packet before it. *)
LEMMA FrameServerSend ==
  ASSUME FrameInv, NEW s \in Sizes, ServerSend(s)
  PROVE  FrameInv'
<1> DEFINE packet == [i \in 1..s |-> IF i = 1 THEN s ELSE Payload]
           n == Len(bounds)
<1>1. s \in Nat /\ s > 0
  BY SizesPositive
<1>2. packet \in Seq(Nat) /\ Len(packet) = s /\ packet[1] = s
  BY <1>1, NetAssumption
<1>3. /\ stream' = stream \o packet /\ bounds' = Append(bounds, Len(stream) + s)
      /\ Len(stream) + s <= MaxStream
      /\ UNCHANGED <<received, consumed, inbox, delivered, gpc, index>>
  BY DEF ServerSend, readVars, writeVars
<1>4. stream \in Seq(Nat) /\ bounds \in Seq(Nat) /\ n \in Nat /\ Len(stream) \in Nat
  BY DEF FrameInv, TypeOK
<1> HIDE DEF packet
<1>5. /\ stream' \in Seq(Nat)
      /\ Len(stream') = Len(stream) + s
      /\ \A i \in 1..Len(stream) : stream'[i] = stream[i]
      /\ stream'[Len(stream) + 1] = s
  <2>1. /\ stream \o packet \in Seq(Nat)
        /\ Len(stream \o packet) = Len(stream) + Len(packet)
        /\ \A i \in 1..(Len(stream) + Len(packet)) :
             (stream \o packet)[i] =
               IF i <= Len(stream) THEN stream[i] ELSE packet[i - Len(stream)]
    BY <1>2, <1>4, ConcatProperties
  <2>2. stream' = stream \o packet
    BY <1>3
  <2>3. \A i \in 1..Len(stream) : (stream \o packet)[i] = stream[i]
    BY <1>1, <1>2, <1>4, <2>1
  <2>4. (stream \o packet)[Len(stream) + 1] = packet[(Len(stream) + 1) - Len(stream)]
    BY <1>1, <1>2, <1>4, <2>1
  <2>5. (Len(stream) + 1) - Len(stream) = 1
    BY <1>4
  <2> QED
    BY <1>2, <2>1, <2>2, <2>3, <2>4, <2>5
<1>6. /\ bounds' \in Seq(Nat)
      /\ Len(bounds') = n + 1
      /\ \A k \in 1..n : bounds'[k] = bounds[k]
      /\ bounds'[n + 1] = Len(stream) + s
  BY <1>1, <1>3, <1>4
<1>7. ASSUME NEW k \in 1..(n + 1)
      PROVE  /\ Start(k)' = Start(k)
             /\ Start(k) \in Nat /\ Start(k) <= Len(stream)
             /\ k <= n => Start(k) < bounds[k]
  <2>1. Start(k)' = Start(k)
    <3>1. CASE k = 1
      BY <3>1 DEF Start
    <3>2. CASE k # 1
      <4>1. k - 1 \in 1..n
        BY <1>4, <3>2
      <4>2. bounds'[k - 1] = bounds[k - 1]
        BY <1>6, <4>1
      <4> QED
        BY <3>2, <4>2 DEF Start
    <3> QED
      BY <3>1, <3>2
  <2> QED
    BY <2>1, StartInStream DEF FrameInv
<1>8. Framing'
  <2>1. Len(stream') <= MaxStream
    BY <1>3, <1>5
  <2>2. Start(Len(bounds) + 1)' = Len(stream')
    <3>1. Len(bounds') + 1 # 1 /\ (Len(bounds') + 1) - 1 = n + 1
      BY <1>4, <1>6
    <3> QED
      BY <1>5, <1>6, <3>1 DEF Start
  <2>3. ASSUME NEW k \in 1..(n + 1)
        PROVE  /\ bounds'[k] <= Len(stream')
               /\ bounds'[k] - Start(k)' \in Sizes
               /\ stream'[Start(k)' + 1] = bounds'[k] - Start(k)'
    <3>1. CASE k = n + 1
      <4>1. Start(k) = Len(stream)
        BY <3>1 DEF FrameInv, Framing
      <4>2. Start(k)' = Len(stream) /\ bounds'[k] = Len(stream) + s
        BY <1>6, <1>7, <3>1, <4>1
      <4>3. bounds'[k] - Start(k)' = s
        BY <1>1, <1>4, <4>2
      <4>4. stream'[Start(k)' + 1] = s
        BY <1>5, <4>2
      <4>5. bounds'[k] <= Len(stream')
        BY <1>4, <1>5, <1>1, <4>2
      <4> QED
        BY <4>3, <4>4, <4>5
    <3>2. CASE k # n + 1
      <4>1. k \in 1..n
        BY <1>4, <3>2
      <4>2. /\ bounds[k] \in Nat /\ bounds[k] <= Len(stream)
            /\ bounds[k] - Start(k) \in Sizes
            /\ stream[Start(k) + 1] = bounds[k] - Start(k)
        BY <1>4, <4>1 DEF FrameInv, Framing
      <4>3. Start(k) \in Nat /\ Start(k) < bounds[k] /\ Start(k)' = Start(k)
        BY <1>7, <4>1
      <4>4. Start(k) + 1 \in 1..Len(stream)
        BY <1>4, <4>2, <4>3
      <4>5. bounds'[k] = bounds[k] /\ stream'[Start(k) + 1] = stream[Start(k) + 1]
        BY <1>5, <1>6, <4>1, <4>4
      <4>6. bounds'[k] <= Len(stream')
        BY <1>1, <1>4, <1>5, <4>2, <4>5
      <4>7. stream'[Start(k)' + 1] = stream[Start(k) + 1]
        BY <4>3, <4>5
      <4>8. bounds'[k] - Start(k)' = bounds[k] - Start(k)
        BY <4>3, <4>5
      <4> QED
        BY <4>2, <4>6, <4>7, <4>8
    <3> QED
      BY <3>1, <3>2
  <2>4. ASSUME NEW i \in 1..(n + 1), NEW j \in 1..(n + 1), i <= j
        PROVE  bounds'[i] <= bounds'[j]
    <3>1. CASE j \in 1..n
      <4>1. i \in 1..n
        BY <2>4, <1>4, <3>1
      <4>2. bounds[i] <= bounds[j]
        BY <2>4, <3>1, <4>1 DEF FrameInv, Framing
      <4> QED
        BY <1>6, <3>1, <4>1, <4>2
    <3>2. CASE j = n + 1
      <4>1. bounds'[i] <= Len(stream')
        BY <2>3
      <4> QED
        BY <1>5, <1>6, <3>2, <4>1
    <3> QED
      BY <1>4, <3>1, <3>2
  <2> QED
    BY <1>6, <2>1, <2>2, <2>3, <2>4 DEF Framing
<1>9. Got' = Got /\ Len(Got) \in Nat /\ Len(Got) <= n
  BY <1>3 DEF Got, FrameInv, InOrder, TypeOK
<1>10. Reading'
  <2>1. Start(Len(Got) + 1)' = Start(Len(Got) + 1)
    BY <1>4, <1>6, <1>9 DEF Start
  <2> QED
    BY <1>1, <1>3, <1>4, <1>5, <1>9, <2>1 DEF FrameInv, TypeOK, Reading
<1>11. InOrder'
  <2>1. ASSUME NEW k \in 1..Len(Got) PROVE Got[k] = SentPacket(k)'
    <3>1. k \in 1..n
      BY <1>4, <1>9
    <3>2. SentPacket(k)' = SentPacket(k)
      BY <1>6, <1>7, <3>1 DEF SentPacket
    <3> QED
      BY <3>2 DEF FrameInv, InOrder
  <2> QED
    BY <1>4, <1>6, <1>9, <2>1 DEF InOrder
<1>12. TypeOK' /\ IndexTaken'
  BY <1>5, <1>6 DEF FrameInv, TypeOK, IndexTaken, ServerSend, readVars, connVars, writeVars
<1> QED
  BY <1>8, <1>10, <1>11, <1>12 DEF FrameInv

(* resolve_packet moves the next packet from gnet.buffer to gnet.recv. *)
LEMMA FrameResolve ==
  ASSUME FrameInv, ResolvePacket
  PROVE  FrameInv'
<1> DEFINE p == [at |-> consumed, size |-> HeaderSize]
           n == Len(Got) + 1
<1>1. /\ inbox' = Append(inbox, p) /\ consumed' = consumed + HeaderSize
      /\ UNCHANGED <<stream, bounds, received, delivered, gpc, index>>
      /\ CanResolve
  BY DEF ResolvePacket, streamVars, writeVars
<1>2. /\ n \in 1..Len(bounds)
      /\ HeaderSize = bounds[n] - consumed
      /\ HeaderSize \in Sizes /\ HeaderSize \in Nat
      /\ consumed \in 0..MaxStream
      /\ consumed + HeaderSize <= received
  BY <1>1, NextPacket, SizesPositive
<1>3. p \in Packets
  BY <1>2 DEF Packets
<1>4. p = SentPacket(n)
  BY <1>2 DEF SentPacket, FrameInv, Reading
<1> HIDE DEF p
<1>5. Got \in Seq(Packets) /\ Got' = Append(Got, p)
  BY <1>1, <1>3 DEF Got, FrameInv, TypeOK
<1>6. \A k : Start(k)' = Start(k) /\ SentPacket(k)' = SentPacket(k)
  BY <1>1 DEF Start, SentPacket
<1>7. Framing'
  BY <1>1, <1>6 DEF FrameInv, Framing
<1>8. Reading'
  <2>1. Len(Got') + 1 = n + 1
    BY <1>3, <1>5
  <2>2. Start(n + 1) = bounds[n]
    BY <1>2 DEF Start
  <2>3. bounds[n] \in Nat
    <3>1. bounds \in Seq(Nat)
      BY DEF FrameInv, TypeOK
    <3> QED
      BY <1>2, <3>1, ElementOfSeq
  <2>4. consumed' = Start(n + 1)
    BY <1>1, <1>2, <2>2, <2>3
  <2>5. received \in Nat /\ received <= Len(stream)
    BY DEF FrameInv, TypeOK, Reading
  <2>6. consumed' <= received' /\ received' <= Len(stream')
    BY <1>1, <1>2, <2>5
  <2> QED
    BY <1>6, <2>4, <2>6, <2>1 DEF Reading
<1>9. InOrder'
  <2>1. Len(Got') = n /\ n <= Len(bounds)
    BY <1>2, <1>3, <1>5
  <2>2. ASSUME NEW k \in 1..n PROVE Got'[k] = SentPacket(k)
    BY <1>3, <1>4, <1>5, <2>1 DEF FrameInv, InOrder
  <2> QED
    BY <1>1, <1>6, <2>1, <2>2 DEF InOrder
<1>10. inbox' \in Seq(Packets) /\ consumed' \in Nat
  <2>1. inbox \in Seq(Packets)
    BY DEF FrameInv, TypeOK
  <2> QED
    BY <1>1, <1>2, <1>3, <2>1, AppendProperties
<1>11. TypeOK' /\ IndexTaken'
  BY <1>10
     DEF FrameInv, TypeOK, Packets, IndexTaken, ResolvePacket, streamVars, connVars,
         writeVars
<1> QED
  BY <1>7, <1>8, <1>9, <1>11 DEF FrameInv

(* on_read appends what TCP has delivered, never more than was sent. *)
LEMMA FrameOnRead ==
  ASSUME FrameInv, NEW m \in 1..MaxStream, OnRead(m)
  PROVE  FrameInv'
<1>1. /\ received' = received + m /\ received + m <= Len(stream)
      /\ UNCHANGED <<stream, bounds, consumed, inbox, delivered, gpc, index>>
  BY DEF OnRead, streamVars, writeVars
<1>2. \A k : Start(k)' = Start(k) /\ SentPacket(k)' = SentPacket(k)
  BY <1>1 DEF Start, SentPacket
<1>3. Got' = Got
  BY <1>1 DEF Got
<1>4. received \in Nat /\ consumed \in Nat /\ m \in Nat
  BY NetAssumption DEF FrameInv, TypeOK
<1>5. Framing'
  BY <1>1, <1>2 DEF FrameInv, Framing
<1>6. consumed' <= received' /\ received' <= Len(stream') /\ received' \in Nat
  BY <1>1, <1>4 DEF FrameInv, Reading
<1>7. Reading'
  BY <1>1, <1>2, <1>3, <1>6 DEF FrameInv, Reading
<1>8. InOrder'
  BY <1>1, <1>2, <1>3 DEF FrameInv, InOrder
<1>9. TypeOK' /\ IndexTaken'
  BY <1>1, <1>6 DEF FrameInv, TypeOK, IndexTaken, OnRead, Packets, connVars, writeVars
<1> QED
  BY <1>5, <1>7, <1>8, <1>9 DEF FrameInv

(* Net::recv moves every stored packet and changes nothing else. *)
LEMMA FrameRecvSwap ==
  ASSUME FrameInv, RecvSwap
  PROVE  FrameInv'
<1>1. /\ delivered' = delivered \o inbox /\ inbox' = <<>> /\ gpc' = "unlock"
      /\ UNCHANGED <<stream, bounds, received, consumed, index>>
  BY DEF RecvSwap, streamVars, readVars, writeVars
<1>2. \A k : Start(k)' = Start(k) /\ SentPacket(k)' = SentPacket(k)
  BY <1>1 DEF Start, SentPacket
<1>3. delivered \in Seq(Packets) /\ inbox \in Seq(Packets)
  BY DEF FrameInv, TypeOK
<1>4. delivered \o inbox \in Seq(Packets) /\ <<>> \in Seq(Packets)
  BY <1>3, ConcatProperties
<1>5. Got' = Got
  BY <1>1, <1>4, ConcatEmptySeq DEF Got
<1>6. Framing'
  BY <1>1, <1>2 DEF FrameInv, Framing
<1>7. Reading'
  BY <1>1, <1>2, <1>5 DEF FrameInv, Reading
<1>8. InOrder'
  BY <1>1, <1>2, <1>5 DEF FrameInv, InOrder
<1>9. TypeOK' /\ IndexTaken'
  BY <1>1, <1>4
     DEF FrameInv, TypeOK, IndexTaken, RecvSwap, Packets, streamVars, readVars,
         connVars, writeVars
<1> QED
  BY <1>6, <1>7, <1>8, <1>9 DEF FrameInv

(* Every other step leaves both the stream and the inbox alone. *)
LEMMA FrameStep == FrameInv /\ [Next]_vars => FrameInv'
<1> SUFFICES ASSUME FrameInv, [Next]_vars PROVE FrameInv'
  OBVIOUS
<1> DEFINE Still == UNCHANGED <<stream, bounds, received, consumed, inbox, delivered>>
<1>a. ASSUME Still, TypeOK' /\ IndexTaken' PROVE FrameInv'
  BY <1>a, FrameUnchanged DEF FrameInv
<1>t. TypeOK /\ IndexTaken
  BY DEF FrameInv
<1> USE DEF LoopAt, GameAt, streamVars, readVars, connVars, writeVars
<1>1. CASE EntryConnect
  BY <1>1, <1>a, <1>t DEF EntryConnect, TypeOK, IndexTaken
<1>2. CASE EntryRefused
  BY <1>2, <1>a, <1>t DEF EntryRefused, TypeOK, IndexTaken
<1>3. CASE OnConnectOk
  BY <1>3, <1>a, <1>t DEF OnConnectOk, TypeOK, IndexTaken
<1>4. CASE OnConnectFailed
  BY <1>4, <1>a, <1>t DEF OnConnectFailed, TypeOK, IndexTaken
<1>5. ASSUME NEW n \in 1..MaxStream, OnRead(n) PROVE FrameInv'
  BY <1>5, FrameOnRead
<1>6. CASE LoopLock
  BY <1>6, <1>a, <1>t DEF LoopLock, TypeOK, IndexTaken
<1>7. CASE ResolvePacket
  BY <1>7, FrameResolve
<1>8. CASE ResolveDone
  BY <1>8, <1>a, <1>t DEF ResolveDone, TypeOK, IndexTaken
<1>9. CASE OnReadError
  BY <1>9, <1>a, <1>t DEF OnReadError, TypeOK, IndexTaken
<1>10. CASE OnWriteOk
  <2>1. Head(wq) \in Nat /\ Tail(wq) \in Seq(Nat)
    BY <1>10, <1>t, HeadTailProperties DEF OnWriteOk, TypeOK
  <2>2. Append(wire, Head(wq)) \in Seq(Nat)
    BY <1>t, <2>1, AppendProperties DEF TypeOK
  <2> QED
    BY <1>10, <1>a, <1>t, <2>1, <2>2 DEF OnWriteOk, TypeOK, IndexTaken
<1>11. CASE OnWriteError
  <2>1. Tail(wq) \in Seq(Nat)
    BY <1>11, <1>t, HeadTailProperties DEF OnWriteError, TypeOK
  <2> QED
    BY <1>11, <1>a, <1>t, <2>1 DEF OnWriteError, TypeOK, IndexTaken
<1>12. CASE ClearClient
  BY <1>12, <1>a, <1>t DEF ClearClient, TypeOK, IndexTaken
<1>13. CASE OnWriteCancelled
  <2>1. Tail(wq) \in Seq(Nat)
    BY <1>13, <1>t, HeadTailProperties DEF OnWriteCancelled, TypeOK
  <2> QED
    BY <1>13, <1>a, <1>t, <2>1 DEF OnWriteCancelled, TypeOK, IndexTaken
<1>14. CASE OnClose
  BY <1>14, <1>a, <1>t DEF OnClose, TypeOK, IndexTaken
<1>15. CASE InitSpawn
  BY <1>15, <1>a, <1>t DEF InitSpawn, TypeOK, IndexTaken
<1>16. CASE InitCheck
  BY <1>16, <1>a, <1>t DEF InitCheck, TypeOK, IndexTaken
<1>17. CASE RecvEnter
  BY <1>17, <1>a, <1>t DEF RecvEnter, TypeOK, IndexTaken
<1>18. CASE RecvTryLock
  BY <1>18, <1>a, <1>t DEF RecvTryLock, TypeOK, IndexTaken
<1>19. CASE RecvSwap
  BY <1>19, FrameRecvSwap
<1>20. CASE RecvUnlock
  BY <1>20, <1>a, <1>t DEF RecvUnlock, TypeOK, IndexTaken
<1>21. CASE SendEnter
  BY <1>21, <1>a, <1>t DEF SendEnter, TypeOK, IndexTaken
<1>22. CASE SendBuild
  BY <1>22, <1>a, <1>t DEF SendBuild, TypeOK, IndexTaken
<1>23. CASE SendWrite
  <2>1. Append(wq, index - 1) \in Seq(Nat)
    <3>1. index - 1 \in Nat /\ wq \in Seq(Nat)
      BY <1>23, <1>t DEF SendWrite, TypeOK, IndexTaken
    <3> QED
      BY <3>1, AppendProperties
  <2> QED
    BY <1>23, <1>a, <1>t, <2>1 DEF SendWrite, TypeOK, IndexTaken
<1>24. CASE BarrierPass
  BY <1>24, <1>a, <1>t DEF BarrierPass, TypeOK, IndexTaken
<1>25. ASSUME NEW s \in Sizes, ServerSend(s) PROVE FrameInv'
  BY <1>25, FrameServerSend
<1>26. CASE UNCHANGED vars
  BY <1>26, <1>a, <1>t DEF vars, TypeOK, IndexTaken
<1> QED
  BY <1>1, <1>2, <1>3, <1>4, <1>5, <1>6, <1>7, <1>8, <1>9, <1>10, <1>11,
     <1>12, <1>13, <1>14, <1>15, <1>16, <1>17, <1>18, <1>19, <1>20, <1>21,
     <1>22, <1>23, <1>24, <1>25, <1>26 DEF Next, Loop, Game

LEMMA FrameAlways == Spec => []FrameInv
<1>1. Init => FrameInv
  <2> SUFFICES ASSUME Init PROVE FrameInv
    OBVIOUS
  <2>1. Len(Got) = 0 /\ Len(stream) = 0 /\ Len(bounds) = 0
    BY ConcatEmptySeq DEF Init, Got
  <2>2. TypeOK /\ IndexTaken
    <3>1. <<>> \in Seq(Nat) /\ <<>> \in Seq(Packets)
      BY EmptySeq
    <3> QED
      BY <3>1 DEF Init, TypeOK, IndexTaken
  <2>3. Framing /\ Reading /\ InOrder
    BY <2>1, NetAssumption DEF Init, Framing, Reading, InOrder, Start
  <2> QED
    BY <2>2, <2>3 DEF FrameInv
<1> QED
  BY <1>1, FrameStep, PTL DEF Spec

(* Every variable keeps its type: in particular what is read as            *)
(* Packet::size always is the size of a packet the server sent.            *)
THEOREM TypeCorrect == Spec => []TypeOK
<1>1. FrameInv => TypeOK
  BY DEF FrameInv
<1> QED
  BY <1>1, FrameAlways, PTL

(* The packets the engine gets are those the server sent: whole, once, in  *)
(* order, for every cut of the stream into reads and every interleaving.   *)
THEOREM InOrderAlways == Spec => []InOrder
<1>1. FrameInv => InOrder
  BY DEF FrameInv
<1> QED
  BY <1>1, FrameAlways, PTL

(* A connection reported by Net::init was made; a failure is one. *)
THEOREM InitTruthfulAlways == Spec => []InitTruthful
<1>1. ConnInv => InitTruthful
  BY DEF ConnInv
<1> QED
  BY <1>1, ConnAlways, PTL

(* Losing the connection crashes the process only if a write was under way. *)
THEOREM CleanUnlessCaughtAlways == Spec => []CleanUnlessCaught
<1>1. ConnInv => CleanUnlessCaught
  BY DEF ConnInv
<1> QED
  BY <1>1, ConnAlways, PTL

-----------------------------------------------------------------------------
(* Nothing stuck: a complete packet in gnet.buffer is one resolve_packet   *)
(* finds.                                                                  *)

LEMMA CompleteIsResolved ==
  ASSUME FrameInv, NEW k \in 1..Len(bounds), bounds[k] <= received, k > Len(Got)
  PROVE  CanResolve
<1> DEFINE n == Len(Got) + 1
<1>1. n \in 1..Len(bounds) /\ n <= k
  BY DEF FrameInv, TypeOK, InOrder, Got
<1>2. bounds[n] <= bounds[k]
  BY <1>1 DEF FrameInv, Framing
<1>3. bounds[n] \in Nat /\ bounds[k] \in Nat /\ received \in Nat /\ consumed \in Nat
  BY <1>1, ElementOfSeq DEF FrameInv, TypeOK
<1>4. HeaderSize = bounds[n] - consumed /\ HeaderSize \in Sizes
  BY <1>1 DEF FrameInv, Framing, Reading, HeaderSize
<1>5. HeaderSize >= HeaderLen /\ HeaderSize \in Nat
  BY <1>4, SizesPositive
<1> QED
  BY <1>2, <1>3, <1>4, <1>5, NetAssumption DEF CanResolve, BufferSize

LEMMA StuckStep == FrameInv /\ ConnInv /\ NothingStuck /\ [Next]_vars => NothingStuck'
<1> SUFFICES ASSUME FrameInv, ConnInv, NothingStuck, [Next]_vars PROVE NothingStuck'
  OBVIOUS
<1>a. ASSUME UNCHANGED <<bounds, received, inbox, delivered>>,
             lpc' \notin {"lock", "resolve"} => lpc \notin {"lock", "resolve"}
      PROVE  NothingStuck'
  BY <1>a DEF NothingStuck, Got
<1> USE DEF LoopAt, GameAt, streamVars, readVars, connVars, writeVars
<1>1. ASSUME NEW n \in 1..MaxStream, OnRead(n) PROVE NothingStuck'
  BY <1>1 DEF OnRead, NothingStuck
<1>2. CASE LoopLock
  BY <1>2 DEF LoopLock, NothingStuck
<1>3. CASE ResolvePacket
  BY <1>3 DEF ResolvePacket, NothingStuck
<1>4. CASE ResolveDone
  <2>1. ~CanResolve /\ Got' = Got /\ UNCHANGED <<bounds, received>>
    BY <1>4 DEF ResolveDone, Got
  <2>2. ASSUME NEW k \in 1..Len(bounds), bounds[k] <= received PROVE k <= Len(Got)
    <3>1. ~(k > Len(Got))
      BY <2>1, <2>2, CompleteIsResolved
    <3>2. Len(Got) \in Nat /\ k \in Nat
      BY DEF FrameInv, TypeOK, Got
    <3> QED
      BY <3>1, <3>2
  <2> QED
    BY <2>1, <2>2 DEF NothingStuck
<1>5. CASE RecvSwap
  <2>1. Got' = Got
    <3>1. delivered \o inbox \in Seq(Packets)
      BY ConcatProperties DEF FrameInv, TypeOK
    <3> QED
      BY <1>5, <3>1, ConcatEmptySeq DEF RecvSwap, Got
  <2> QED
    BY <1>5, <2>1 DEF RecvSwap, NothingStuck
<1>6. ASSUME NEW s \in Sizes, ServerSend(s) PROVE NothingStuck'
  <2> DEFINE n == Len(bounds)
  <2>1. bounds \in Seq(Nat) /\ n \in Nat /\ s \in Nat /\ s > 0
    BY SizesPositive DEF FrameInv, TypeOK
  <2>2. /\ received \in Nat /\ received <= Len(stream) /\ Len(stream) \in Nat
    BY DEF FrameInv, TypeOK, Reading
  <2>3. /\ bounds' = Append(bounds, Len(stream) + s)
        /\ Got' = Got /\ UNCHANGED <<received, lpc>>
    BY <1>6 DEF ServerSend, Got
  <2>4. /\ Len(bounds') = n + 1
        /\ \A k \in 1..n : bounds'[k] = bounds[k]
        /\ bounds'[n + 1] = Len(stream) + s
    BY <2>1, <2>2, <2>3
  <2>5. bounds'[n + 1] > received
    BY <2>1, <2>2, <2>4
  <2>6. ASSUME NEW k \in 1..(n + 1), bounds'[k] <= received PROVE k \in 1..n
    BY <2>1, <2>2, <2>4, <2>5, <2>6
  <2> QED
    BY <2>3, <2>4, <2>6 DEF NothingStuck
<1>7. CASE Loop
  BY <1>7, <1>1, <1>2, <1>3, <1>4, <1>a
     DEF Loop, EntryConnect, EntryRefused, OnConnectOk, OnConnectFailed,
         OnReadError, OnWriteOk, OnWriteError, ClearClient, OnWriteCancelled,
         OnClose
<1>8. CASE Game
  BY <1>8, <1>5, <1>a
     DEF Game, InitSpawn, InitCheck, RecvEnter, RecvTryLock, RecvUnlock,
         SendEnter, SendBuild, SendWrite, ConnInv, Rendezvous
<1>9. CASE BarrierPass
  BY <1>9, <1>a DEF BarrierPass
<1>10. CASE UNCHANGED vars
  BY <1>10, <1>a DEF vars
<1> QED
  BY <1>6, <1>7, <1>8, <1>9, <1>10 DEF Next

(* No complete packet waits in gnet.buffer for the next read. *)
THEOREM NothingStuckAlways == Spec => []NothingStuck
<1>1. Init => NothingStuck
  BY DEF Init, NothingStuck
<1> QED
  BY <1>1, StuckStep, FrameAlways, ConnAlways, PTL DEF Spec

-----------------------------------------------------------------------------
(* Outgoing packets. *)

OutInv ==
  /\ OutgoingInOrder
  /\ handle \in {"none", "connecting", "refused", "freed"} =>
       wq = <<>> /\ wire = <<>> /\ index = 0 /\ gpc \notin {"build", "write"}

LEMMA OutStep == FrameInv /\ ConnInv /\ OutInv /\ [Next]_vars => OutInv'
<1> SUFFICES ASSUME FrameInv, ConnInv, OutInv, [Next]_vars PROVE OutInv'
  OBVIOUS
<1>t. /\ index \in Nat /\ wq \in Seq(Nat) /\ wire \in Seq(Nat)
      /\ Len(wq) \in Nat /\ Len(wire) \in Nat
      /\ gpc = "write" => index > 0
  BY DEF FrameInv, TypeOK, IndexTaken
<1>c. /\ gpc \in {"idle", "try", "swap", "unlock", "build", "write"} =>
           handle \in {"open", "closing", "closed"}
      /\ HandleByPlace
  BY DEF ConnInv, InitTruthful
<1> USE DEF LoopAt, GameAt, streamVars, readVars, connVars, writeVars
<1>1. CASE OnWriteOk
  <2>1. /\ wire' = Append(wire, Head(wq)) /\ wq' = Tail(wq) /\ wq # <<>>
        /\ handle = "open" /\ UNCHANGED <<handle, index, gpc>>
    BY <1>1 DEF OnWriteOk
  <2>2. /\ Len(wq) > 0 /\ Head(wq) = wq[1] /\ Head(wq) \in Nat
        /\ Len(Tail(wq)) = Len(wq) - 1
        /\ \A i \in 1..Len(Tail(wq)) : Tail(wq)[i] = wq[i + 1]
    BY <1>t, <2>1, HeadTailProperties, EmptySeq
  <2>3. /\ Len(wire') = Len(wire) + 1
        /\ \A i \in 1..Len(wire) : wire'[i] = wire[i]
        /\ wire'[Len(wire) + 1] = wq[1]
    BY <1>t, <2>1, <2>2, AppendProperties
  <2>4. /\ Len(wire) + Len(wq) = Handed
        /\ \A i \in 1..Len(wq) : wq[i] = Len(wire) + i - 1
        /\ \A i \in 1..Len(wire) : wire[i] = i - 1
    BY <2>1 DEF OutInv, OutgoingInOrder
  <2>5. wq[1] = Len(wire)
    <3>1. 1 \in 1..Len(wq) /\ (Len(wire) + 1) - 1 = Len(wire)
      BY <1>t, <2>2
    <3> QED
      BY <2>4, <3>1
  <2>6. ASSUME NEW i \in 1..Len(wire') PROVE wire'[i] = i - 1
    <3>1. CASE i \in 1..Len(wire)
      BY <2>3, <2>4, <3>1
    <3>2. CASE i = Len(wire) + 1
      BY <1>t, <2>3, <2>5, <3>2
    <3> QED
      BY <1>t, <2>3, <3>1, <3>2
  <2>7. Len(wire') + Len(wq') = Handed'
    <3>1. Handed' = Handed
      BY <2>1 DEF Handed
    <3>2. Len(wq') = Len(wq) - 1
      BY <2>1, <2>2
    <3>3. Len(wire') + Len(wq') = Len(wire) + Len(wq)
      BY <1>t, <2>3, <3>2
    <3> QED
      BY <2>4, <3>1, <3>3
  <2>8. \A i \in 1..Len(wq') : wq'[i] = Len(wire') + i - 1
    BY <1>t, <2>1, <2>2, <2>3, <2>4
  <2> QED
    BY <2>1, <2>6, <2>7, <2>8 DEF OutInv, OutgoingInOrder
<1>2. CASE SendWrite
  <2>1. /\ gpc = "write" /\ gpc' = "idle" /\ UNCHANGED <<wire, index, handle>>
        /\ wq' = IF client /\ handle = "open" THEN Append(wq, index - 1) ELSE wq
    BY <1>2 DEF SendWrite
  <2>2. handle \in {"open", "closing", "closed"}
    BY <1>c, <2>1
  <2>3. ASSUME handle = "open"
        PROVE  /\ Len(wire') + Len(wq') = Handed'
               /\ \A i \in 1..Len(wq') : wq'[i] = Len(wire') + i - 1
    <3>1. wq' = Append(wq, index - 1) /\ index - 1 \in Nat
      BY <1>t, <2>1, <2>3 DEF ConnInv, ClientByHandle
    <3>2. /\ Len(wq') = Len(wq) + 1
          /\ \A i \in 1..Len(wq) : wq'[i] = wq[i]
          /\ wq'[Len(wq) + 1] = index - 1
      BY <1>t, <3>1, AppendProperties
    <3>3. /\ Len(wire) + Len(wq) = index - 1
          /\ \A i \in 1..Len(wq) : wq[i] = Len(wire) + i - 1
      BY <2>1, <2>3 DEF OutInv, OutgoingInOrder, Handed
    <3>4. Handed' = index
      BY <2>1 DEF Handed
    <3>5. Len(wire') + Len(wq') = index
      <4>1. Len(wire) + (Len(wq) + 1) = index
        BY <1>t, <3>3
      <4> QED
        BY <2>1, <3>2, <4>1
    <3>6. ASSUME NEW i \in 1..(Len(wq) + 1) PROVE wq'[i] = Len(wire) + i - 1
      <4>1. CASE i \in 1..Len(wq)
        BY <3>2, <3>3, <4>1
      <4>2. CASE i = Len(wq) + 1
        <5>1. Len(wire) + i - 1 = index - 1
          BY <1>t, <3>3, <4>2
        <5> QED
          BY <3>2, <4>2, <5>1
      <4> QED
        BY <1>t, <4>1, <4>2
    <3> QED
      BY <2>1, <3>2, <3>4, <3>5, <3>6
  <2> QED
    BY <2>1, <2>2, <2>3 DEF OutInv, OutgoingInOrder
<1>3. CASE SendBuild
  BY <1>3, <1>t, <1>c DEF SendBuild, OutInv, OutgoingInOrder, Handed
<1>4. CASE OnConnectOk
  BY <1>4, <1>t, <1>c DEF OnConnectOk, OutInv, OutgoingInOrder, Handed, HandleByPlace
<1>5. CASE Loop
  BY <1>5, <1>1, <1>4, <1>c
     DEF Loop, EntryConnect, EntryRefused, OnConnectFailed, OnRead, LoopLock,
         ResolvePacket, ResolveDone, OnReadError, OnWriteError, ClearClient,
         OnWriteCancelled, OnClose, OutInv, OutgoingInOrder, Handed, HandleByPlace
<1>6. CASE Game
  BY <1>6, <1>2, <1>3, <1>c
     DEF Game, InitSpawn, InitCheck, RecvEnter, RecvTryLock, RecvSwap,
         RecvUnlock, SendEnter, OutInv, OutgoingInOrder, Handed
<1>7. CASE BarrierPass
  BY <1>7 DEF BarrierPass, OutInv, OutgoingInOrder, Handed
<1>8. ASSUME NEW s \in Sizes, ServerSend(s) PROVE OutInv'
  BY <1>8 DEF ServerSend, OutInv, OutgoingInOrder, Handed
<1>9. CASE UNCHANGED vars
  BY <1>9 DEF vars, OutInv, OutgoingInOrder, Handed
<1> QED
  BY <1>5, <1>6, <1>7, <1>8, <1>9 DEF Next

(* While the connection stands, each packet Net::send numbered is on the   *)
(* wire or queued for it, in the order of the numbers, none twice.         *)
THEOREM OutgoingInOrderAlways == Spec => []OutgoingInOrder
<1>1. Init => OutInv
  BY EmptySeq DEF Init, OutInv, OutgoingInOrder, Handed
<1>2. OutInv => OutgoingInOrder
  BY DEF OutInv
<1> QED
  BY <1>1, <1>2, OutStep, FrameAlways, ConnAlways, PTL DEF Spec

-----------------------------------------------------------------------------
(* Net implements Inbox. *)

(* What the refinement mapping takes for Inbox's sent. *)
Sent == [k \in 1..Len(bounds) |-> SentPacket(k)]

LEMMA SentIsSeq ==
  ASSUME FrameInv
  PROVE  Sent \in Seq(Packets) /\ Len(Sent) = Len(bounds)
<1>1. Len(bounds) \in Nat
  BY DEF FrameInv, TypeOK
<1>2. ASSUME NEW k \in 1..Len(bounds) PROVE SentPacket(k) \in Packets
  <2>1. Start(k) \in Nat /\ Start(k) <= Len(stream)
    BY <1>1, StartInStream DEF FrameInv
  <2>2. Len(stream) \in Nat /\ Len(stream) <= MaxStream
    BY DEF FrameInv, TypeOK, Framing
  <2>3. bounds[k] - Start(k) \in Sizes
    BY DEF FrameInv, Framing
  <2>4. Start(k) \in 0..MaxStream
    BY <2>1, <2>2, NetAssumption
  <2> QED
    BY <2>3, <2>4 DEF SentPacket, Packets
<1> QED
  BY <1>1, <1>2 DEF Sent

(* A prefix of what was sent is what Got is. *)
LEMMA GotIsPrefix ==
  ASSUME FrameInv
  PROVE  Got = SubSeq(Sent, 1, Len(Got))
<1> DEFINE prefix == SubSeq(Sent, 1, Len(Got))
<1>1. /\ Got \in Seq(Packets) /\ Len(Got) \in Nat /\ Len(Got) <= Len(bounds)
      /\ Len(bounds) \in Nat
  BY ConcatProperties DEF FrameInv, TypeOK, InOrder, Got
<1>2. ASSUME NEW k \in 1..Len(Got) PROVE Sent[k] = Got[k] /\ Sent[k] \in Packets
  <2>1. k \in 1..Len(bounds)
    BY <1>1
  <2>2. Got[k] = SentPacket(k) /\ Got[k] \in Packets
    BY <1>1, ElementOfSeq DEF FrameInv, InOrder
  <2> QED
    BY <2>1, <2>2 DEF Sent
<1>3. /\ prefix \in Seq(Packets)
      /\ Len(prefix) = Len(Got)
      /\ \A k \in 1..Len(Got) : prefix[k] = Sent[k]
  <2>1. \A k \in 1..Len(Got) : Sent[k] \in Packets
    BY <1>2
  <2>2. /\ prefix \in Seq(Packets)
        /\ Len(prefix) = IF 1 <= Len(Got) THEN Len(Got) - 1 + 1 ELSE 0
        /\ \A i \in 1..(Len(Got) - 1 + 1) : prefix[i] = Sent[1 + i - 1]
    BY <1>1, <2>1, SubSeqProperties
  <2> QED
    BY <1>1, <2>2
<1> HIDE DEF prefix
<1>4. \A k \in 1..Len(Got) : Got[k] = prefix[k]
  BY <1>2, <1>3
<1>5. Got = prefix
  BY <1>1, <1>3, <1>4, SeqEqual
<1> QED
  BY <1>5 DEF prefix

LEMMA AbstractStep ==
  FrameInv /\ FrameInv' /\ [Next]_vars => [Abstract!Next]_<<Sent, delivered>>
<1> SUFFICES ASSUME FrameInv, FrameInv', [Next]_vars
             PROVE  [Abstract!Next]_<<Sent, delivered>>
  OBVIOUS
<1>a. ASSUME UNCHANGED bounds PROVE Sent' = Sent
  BY <1>a DEF Sent, SentPacket, Start
<1> USE DEF LoopAt, GameAt, streamVars, readVars, connVars, writeVars
<1>1. ASSUME NEW s \in Sizes, ServerSend(s) PROVE \E p \in Packets : Abstract!Send(p)
  <2> DEFINE n == Len(bounds)
             p == [at |-> Len(stream), size |-> s]
  <2>1. bounds \in Seq(Nat) /\ n \in Nat /\ s \in Nat /\ s > 0
    BY SizesPositive DEF FrameInv, TypeOK
  <2>2. /\ Len(stream) \in Nat /\ Len(stream) <= MaxStream
        /\ Len(stream) = Start(n + 1)
    BY DEF FrameInv, TypeOK, Framing
  <2>3. p \in Packets
    BY <2>2, NetAssumption DEF Packets
  <2>4. bounds' = Append(bounds, Len(stream) + s) /\ delivered' = delivered
    BY <1>1 DEF ServerSend
  <2>5. /\ Len(bounds') = n + 1
        /\ \A k \in 1..n : bounds'[k] = bounds[k]
        /\ bounds'[n + 1] = Len(stream) + s
    BY <2>1, <2>2, <2>4
  <2>6. ASSUME NEW k \in 1..(n + 1) PROVE Start(k)' = Start(k)
    <3>1. CASE k = 1
      BY <3>1 DEF Start
    <3>2. CASE k # 1
      <4>1. k - 1 \in 1..n
        BY <2>1, <3>2
      <4>2. bounds'[k - 1] = bounds[k - 1]
        BY <2>5, <4>1
      <4> QED
        BY <3>2, <4>2 DEF Start
    <3> QED
      BY <3>1, <3>2
  <2>7. ASSUME NEW k \in 1..n PROVE SentPacket(k)' = Sent[k]
    BY <2>1, <2>5, <2>6 DEF SentPacket, Sent
  <2>8. ASSUME NEW k \in 1..(n + 1), k = n + 1 PROVE SentPacket(k)' = p
    <3>1. Start(k)' = Len(stream)
      BY <2>2, <2>6, <2>8
    <3>2. bounds'[k] - Start(k)' = s
      BY <2>1, <2>2, <2>5, <2>8, <3>1
    <3> QED
      BY <3>1, <3>2 DEF SentPacket
  <2> HIDE DEF p
  <2>9. Sent \in Seq(Packets) /\ Len(Sent) = n
    BY SentIsSeq
  <2>10. Append(Sent, p) \in Seq(Packets) /\ Len(Append(Sent, p)) = n + 1
    BY <2>3, <2>9, AppendProperties
  <2>11. ASSUME NEW k \in 1..(n + 1) PROVE Sent'[k] = Append(Sent, p)[k]
    <3>1. Sent'[k] = SentPacket(k)'
      BY <2>5 DEF Sent
    <3>2. CASE k \in 1..n
      BY <2>3, <2>7, <2>9, <3>1, <3>2, AppendProperties
    <3>3. CASE k = n + 1
      BY <2>3, <2>8, <2>9, <3>1, <3>3, AppendProperties
    <3>4. k \in 1..n \/ k = n + 1
      BY <2>1
    <3> QED
      BY <3>2, <3>3, <3>4
  <2>12. Sent' \in Seq(Packets) /\ Len(Sent') = n + 1
    <3>1. Sent' = [k \in 1..(n + 1) |-> SentPacket(k)']
      BY <2>5 DEF Sent
    <3>2. \A k \in 1..(n + 1) : SentPacket(k)' \in Packets
      BY <2>10, <2>11, <3>1, ElementOfSeq
    <3>3. n + 1 \in Nat
      BY <2>1
    <3> QED
      BY <3>1, <3>2, <3>3
  <2>13. Sent' = Append(Sent, p)
    BY <2>10, <2>11, <2>12, SeqEqual
  <2> QED
    BY <2>3, <2>4, <2>13 DEF Abstract!Send, Sent
<1>2. CASE RecvSwap
  <2> DEFINE n == Len(Got)
  <2>1. delivered' = Got /\ Sent' = Sent
    BY <1>2, <1>a DEF RecvSwap, Got
  <2>2. n \in Len(delivered)..Len(Sent)
    <3>1. /\ Len(delivered) \in Nat /\ Len(inbox) \in Nat
          /\ n = Len(delivered) + Len(inbox) /\ n <= Len(bounds) /\ Len(bounds) \in Nat
      BY ConcatProperties DEF FrameInv, TypeOK, InOrder, Got
    <3> QED
      BY <3>1, SentIsSeq
  <2>3. delivered' = SubSeq(Sent, 1, n)
    BY <2>1, GotIsPrefix
  <2>4. Abstract!Deliver(n)
    BY <2>1, <2>3 DEF Abstract!Deliver, Sent
  <2> QED
    BY <2>2, <2>4 DEF Abstract!Next, Sent
<1>3. CASE Loop
  BY <1>3, <1>a
     DEF Loop, EntryConnect, EntryRefused, OnConnectOk, OnConnectFailed, OnRead,
         LoopLock, ResolvePacket, ResolveDone, OnReadError, OnWriteOk,
         OnWriteError, ClearClient, OnWriteCancelled, OnClose
<1>4. CASE Game
  BY <1>4, <1>2, <1>a
     DEF Game, InitSpawn, InitCheck, RecvEnter, RecvTryLock, RecvUnlock,
         SendEnter, SendBuild, SendWrite
<1>5. CASE BarrierPass
  BY <1>5, <1>a DEF BarrierPass
<1>6. CASE UNCHANGED vars
  BY <1>6, <1>a DEF vars
<1>7. ASSUME NEW s \in Sizes, ServerSend(s) PROVE Abstract!Next
  BY <1>1, <1>7 DEF Abstract!Next
<1> QED
  BY <1>3, <1>4, <1>5, <1>6, <1>7 DEF Next

(* Net, with its two threads, buffer and lock, is a FIFO queue of whole    *)
(* packets to the engine: ServerSend is Send, RecvSwap is Deliver, every   *)
(* other step is a stutter.                                                *)
THEOREM NetImplementsInbox == Spec => ImplementsInbox
<1>1. Init => Abstract!Init
  BY DEF Init, Abstract!Init
<1>2. FrameInv /\ FrameInv' /\ [Next]_vars => [Abstract!Next]_Abstract!vars
  BY AbstractStep DEF Abstract!vars, Sent
<1> QED
  BY <1>1, <1>2, FrameAlways, PTL DEF Spec, ImplementsInbox, Abstract!Spec

=============================================================================
