# A TLA+ model of ttm

ttm is an automation client for an Android game.  `bootstrap` injects
`libbridge.so` into the zygote; the bridge's hook of `fopen` makes a game load
`libpayload.so`; its constructor runs `Engine::init`, which connects to a
control server and hooks the game's main loop.  From then on every frame
handles the server's commands and runs Lua scripts, which read the game
through a set of readers and act on it through a Lua API.

This directory holds TLA+ modules translated from the code under `src/`, TLC
configurations that check them on small instances, and proofs for all values
of the constants, checked by TLAPS.

## 1. The system

```
 bootstrap  --ptrace-->  zygote: dlopen libbridge.so, init_func hooks fopen
                            | fork
                         game: $fopen("clientdata") -> libpayload.so -> Engine::init
                                                                          |
 control server <--TCP--> loop thread (net.cpp) <--gnet--> game thread: Engine::tick
                                                             |-- commands: control, config
                                                             |-- Lua: guard, main, sync
                                                             |     |-- readers (resource, card, actor, ...)
                                                             |     `-- UI tree (Xpath)
                                                             `-- JSON decoder (config -> GConfig)
```

| Component | Source | State | Operations | Module |
|---|---|---|---|---|
| Network connection | `net.cpp` | `gnet`: buffer, received packets, lock, client, index; libuv's handle and write queue | `Net::init`, `recv`, `send`; the loop's callbacks | `Net`, implementing `Inbox` |
| Engine | `engine.cpp` | `gconfig.is_paused`, the stage of `init`, Lua's `GConfig` | `Engine::init`, `tick`, `paused`, `login`; `on_control`, `on_config` | `Engine` |
| Ticks, script loading | `engine.cpp` | three last times, the static mtime of `load_lua` | `guard_tick`, `main_tick`, `sync_tick`, `load_lua` | `Ticks` |
| JSON decoder | `json2lua.cpp`, `update_config` | the Lua stack, `handler.context`, `handler.stack` | one handler function per token | `JsonDecode` |
| UI tree | `ui.cpp`, Xpath part of `api.cpp`, `sync_send` | trees of `Xpath`, userdata | `genXpath`, `delXpath`, `travelXpath`, `click`, `xpath_gc` | `Xpath` |
| Resource tables | `resource.cpp` | locals of a search, `isReady`'s latch | `getTable`, `getValuePtr`, `getName`, `isReady` | `TreeSearch`, `ValueSearch`, `Readers`, `Api` |
| Cards | `card.cpp` | locals of a walk | `Card::getAll` | `CardWalk`, `Readers` |
| Actor | `actor.cpp` | locals of a walk; flags in the game | `props`, `stats`, `pos`, `self`, `automan`, `attach`, `select`, `selected` | `PropsWalk`, `Readers`, `Api` |
| Spells, entities | `spell.cpp`, `entity.cpp` | locals of a search | `isLearned`, `getAll`, `use`; `getPlayerInGameData`, `all`, `get`, `enemy` | `TreeSearch`, `Readers`, `Api` |
| Inventory, buffs, map, chat | `inventory.cpp`, `buff.cpp`, `map.cpp`, `chat.cpp` | none | `getAll`, `limit`, `useItemById`, `useItemByPtr`; `describe`; `log` | `Readers`, `Api` |
| Lua API | `api.cpp` | userdata of Xpath nodes; the pointers scripts keep | one function for each name a script can call | `Xpath`, `Api` |
| Bootstrap | `bootstrap.c` | results of remote calls, the target's saved registers, the bytes written into it | `find_pid_of`, `inject_remote_process` | `FindPid`, `Poke`, `Bootstrap` |
| Bridge | `bridge.cpp`, `payload.cpp` | `once`, `hook_once`, the hook | `init_func`, `$fopen`, `load_payload` | `Bootstrap` (the zygote's side), `Bridge` |

How they interact, and what is hard about each:

* **Net** has two threads.  The loop thread appends to `gnet.recv` under
  `gnet.lock`; the game thread swaps it out under a `try_lock`.  `gnet.client`
  is read and written by both without a lock.  TCP cuts packets anywhere.  The
  connection may be lost at any point, with writes queued, and the loop's
  `on_close` then leaves the process.
* **Engine** has up to three actors: whoever runs `Engine::init`, the game
  thread, and the loop thread (`on_close` calls `Engine::paused`).  Commands
  come in batches, and `is_paused` is looked at once per batch.
* **Ticks** compares a difference of `uint64_t` wall-clock times with an `int`,
  on a clock the user may set back; the script file may be written between
  `lstat` and `luaL_dofile`.
* **JsonDecode** works on the engine's own Lua stack, where nothing repairs a
  slot too many or too few; a text may break off at any token.
* **Xpath** frees the root of a tree only, and hands out several userdata for
  one root if a route ends where it starts; collection comes in any order.
* **Searches and walks** read the game's red-black trees and sorted tables by
  offset; what can go wrong is at the edges: header, empty table, last record,
  signed against unsigned keys.
* **Readers and API** run between two frames of the game on objects it may free
  in any frame; a script may keep their addresses.  `isReady` is asked once and
  answers for ever.  Numbers pass through `int`, `uint64_t`, rapidjson's typed
  getters and `lua_Integer`.
* **Bootstrap** finds its target in a directory that changes as it is read, and
  calls into a stopped process: calls may fail, crash, or be interrupted by
  signals, and the process may die, between any two words written into it.
* **Bridge** races the game's threads on `hook_once`.

## 2. The modules

In every module a variable is the code's variable of that name, or says in its
comment what it stands for; a *history* variable only records what happened, for
the properties.  An operator whose comment begins "Mutant of" is a plausible
mistake in the definition it precedes; nothing uses it, and it shows what a
property would catch.

### Inbox, Net

`Inbox` is the promise: the packets sent arrive whole, once each, in order, any
number at a time.  `Net` is `net.cpp`.

* A *unit* is some bytes of the stream.  `gnet.buffer` is the window between
  `consumed` and `received`, so `append` and `erase` move its ends, and a packet
  is a position and a size.
* The loop thread's steps: `EntryConnect`/`EntryRefused` (entry up to
  `uv_tcp_connect`), `OnConnectOk`/`OnConnectFailed`, `OnRead` (append),
  `LoopLock`, `ResolvePacket` (one packet each, as the code recurses),
  `ResolveDone`, `OnReadError`, `OnWriteOk`, `OnWriteError`, `ClearClient` (the
  assignment after `uv_close`), `OnWriteCancelled`, `OnClose`.
* The game thread's: `InitSpawn`, `InitCheck`, `RecvEnter`, `RecvTryLock`,
  `RecvSwap`, `RecvUnlock`, `SendEnter` (the check of `gnet.client`),
  `SendBuild` (index and packet), `SendWrite` (`uv_write`, with `gnet.client`
  read again).  `BarrierPass` is both threads' `uv_barrier_wait`.
* A use of the NULL client ends the process: `proc = "crashed"`.

### Engine

`Engine` is `Engine::init` as a sequence of stages, each of which may fail
(`InitFails`), and `Engine::tick` as `TickStart`, `Recv` (one batch from the
`Inbox`), `HandleControl`, `HandleUnknown`, `UpdateConfig` and `ConfigAck` (the two
halves of `on_config`), `Gate` (the look at `is_paused` after the batch) and
`RunTicks`.  The ack's `succeed` is the value `update_config` returns, as in the
code: `outcome` carries 0 or -1, with the message, from the one half to the other.
`Lose`, `OnClose` and `Exit` are the loop thread's.  The network is
the abstract `Inbox`, which `Net` is shown to implement.  `InitOnGameThread` says
whether `Engine::init` runs on the thread of the main loop: the code leaves that
to whichever thread opens the client data.

### Ticks

One action per call in a tick: `StatLua` and `DoFile` (the two halves of
`load_lua`), `GuardTick`, `MainTick`, `SyncTick`; around them `ClockOn`,
`ClockBack`, `Edit` and `Remove` by the world.  Times are numbers modulo
`Modulus`, which stands for 2^64.

### JsonDecode

rapidjson's reader is the nondeterministic side: it may give any token its own
grammar allows, or break off (`Failed`).  The handler is `Scalar`, `Key`,
`StartObject`, `StartArray`, `EndObject`, `EndArray` over `Submit`, which stores
a value in the table below; `Read` and `UpdateConfig` are the two callers.  The
Lua stack is a sequence of slots, so a pop too many shows; a value has a slot of
its own until `Submit` has stored it, so a third slot does too.  `peak` and `deep`
are histories: the most slots and the most open containers so far.

### Xpath

`GenXpath` copies the enabled part of the scene.  A node is a pair of a tree's
number and the scene's node, so a freed node is never mistaken for a new one.
`TravelWhole`, `TravelRoute` and `TravelFrom` are `UI.travel` and the method of a
handle; `TravelStep`, `TravelFound`, `TravelLost` walk the route, by `Pattern`: a component
that begins with `$` is compared with the class only, any other with the name only.
`Click`, `Drop`, `Collect` and `SyncSend` are the rest.  `Click`, and `Act` for
any other call that has the game do something, may change the scene within the tick
(`SceneChanges`).  `Collect` deletes what `Owned` says, which is the code's `free`
flag, and `Freed` what that `delete` frees: the root, none of its children.

### Tree, TreeSearch, CardWalk, PropsWalk, ValueSearch, Shapes

`Tree` says what a libstdc++ tree is (external: the game's), with its nodes
numbered in key order.  `TreeSearch` is the one loop three files share, on
w-bit keys compared as signed; `CardWalk` is the walk by successors;
`PropsWalk` the walk
with a stack, which extends it so that both run beside each other on one tree; `ValueSearch` the binary search.
`Shapes` enumerates all trees up to a size for TLC.

### Readers, Api

`Readers` says what document each reader makes of the game's memory.  A *game* is a
record: `up`, the managers and tables whose pointers are not NULL, the static
tables' rows, and the lists and maps, with the fields the readers read for the
bytes at their offsets.  The searches and walks over trees are not repeated: they
are the modules above, and `Rows` has the one consequence of `ValueSearch` that
shows, the last record that is never found.  A document is a record; `f ++ g` is
what `AddMember` makes of one that gets further members, and enemies are listed by
their two places, the order the code finds them in.  Conversions are modelled by what they
do: `ToInt` keeps the low bits, `GetName` gives "?", a position or a clan may be
missing.

`Api` has one action for each function a script can call.  `Call` is what they
share: the pointers dereferenced (`need`), the typed getters (`Fits`), what is
returned and what the game is told.  A NULL pointer or a misused getter ends the
process: `fault`.  `SyncActor` is the one reader the engine itself calls; `IsReady`
its guard and a script's.  Around them the script keeps a pointer (`Keep`) and the
game moves to any other state (`GameStep`).  `out` and `left` record that something
has gone in between.

### FindPid, Poke

`FindPid` is `find_pid_of` a step at a time: `ReadDir`, `Open`, `Gets`, `Compare`,
while processes are forked, renamed and end (`Fork`, `Rename`, `Exit`).  `Poke`
extends it with what `inject_remote_process` writes: `Prepare` works out the address
of a function (`RemoteAddr`) and its parameters, for ARM and for x86; `PokeWord` and
`PokeRest` are one `PTRACE_POKETEXT` each; `Run`, `Return` and `Crash` stand for the
call, whose stops and signals are `Bootstrap`'s.  The code takes a crash for a
return: `ptrace_getregs` then gives it the stack pointer the function had when it
faulted, and the next call goes on from there (`Back`).  Memory is a function from addresses to
the byte of a string or a parameter written there, or what was there before; a word
is four of them.  `StackUsed` is how far down they go
together: twelve words, and twice the `Frame` words a crashed function has on the
stack with the return address nobody popped, for `dlopen` and `dlsym`; a crash in
`init_func` is followed by no call.

### Bootstrap, Bridge

`Bootstrap` has one action per `ptrace` exchange of `inject_remote_process`
(`Attach`, `GetRegs`, `Call`, `AnotherStop`, `Back`, `Restore`, with `GiveUp` and
`Refused` for the error paths), and the target's: a call returns, crashes, or
runs `init_func` (`InitFunc`, `InitShooting`, `InitLatch`, `InitReturn`).
`Bridge` extends it with the processes forked from the zygote and each thread's
way through `$fopen` (`Test`, `Set`, `LoadHoudini`, `LoadPayload`, `InitEnds`,
`InitHangs`, `Open`).  `InitHangs` is `Net::init` waiting at its barrier for ever.  `Set` is a step of its own since another thread may test before it.

## 3. The runs

| Run | Instance | What it shows |
|---|---|---|
| `net` | headers of 2 units, packets of 2 and 3, 7 units sent, 2 sends, fair | `InOrder`, `NothingStuck`, `OutgoingInOrder`, `CleanUnlessCaught`, `Net` implements `Inbox`; `InitEnds`, `EverythingDelivered`, `LossEndsProcess` |
| `engine` | 3 commands, `Engine::init` on its own thread, fair | `OnlyIfStarted`, `ConfigIsLastAccepted`, `AcksTruthful`, `NoneUnacked`, `ConfigAcked`, `StartRuns` |
| `ticks` | clock up to 5, periods 1, default 2 and -1, 2 edits, fair | `NoEarlyFiring`, `LoadedOnce`, `EditReachesLua` |
| `json_decode` | 4 containers of up to 2 members | `CountsAgree`, `StoresInPlace`, `Balanced`, `HeightBound` |
| `xpath` | a scene of 4 nodes, 2 trees, 3 handles, 9 routes | `OnlyAliasesDangle`, `FoundIfThere`, `FreshReachable` |
| `tree_search` | all trees up to 4 nodes, 3-bit keys, both orders | `FindsIfThere` |
| `walks` | all trees up to 6 nodes, both walks on each | `InKeyOrder`, `EachOnce` |
| `value_search` | all sorted tables up to 6 records | `FindsAllButLast` |
| `api` | 27 games, from any to any other between two calls; one kept pointer | `ReadyMeansReadable`, `PointersLive`, `NumbersTrue` |
| `inject` | 4 pids; a mapping of 24 bytes and what is around it, 3 tokens, calls that crash with up to 2 words on the stack, ARM and x86 | `FindsZygote`, `CalledAsMeant`, `OwnMemoryOnly` |
| `bridge` | 2 runs of bootstrap, 1 signal, a game of 2 threads, 4 kinds of device, fair | `LeftAsFound`, `LatchAgrees`, `ReadWithPayload`, `Ends`, `Loads` |

Why the bounds are enough to meet the hard cases:

* `net`: a packet of two units is all header, one of three has a body; seven
  units hold three packets in several mixtures, so every read boundary inside a
  header, inside a body and between packets occurs, with one, two and three
  packets in a read.  Two sends meet a write queued before another and one
  queued at the loss.
* `engine`: three commands allow start-stop-start in one batch and in several, a
  config accepted, refused, then any other, and the ack of each raced by a loss.
* `ticks`: with a clock of six values and `Modulus` 16 a clock set back wraps,
  and two units per `st_mtime` second allow two edits within one second.
* `json_decode`: four containers nest an array in an object in an array and
  still leave a sibling; two members each give a second index and a second key.
* `xpath`: two trees make a second tree beside handles to the first; three
  handles allow two to one root and one to a child; the scene has two children
  of one name, the second with a child hidden by the first; that child's name
  begins with `$`, and a route asks for it.
* trees of six nodes include every local shape the successor walk distinguishes
  (a root with and without a right child, climbing one, two and three levels);
  the proofs cover the rest.
* `api`: in each game one manager or table is missing, or all are, or the items,
  entities, enemies, job, selection, places or the game loop's time are otherwise
  than usual; since the game may move between any two of them, each pair of a call
  and a loss before it occurs.  Widths are scaled: `int` holds -8..7, `uint64_t`
  64 values, so that a count above the signed middle and a wrapped difference
  both occur.
* `inject`: four pids put a process before and one behind the zygote; strings of
  one word and a part, of a part only, of words only, and one longer than what
  is left of the mapping.  Frames of no, one and two words at a crash, in one call and
  in two, make the lowest address written exactly `Sp - StackUsed`.  Addresses are numbers modulo 256 for 2^32.
* `bridge`: two runs of bootstrap meet a first one that stopped halfway; two
  threads meet the race on `hook_once`.

`CHECK_DEADLOCK FALSE` is set wherever the program really stops: a search that
has returned, a process that has exited, all bounds used up.  In `ticks` it is
not set: the game keeps drawing.

### What the properties leave room for

Several are stated with an exception, because that is what the code does:

* `FindsAllButLast`: `getValuePtr` never tests its upper bound, so the last
  record of every table, and the only one of a table of one, is not found.
* `OnlyAliasesDangle`: a route that ends where it starts gives a second userdata
  for a root; the first collection frees it under the second.
  `delete root` frees the root only: every `sync` loses the copies of the scene's
  nodes, and scripts' handles to children rely on just that.
* `AcksTruthful`: an ack's `succeed` is 0 for a config that was accepted and -1 for
  one refused.  Whoever reads it as a truth value reads the opposite.
* `ConfigAcked` and `StartRuns` say nothing of a process whose `Engine::init` failed:
  it runs on without its engine, and nobody is told.
* `HeightBound`: the stack holds at most two slots for each container that has been
  open at once, and the value.  How deep a config nests is the server's choice, and
  the decoder never asks for room.
* `CleanUnlessCaught`: a connection lost while a write is queued, or while
  `Net::send` is between its check and `uv_write`, ends in a use of the NULL
  client instead of `on_close`'s `exit(0)`.
* `InitEnds`: if `uv_tcp_connect` itself refuses, nobody arrives at the barrier
  and `Net::init` never returns.
* `FindsIfThere`: addresses are compared as signed; the search agrees with the
  game's order only while all keys lie on one side of the middle.
* `NoEarlyFiring`: a clock set back makes a timer fire at once, by wrapping.  A
  negative period, as `uint64_t`, never passes.
* `EditReachesLua`: two edits in one second of `st_mtime` may leave the second
  one unseen; `LoadedOnce`: an edit between `lstat` and `dofile` is run twice.
* `ReadyMeansReadable`: it holds until the game lets go of something `isReady`
  looked at, and says nothing of what it does not look at: `ClientDataManager`,
  `SelectedObjectManager`, `AutoSelector`, `CharacterPlayManager`,
  `PlayerInGameData`, `Actor` and the table `SpellLearnLimit`.
* `PointersLive`: `Inventory.useByPtr` and `Actor.select` hand on whatever address
  the script has kept.
* `NumbersTrue`: `Actor.props` and the sync read a negative job with `GetUint64`;
  a buff whose time is over, or a missing game loop, gives a wrapped time.
* `FindsZygote`: a child that still bears the zygote's name and has a lower pid is
  taken for it.
* `OwnMemoryOnly`: a token longer than what is left of the mapping is written
  past its end.  What is within `StackUsed` below the stack pointer is taken as
  free: the twelve words, and what crashed calls leave above the next one's.
* `ReadWithPayload`: a thread that tests `hook_once` while another is still loading
  goes on without the payload.
* `Loads`: where `Net::init` waits for ever, the payload never finishes loading.
* `LeftAsFound` says nothing of signals: one that stops the target during a call
  is swallowed.  And where `dlsym` fails address 0 is called all the same; the
  fault is taken for a return.

### Fairness

Only what the scheduling of the code gives:

* `Net`: both threads are scheduled (weak fairness of each step that goes on);
  the blocking `lock()` of the loop gets its turn although the game thread
  takes the lock every frame (strong fairness of `LoopLock`); an attempt to connect
  is answered.  Nothing is assumed of the server, of errors, or of sends.
* `Engine`: `Engine::init` goes on, frames go on, and a command sent is one day
  returned by `Net::recv` (strong fairness of `Recv` with something new, which is
  what `Net`'s `EverythingDelivered` says).
* `Ticks`: frames go on.
* `Bootstrap`, `Bridge`: bootstrap runs on, what it calls returns or crashes, the
  game's threads run on.

The other runs check safety only and assume no fairness.

## 4. The proofs

Every safety invariant and action property the runs check is also a theorem,
for every value of the constants that satisfies the named assumptions below.
Each proof module extends the modules it is about.

| Module | About | Theorems | Inductive invariant |
|---|---|---|---|
| `NetProofs` | `Net` | `TypeCorrect`, `InboxExclusiveAlways`, `InOrderAlways`, `InitTruthfulAlways`, `CleanUnlessCaughtAlways`, `NothingStuckAlways`, `OutgoingInOrderAlways`, `NetImplementsInbox` | `ConnInv`: what each place of the two threads says of the handle and the client; `LockInv`; `FrameInv`: the offsets lie on packet boundaries; `OutInv` |
| `EngineProofs` | `Engine` | `TypeCorrect`, `OnlyIfStartedAlways`, `StartObeyedAlways`, `ConfigIsLastAcceptedAlways`, `AcksTruthfulAlways`, `NoneUnackedAlways`, `LoginFirstAlways` (with `Engine::init` on the game thread) | `QueueInv`: delivered is a prefix of sent, and the config being handled; on it `GateInv`, `AckInv`, `LoginInv` |
| | `Ticks` | `TicksTypeCorrect`, `NoEarlyFiringAlways`, `NeverAheadAlways`, `NegativeNeverAlways`, `LoadedOnceAlways` | `TimerInv`: a timer's last time lies ahead only if the clock was set back; `ScriptInv`: an edit that was tried has left its time in `load_lua` |
| `JsonDecodeProofs` | `JsonDecode` | `TypeCorrect`, `CountsAgreeAlways`, `HeightBounded`, `BalancedAlways`, `StoresInPlaceAlways` | `DecodeInv`: every open container has a context that agrees with it, and the stack's height is a slot for each open container and each waiting key; `PeakInv`: the same of the most there have been, with a value not yet stored; `StoreInv`: the table of each open container is in the slot that the containers and keys before it leave, has been given what the reader counted, and is no other's |
| `XpathProofs` | `Xpath` | `TypeCorrect`, `OnlyAliasesDangleAlways`, `FoundIfThereAlways`, `FreshReachableAlways` | `XpathInv`: every copy made is allocated, handles lead to copies or roots, no root goes before one of its handles; `FoundInv`: the walk stands where the components behind it lead, and if none of them is ambiguous nowhere else is led to; the copies of this turn are of nodes still enabled |
| `TablesProofs` | `CardWalk`, `PropsWalk` | `TypeCorrect`, `InKeyOrderAlways`, `EachOnceAlways` | `WalkInv`: visiting, the node at hand is the next; going down, it is the first below; climbing, all below it is done. `PropsInv`: the nodes put aside lie behind all that is below the node at hand, each behind all that is below the one on top of it; without that a node could be below two of them and come twice. The lemma `SideBySide` says that the run's specification of both walks implies each |
| | `TreeSearch` | `SearchTypeCorrect`, `FindsIfThereAlways` | `SearchInv`: a node with the key is below the node at hand |
| | `ValueSearch` | `ValueTypeCorrect`, `FindsAllButLastAlways` | `ValueInv`: a key in the table is between the bounds, and an upper bound that has moved is not its place |
| `ApiProofs` | `Api`, `Readers` | `TypeCorrect`, `ReadyMeansReadableAlways`, `PointersLiveAlways`, `NumbersTrueAlways` | `ReadyInv`: while nothing has gone since `isReady` first said yes, all it looks at is there; `PtrInv`: a pointer kept is of the list it was read from until its object leaves; `NumInv`: each getter fits what its reader has written |
| `LoaderProofs` | `Bootstrap`, `Bridge` | `LoaderTypeCorrect`, `LeftAsFoundAlways`, `LatchAgreesAlways`, `ReadWithPayloadAlways` | `BootInv`: what each place of `inject_remote_process` says of the target (`Standing`), and that the latch lags behind the hook only within a call of `init_func` (`Latching`); `AppInv`: what a thread's place in `$fopen` says of `hook_once` and the payload. The lemma `LoaderIsBootstrap` says that the composed specification implies bootstrap's own |
| `PokeProofs` | `FindPid`, `Poke` | `TypeCorrect`, `FindsZygoteAlways`, `OwnMemoryOnlyAlways`, `CalledAsMeantAlways` | `FindInv`: the buffer says zygote only for the entry it was read from, and a zygote that is there has not been passed over; `OwnInv`: every write still to be made is of whole words or of nothing mapped, and goes to bootstrap's own places, and the stack pointer is no lower than the calls so far and what those that crashed left (`Fallen`) account for; `CallInv`: what memory *will* hold once all writes are made |

Type correctness is a theorem for every specification except that of `PropsWalk`,
where it is the first part of `PropsInv`.

Theorems that state what no run lists: the types; `InboxExclusiveAlways` and
`InitTruthfulAlways` of `Net`, `StartObeyedAlways` and `LoginFirstAlways` of `Engine`,
`NeverAheadAlways` and `NegativeNeverAlways` of `Ticks`, which are close to the code
and steps of larger arguments.

`NetImplementsInbox` is what lets `Engine` be written over `Inbox`: what `Net`
delivers is among what `Inbox` allows.  That a command does arrive, `Engine`'s
fairness, is `EverythingDelivered`, which is model-checked.

None of the larger properties is inductive alone.

* `InOrder` says nothing of a buffer that starts in the middle of a packet;
  `FrameInv` adds that `consumed` is always the end of the packets resolved, from
  which `HeaderSize` is a real size.
* `CountsAgree` needs the contexts of the containers *around* the innermost, since
  `End` takes one of them back; `StoresInPlace` needs the places of their tables
  too, and that no two containers share one.
* `FoundIfThere` is about the end of a route; on the way, `FoundInv` says that as
  many components as are behind the walk lead to where it stands.
* `LatchAgrees` is about the time between two runs; a run may end at any point, so
  `BootInv` says where the thread and the latch are at every place.
* `CalledAsMeant` is about the moment of a call; before it the writes come one
  word after the other, each able to spoil one made earlier.  `CallInv` says what
  memory will hold when the list is worked off, which no single write changes.

Assumptions.  TLC evaluates all of them in the runs.

| Assumption | Says | Why |
|---|---|---|
| `NetAssumption` | a packet's size counts its header | the server frames as `net.h` says |
| `TicksAssumption` | periods and times fit in `Modulus` | times in milliseconds are far below 2^64 |
| `MapAssumption`, `TreeAssumption`, `TableAssumption` | trees are ordered, tables sorted | they are the game's, made by its library |
| `SceneAssumption` | the scene is a tree; classes begin with `$`, the empty component does not; `None` is no node | cocos2d's scene graph; the code puts the `$` before the class; `None` stands for `nil` |
| `WidthAssumption` | `int` is narrower than `uint64_t`, by more than the factor `Second` | 2^31 times 10^9 is below 2^64 |
| `GamesAssumption` | the fields of a game's objects are in the range of the types they are read with; lists are indexed by numbers | `WellFormed` is the readers' casts, field by field |
| `PidAssumption` | pid 1 is init, the zygote another | Android |
| `PlacesAssumption` | addresses are multiples of 4; the stack has room for `StackUsed`; the mapping is not within that; the path and the name end before the next string | pages and stack pointers are aligned; the offsets are constants of `bootstrap.c`, the strings literals |
| `MapsAssumption` | both processes map `libc.so` and the linker; their maps are listed by address | every Android process is linked against them; the kernel lists them so |
| `AddressAssumption` | addresses are numbers, and so is what the result's register holds after a crash | |

The others say that bounds are numbers.

Model-checked only: liveness, that is `InitEnds`, `EverythingDelivered`,
`LossEndsProcess`, `ConfigAcked`, `StartRuns`, `EditReachesLua`, `Ends` and `Loads`.
Fairness is about ENABLED, which is outside what TLAPS's provers reason about.

## 5. Not modelled

* The bytes of the game's objects: an offset is a field of a record, and a
  pointer that is not NULL leads to an object of its type.
* The argument `Actor::select` builds for the game, and the leak of it.
* `common.cpp`: the string conversions and the tables of addresses.
  `COM::updateConfig`, `Json2Lua::open` and `get_all_tids` are called nowhere.
* A Lua error between a reader's `getAll` and its `delete`, out of memory say,
  leaves the document behind: memory is not bounded in the models.
* `payload-bak.cpp`: no build file names it.
* `ptrace_readdata`, which only fetches what is logged.
* How many slots scripts that fail leave on the engine's stack (`engine.cpp:87`):
  the code has no bound for it.  `JsonDecode` holds for any number below it.
* Two threads counting `gnet.index` up at once (`net.cpp:163`): which thread runs
  `Engine::init` is the game's choice.
* libuv's own data.  `uv_write` is called on the game thread while the loop
  thread runs, which libuv does not allow; the model takes its write queue as
  atomic.
* Undefined behaviour whose outcome the source does not decide: `api.cpp:538`
  (a pointer to a local of an ended block).
* What the game does with a NULL node, which a click on the root hands it when there
  is no scene (`ui.cpp:29-36`).
* A kill of bootstrap itself while the target is in a call.

## 6. Plan

Every component but the unused old payload has its operations modelled, and
every safety property that is checked is proved.  What would add most from here:

1. `Engine` composed with `Net` on two threads, for `gnet.index`, with the game
   thread's `send` and `Engine::login` on another thread as its callers.
2. An abstract specification of the loader, a game runs hooked or plain, and
   never half of each, with `Bridge` shown to implement it.
3. The searches as implementations of one abstract table, so that `Readers`
   can use the abstract one by INSTANCE instead of stating its consequence.
