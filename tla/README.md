# Verification of the middleman relay

`MainServer` is a relay between up to 1024 game clients (TCP port 7777) and one
logic server (port 8888).  It is built on `IocpLib`, a small networking library
on top of Windows I/O completion ports (IOCP): sixteen worker threads, eight per
port, take completions and run the handlers of the objects they belong to.
Almost everything that is hard about this program is in the order in which those
handlers run.  This directory holds TLA+ models of the program, the TLC
configurations that check them, and TLAPS proofs of all that is safety in them.

Paths below are relative to the repository: `NetCodes/` stands for
`src/IocpLib/NetCodes/`, `Fundamentals/` for `src/IocpLib/Fundamentals/`.

## 1. The system

| Part | State it keeps | Operations | Hard because | Correct if |
|---|---|---|---|---|
| **Session** (`NetCodes/Session.*`, `IocpEvent.h`) | `_connected`, `_sendQueue`, `_sendRegistered`, one event (OVERLAPPED + owner reference) per kind of I/O | `Send`, `RegisterSend/Recv/Disconnect`, `ProcessConnect/Send/Recv/Disconnect`, `HandleError` | `_sendEvent` is used outside the lock; tests of `_connected` are stale when used; two ways to learn of the end of a connection | one user of each event at a time, no lost wakeup, one receive chain, order kept, one release |
| **Receive path** (`RecvBuffer.*`, `PacketSession::OnRecv`) | buffer, read and write position | `OnWrite`, `OnRead`, `Clean`, `OnRecv` | TCP cuts the stream anywhere; the buffer moves its content | packets come out whole, once and in order; always room; no overlapping copy |
| **Service** (`NetCodes/Service.*`) | sessions, their number, pool of ids | `CreateSession`, `GetFreeSessionId`, `AddSession`, `ReleaseSession` | ids are used again; the pool has an edge | ids are unique while one is free; never too many sessions |
| **Listener** (`NetCodes/Listener.*`) | the accept event and its session | `StartAccept`, `RegisterAccept`, `Dispatch`, `ProcessAccept` | an accept is registered by the worker that processed the last; it waits for room in a spin loop | one accept at a time, for ever |
| **IocpCore** (`NetCodes/IocpCore.*`) | the port | `Register`, `Dispatch` | gives completions to objects that must still be there | part of Session and Listener |
| **Lock** (`Fundamentals/Lock.*`) | writer and reader count in one word, `_writeCount` | read and write guards | compare-and-swap loops, nesting | readers-writer exclusion, no CRASH, no wedge |
| **Middleman** (`src/MainServer/Middleman.*`) | the two services | `Init`, `Start` | waits for the logic server by polling a flag | starts up, never uses a session that is not there |
| **Client sessions and manager** (`SToCSession*`) | sessions by id | `OnConnected`, `OnDisconnected`, `OnRecvPacket`; `Add`, `Remove`, `Send`, `Broadcast` | handlers of one session run on any two workers; ids are used again | the manager holds the right sessions; the logic server is told the truth |
| **Logic sessions and manager** (`SToLSession*`) | the session of the logic server | the same handlers; `Set`, `Remove`, `Send` | one pointer, replaced when the logic server comes back | packets reach every client, in order |
| **Send buffer pool** (`SendBuffer.*`) | chunks, the thread's current chunk | `Open`, `Close`, `Push`, `Pop` | chunks return to the pool from a deleter | memory in flight is not handed out again |
| **Test client** (`src/TestClient`) | its sessions, their manager, one shared packet | `ClientService::Start`, `Add`, `Remove`, `Broadcast` | writes into a buffer that is still being sent; joins while it broadcasts | each packet carries an id no older than its own; everybody joins |
| **Memory** (`src/IocpLib/Memory`) | reserved pages, headers in front of objects | `ObjectPool::Pop`, `Push`, `StompAllocator` | an object's pages are found again from its address alone | pages come back, objects do not overlap, an overrun faults |
| **Threads, sockets, basics** | thread-local ids, wrappers of WinSock | launch, socket options | - | - |

How they interact.  A completion arrives in `IocpCore::Dispatch`, which calls
`Dispatch` of the event's owner, a `Listener` or a `Session`.  The listener takes
a session from the service (`CreateSession`: an id), waits for room, posts
`AcceptEx`, and on its completion calls `ProcessConnect` of the session, which
joins the service (`AddSession`), runs the `OnConnected` of its class and registers
the first receive.  `OnConnected` adds the session to its manager and sends
packets.  Each receive runs `OnRecv`, which cuts packets and calls `OnRecvPacket`,
which sends to the other side through the other side's manager, under that
manager's lock and, in `Session::Send`, under the session's.  A zero-byte
completion or an error disconnects; the completion of `DisconnectEx` runs
`OnDisconnected` (tell the logic server, leave the manager) and `ReleaseSession`
(give up the place and the id).  The test client is the same library the other
way round: its sessions enter by `ConnectEx`, and its main thread sends to all of them.

## 2. Modules

| Module | Models | Notes |
|---|---|---|
| `OrderedChannel` | what the send side of a session promises | abstract |
| `Session` | one session, any number of threads | implements `OrderedChannel` |
| `PacketStream` | the receive side: `ProcessRecv`, `RecvBuffer`, `OnRecv` | |
| `Service` | sessions, places and ids as state and operators | extended by the next and by `Middleman` |
| `Listener` | the accept chain on top of `Service` | |
| `ReadWriteLock` | what `Lock` promises | abstract |
| `Lock` | the spin lock, one atomic access per step | implements `ReadWriteLock` |
| `Switchboard` | what the relay promises the hosts | abstract |
| `Middleman` | the relay: `Service`, both managers, all sessions | composes the parts, implements `Switchboard` |
| `Delivery` | the relay with the channel of one host behind its log | composes `Middleman` and `OrderedChannel`; proved, not run |
| `BufferMemory` | what the send buffers promise the code that fills them | abstract |
| `SendBuffer` | the memory of the packets sent: chunks, buffers, the pool | implements `BufferMemory` |
| `TestClient` | the test client: `Service`, its manager, the broadcasts | extends `Service` |
| `ObjectPool` | where the `SendBuffer` objects live: pages and addresses | proved, not run |
| `SessionProofs`, `PacketStreamProofs`, `ServiceProofs`, `ListenerProofs`, `LockProofs`, `MiddlemanProofs`, `SendBufferProofs`, `TestClientProofs` | theorems | `ServiceProofs` has the lemmas that those of `Listener` and `Middleman` share; `MiddlemanProofs` also has the theorem about `Delivery`, `SendBufferProofs` those about `ObjectPool` |
| `MC*` | instances for TLC | |

Names in the modules are those of the code; `PROJECT.json` maps every
definition to the lines it models.

**The pieces fit together by what they assume of each other.**  `PacketStream`
lets one handler run at a time: `Session` shows that a session has one receive
chain (`ReceiveChain`).  `Middleman` takes `Session::Send` as one step that appends
to a log: `Session` shows that what `Send` accepts leaves in that order
(`ImplementsChannel`), and `Delivery` puts the two together.  `Session`, `Middleman` and `Service` take a guarded block as
one step where nothing else can look in: `Lock` shows that a write guard excludes
all others (`ImplementsLock`).  `Listener` and `Middleman` count on one release per
session: `Session` shows it (`NoCrash`).  `Session` takes a buffer for a value that
does not change while it is being sent: `SendBuffer` shows that its memory is not
given to another packet, nor is anything written into it, until the send is done
(`ImplementsMemory`).  `SendBuffer` takes the objects for given:
`ObjectPool` shows that they do not overlap (`ObjectsApart`).

### Session

A thread's `pc` says where it stands inside `Send`, `RegisterSend`, `ProcessSend`,
`ProcessRecv`, `RegisterRecv`, `ProcessConnect`, `ProcessDisconnect`.  A step ends
where another thread can see or change what the next line uses: at the tests of
`IsConnected()`, at the lock, and at the calls that hand an OVERLAPPED to the
kernel.  `io[e]` is the number of operations the kernel holds on event `e`; a
completion takes one back and puts a worker into the state that handles it,
with data, with zero bytes, or as an error of the call itself.  `Dispatch` ignores
the result of `GetQueuedCompletionStatus` for failed operations, so that a failed
send or receive shows as a completion with zero bytes.  The owner references of the events
are Boolean: the only thing that matters is whether the event keeps the session
alive.  A buffer is the number of its push.  `lockOwner` is used where the
session's lock is held across steps (`ProcessSend` calls `RegisterSend` under the
lock); a block that takes and frees the lock within one step only tests it.
There are two ways into a session.  The worker whose `AcceptEx` completed runs
`ProcessConnect` at once; a client service calls `Connect`, and the worker that takes
the completion of `ConnectEx` runs it.  Nothing on that way looks at the result of
`ConnectEx`, so that a refused connection is opened all the same, and ends with
its first receive.  Senders call `Send` under their manager's lock, so that `Remove` in
`OnDisconnected` waits for them (`InSend`).

### PacketStream

A byte is its position in the stream, so that the content of the buffer is
known cell by cell.  A stream is given by the offsets at which its packets end.
`Receive` is the kernel: it writes any number of the next bytes that fits into the room
that `RegisterRecv` offered.  Each turn of the loop of `OnRecv` is a step.  If the loop ever looked
for a header at a place where no packet starts, `HeaderSizes` would let it read
any size: `intact` would then be false.  The four `memcpy`-relevant branches of
`Clean` and the overflow branches of `ProcessRecv` are there; that the latter are
unreachable is a theorem (`NoOverflow`).

### Service and Listener

`Service` has the operators that change places and ids; it is not a specification
of its own.  `Listener` adds the accept event and the threads: `Main`, which calls
`StartAccept`, and the workers.  Of a session only its life matters: `created`,
`connected`, `closing` (its `DisconnectEx` is under way), `stuck` (it failed).
`CreateSession` returns null when the port refuses the new socket; `RegisterAccept`
does not look, and reads the socket through the null pointer once there is room
(`AcceptExOnNull`).  That is the one way the model crashes (`NoCrash`).  When
`AcceptEx` fails, `RegisterAccept` calls itself with its own argument
(`AcceptExFailed`); a session that it was given is offered again, one that it has
just created is lost with its id (`dropped`).

### Lock

One atomic access to `_lockFlag` per step; the word is a pair of writer and
number of readers.  `held` is the stack of guards of each thread.  Threads obey
the nesting the callers obey: no write guard inside a read guard.

### Middleman

Two "program counters" per connection, because its receive chain (`chain`:
`OnConnected`, then one `OnRecvPacket` after the other) and its disconnect
(`closing`) run on any two workers.  A call of a manager is one step, as it runs
under the manager's lock, except `Broadcast`: it holds the lock for reading and sends to
one client per step, so that senders and handlers get in between and writers
(`Add`, `Remove`) do not.  `log[x]` is what `Session::Send` has accepted for `x`.
The logic server may go and come back: each of its connections is another
element of `Logics`.

`Switchboard` is the same seen from outside: hosts that connect, are enrolled, get
their packets and leave.  It has no manager, no id, no lock and no thread.  `Pass` takes
a client's packet to the server at work, `Publish` makes a packet of the server's due to
whoever is a member at that moment, `Deliver` hands it over or finds the link closed;
each of the relay's own packets is sent at one point of its host's life.

`Delivery` adds the channel of one host, with variables of its own: how many packets it
has accepted is the length of the host's log.

### SendBuffer

A thread is followed from `Open` through `Pop`, the replacement of its current chunk, the
allocation and `Close` to the sends and the end of its local variable; `sessions` counts
the sessions that keep a buffer, and a caller's first local variable too when it keeps that
while it opens a second buffer (`SToCSession::OnConnected`).  Counts of references to chunks are not kept: who refers
to a chunk is a matter of `currentChunk`, `popped`, `abandoned` and `chunkOf`, and
`ChunkLeft` says when nobody does.  `SendDone` gives up the reference of a session
on any thread that is idle or, when `WSASend` fails, between two of a caller's sends.
When a chunk is left the thread runs the deleter (`PushGlobal`) as a step of its own,
before it goes on where it was; the moment in which the parameter of `Push` still refers to
the chunk it has put into the pool is part of that step.  A buffer is a region of its chunk; its content is of no
concern here.

`BufferMemory` has no chunk and no pool: a buffer is being written, or closed with the
cells it was given; threads and sessions come to refer to it and let go; a cell belongs to one
buffer as long as anybody refers to it.

### TestClient

The main thread creates the sessions and tells each to connect, launches the workers,
and then has the manager broadcast, `Rounds` times, with a sleep in between.
A broadcast takes the manager's lock for all of its loop; each turn writes the id of
the next session into the shared buffer (`WriteSenderId`) and calls its `Send`.
What `Send` keeps is a reference, so that the packet is read when it leaves
(`Leave`), which may be any number of turns later.  `written` is the history of the ids in
the buffer, `left` says how much of it there was when each packet left.  Receiving is
left out: `OnRecvPacket` of the test client measures times.

### ObjectPool

The address space is the set of reserved regions; `VirtualAlloc` finds free ones
anywhere, on a page boundary, and `VirtualFree` releases what was reserved at exactly
the address it is given.  `Pop` puts the object, behind its header, where its
pages end; `Push` knows the address of the object only.  `Macros.h` defines `_STOMP`,
so that this is the allocator in use, for any type; only `SendBuffer` objects are
pooled.  The arithmetic is that of the code with its page size and header size, and
sizes run over all for which the `int32` sum does not overflow.  Addresses are
unbounded numbers, so TLC has nothing to enumerate: this module is proved outright.

## 3. What TLC checks

All runs finish without error unless they are marked "violation".

| Run | Configuration | Shows |
|---|---|---|
| `session` | 3 threads, 3 sends | exclusive use of `_sendEvent` (`SendEventExclusive`), no empty `WSASend`, pending I/O keeps the session alive (`PendingIoHoldsSession`) and idle events do not (`NoReferenceCycle`), no lost wakeup and, even after a failed `WSASend`, no session left mute (`NoLostWakeup`), one receive chain, which only an error that `HandleError` does nothing about ends (`ReceiveChain`), one release, which comes last (`ReleasedLast`), refinement of `OrderedChannel`; liveness: `SendProgress`, `DisconnectCompletes` |
| `packets` | `BUFFER_SIZE` 4, capacity 12, header 2, packets of 2 or 3 bytes, 5 packets | packets intact, room, no overlapping copy, nothing kept back; liveness: `PacketsDelivered` |
| `listener` | 3 sessions, 2 places, 3 ids, 2 workers | one user of the accept event, capacity, ids unique as long as no session is dropped, one release, no crash but that of a null session, a session once offered is used until it connects (`ReusedUntilConnected`); liveness: a full service accepts again (`AcceptResumes`) |
| `lock` | 3 threads, 2 nested guards | exclusion, no CRASH, no deadlock, refinement of `ReadWriteLock`; liveness: `LockProgress` |
| `relay` | 2 clients, 1 logic server that sends 2 packets | every client gets a run of the packets without a gap (`RelayedInOrder`), the logic server hears of everybody (`LogicServerInformed`) |
| `relay_reuse` | 3 clients that send 1 packet each, 1 place, 2 ids, 1 logic server | the manager never mixes clients up (`ManagerExact`), an id is handed over cleanly (`IdHandedOver`) |
| `relay_live` | 1 client, 2 connections of the logic server, each of which sends 1 packet | no null session before the logic server has left (`NoCrashBeforeLogicLost`), refinement of `Switchboard` (`ImplementsSwitchboard`); liveness: `StartsUp`, `LeaversReleased` |
| `send_buffer` | 2 threads, 3 chunks of 2 bytes, 2 buffers | a chunk is in the pool, once and unreferenced, or somebody refers to it, so that none is lost (`PoolExact`), `Open` succeeds (`NoCrash`), refinement of `BufferMemory` (`ImplementsMemory`); liveness: `ChunksReturn` |
| `test_client` | 2 sessions, 3 ids, 2 broadcasts | a packet carries its own sender's id or a later one (`SenderIdCurrent`); liveness: every session joins the broadcasts (`JoinsBroadcasts`) |
| `listener_zero` | violation | ids start at 0, not 1 |
| `relay_info` | violation | a broadcast overtakes a client's session info |
| `test_client_id` | violation | a packet of the test client carries another's id |

The runs of the relay without liveness properties use the symmetry of clients and of
connections of the logic server, the violation runs of the listener that of sessions.  The type invariants,
and what is proved and follows from a property of a run (`ConnectedBeforeData` and
`BuffersDisjoint` among them), are in no run.

### The bounds, and why they are enough

- *session*: three threads are one that sends, one that handles a completed send
  and one that handles the end of the connection, or any other three.  There are
  three events, and each has at most one operation under way, so that a fourth
  thread could only be one more sender, which waits for the lock or pushes and returns.
  `MaxSends` = 3 bounds the start of `Send`, so concurrent senders may push one or
  two more; three buffers are needed for one in flight, one drained with it and
  one pushed in between.
- *packets*: the stream is 10 to 15 bytes long and the buffer has 12, so that
  the content moves; `BufferSize` exceeds `MaxPacket` by one, the
  tightest the assumption allows (in the code 65536 against 65535).  The proofs
  lift all of these bounds.
- *listener*: with two places and three ids the pool is exactly as large as it
  must be, one id for each place and one for the session that waits, and two clients
  fill the service.  Two workers are the fewest that can get on: one
  of them spins while the service is full.
- *lock*: depth 2 has each nesting the guards can have (W in W, R in W, R in R).
- *relay*: two clients are enough for one to join or leave during a broadcast
  to the other; two packets for a gap or a swap.  In *relay_reuse* the session that waits
  to be connected always has an id, so that with two ids the third client is the
  first to get one that has been used.
- *send_buffer*: sizes 1 and 2 in chunks of 2 give a chunk with two live buffers, a full one, and one
  whose rest is too small for the next packet.  Two threads are one that
  fills a chunk and one that lets go of its last buffer.  Three chunks are each thread's current
  one and one more; when all are in use, `Pop` waits for one to return, which the
  code does not do: there it creates another.
- *test_client*: two sessions are one that is sent to and one whose id is written in
  the meantime; two rounds let a packet of the first wait into the second.
- `ClientPackets` and `LogicPackets` bound what each host sends.

Deadlock is checked only in `lock`.  The other models stop where the system
does: the bounded sends or broadcasts are done, the connection is closed, or the
program has crashed.

### Fairness

- *Handlers run to the end*: weak fairness of the steps of a thread that has
  begun something.  A worker is not cancelled and the handlers do not block,
  but for the lock and `RegisterAccept`'s spin, which are in the models as guards.
- *Completions are taken*: the port is a FIFO queue with eight threads on it.
  In `Session` idle threads may take up new sends for ever, hence strong fairness for the dispatch of a
  completion that keeps being there.
- *`AcceptEx` does not fail for ever*: strong fairness of its success.  It retries without
  a limit; if it failed for ever no property about new clients could hold.
- *A writer of the client manager gets its lock*: `ClientsUnlocked` is a guard of
  `Add` and `Remove`, which have weak fairness, together with the bounded number
  of broadcasts.  `Lock` itself promises less: with unbounded readers a writer can
  starve, and the code then crashes after ten seconds (`LOCK_TIMEOUT`).
- *Sends complete*: strong fairness of `SendDone` for each buffer in `SendBuffer`: the
  threads that take the completion may be busy, but come back again and again.
- *The test client's manager gets its lock*: the main thread sleeps (up to 100 ms) between
  broadcasts, so that a worker that waits for the lock finds it free again and again:
  strong fairness of the workers' steps.
- Nothing makes a client connect, send or leave, and nothing makes `DisconnectEx`
  succeed: `DisconnectCompletes` and `LeaversReleased` are about disconnects that are
  under way.

### What the violation runs say

The code and its comments disagree in three places that runs show; none of them is
needed by the properties above.

1. `CreateSession` says ids start at 1 (`Service.cpp:29`).  `GetFreeSessionId` counts
   modulo the size of the pool and hands out 0 when it wraps around
   (`Service.cpp:57`), the value that also stands for "none found" (`Service.cpp:65`).
2. `SToCSession.cpp:14` says the first packet is the session info.  The session is
   added to the manager before (`SToCSession.cpp:11`), and a broadcast may be faster.
3. `TestClient.cpp:70` says each client sends the packet with its own sender id, which
   `Broadcast` sets.  The id is written into the one buffer that sends of earlier
   sessions may still refer to (`CToSSessionManager.cpp:28`).

Two more are variants of these and have no run of their own.  `Listener.h:28` says a
session once created is used until it connects; one whose first `AcceptEx` fails is
not, which is why `IdsUnique` asks that none was dropped, and why `ReusedUntilConnected`
is about sessions that have been offered.  `SToLSession.cpp:15` says the first packet
to the logic server is its session info; `_isConnected` is raised before
(`SToLSession.cpp:13`), and the main thread may let a client in.

## 4. What is proved

Every safety property that a run checks, and every refinement, is proved for all
values of the constants.

| Theorem | States | From |
|---|---|---|
| `SessionProofs!TypeCorrect` | `[]TypeOK` | any set of threads, any number of sends |
| `SessionProofs!SendEventIsExclusive` | `[]SendEventExclusive` | the same |
| `SessionProofs!ReleasedOnce`, `!IsReleasedLast` | `[]NoCrash`, `ReleasedLast` | |
| `SessionProofs!ReceivesAreChained` | `[]ReceiveChain` | |
| `SessionProofs!WSASendHasBuffers`, `!WakeupsAreNotLost` | `[]NoEmptyWSASend`, `[]NoLostWakeup` | |
| `SessionProofs!PendingIoIsOwned`, `!IdleEventsOwnNothing` | `[]PendingIoHoldsSession`, `[]NoReferenceCycle` | |
| `SessionProofs!SessionImplementsChannel` | `ImplementsChannel` | |
| `PacketStreamProofs!PacketsComeOutIntact` | `[]PacketsIntact` | `PacketStreamAssumption` |
| `PacketStreamProofs!ThereIsRoom` | `[]RoomToReceive` | |
| `PacketStreamProofs!NoOverflow` | `[]NeverOverflows` | |
| `PacketStreamProofs!CopiesAreDisjoint` | `[]CopiesDisjoint` | |
| `PacketStreamProofs!NoPacketIsKeptBack` | `[]NoPacketWaits` | |
| `PacketStreamProofs!TypeCorrect` | `[]TypeOK` | |
| `ListenerProofs!TypeCorrect` | `[]TypeOK` | `ServiceAssumption`, `ListenerAssumption`: any number of workers, sessions, places and ids |
| `ListenerProofs!AcceptEventIsExclusive` | `[]AcceptEventExclusive` | |
| `ListenerProofs!OnlyNullCrashes` | `[]NoCrash` | |
| `ListenerProofs!OfferedSessionsConnect` | `ReusedUntilConnected` | |
| `ListenerProofs!CapacityIsRespected` | `[]CapacityRespected` | |
| `ListenerProofs!IdsAreUnique` | `[]IdsUnique` | |
| `LockProofs!WritersExclude` | `[]MutualExclusion` | `LockAssumption`: any set of threads, any depth |
| `LockProofs!NoCrashEver` | `[]NoCrash` | |
| `LockProofs!Implements` | `ImplementsLock` | |
| `LockProofs!TypeCorrect` | `[]TypeOK` | |
| `LockProofs!TheFlagIsAWord` | `[]FlagIsWord(ThreadId)`: the 32-bit word says what the pair says | finitely many threads, which can hold fewer than 65536 guards in all (the program has 17 threads); thread ids that differ, from 1 |
| `MiddlemanProofs!TypeCorrect` | `[]TypeOK` | `MiddlemanAssumption`: any number of clients, logic sessions and packets; more ids than places |
| `MiddlemanProofs!RelayHasLogicServer` | `[]NoCrashBeforeLogicLost` | |
| `MiddlemanProofs!AnnouncedFirst` | `[]ConnectedBeforeData` | |
| `MiddlemanProofs!LogicServerKnows` | `[]LogicServerInformed` | |
| `MiddlemanProofs!ManagerIsExact` | `[]ManagerExact` | |
| `MiddlemanProofs!IdsAreHandedOver` | `[]IdHandedOver` | |
| `MiddlemanProofs!PacketsAreRelayedInOrder` | `[]RelayedInOrder` | |
| `MiddlemanProofs!RelayImplementsSwitchboard` | `ImplementsSwitchboard` | |
| `MiddlemanProofs!PacketsArriveInOrder` | `[]ArrivesInOrder(x)` under `Connection(x)` | the same, and a session that is an `OrderedChannel` (`SessionImplementsChannel`) |
| `SendBufferProofs!TypeCorrect` | `[]TypeOK` | `SendBufferAssumption`: any threads, chunks, buffers; packets that fit into a chunk |
| `SendBufferProofs!MemoryIsOwn`, `!PoolIsExact` | `[]BuffersDisjoint`, `[]PoolExact` | |
| `SendBufferProofs!PoolImplementsMemory` | `ImplementsMemory` | |
| `SendBufferProofs!OpenSucceeds` | `[]NoCrash` | |
| `SendBufferProofs!PagesComeBack`, `!ObjectsAreApart`, `!OverrunsLeaveThePages` | `[]NothingLeaks`, `[]ObjectsApart`, `[]EndsAtPageEnd` | pages of 4096 bytes, headers of 32 |
| `TestClientProofs!TypeCorrect` | `[]TypeOK` | `TestClientAssumption`: any number of sessions, ids and rounds |
| `TestClientProofs!SenderIdsAreCurrent` | `[]SenderIdCurrent` | |
| `TestClientProofs!NobodyLeavesABroadcast`, `!OnlyStartCrashes` | nobody enters or leaves the manager during a broadcast (`[]BroadcastGuarded`); only a failed start crashes (`[]OnlyStartFails`) | |

**Session.**  The type invariant is split into the Boolean variables (`Flags`) and
the others (`Data`), each inductive by itself; every action is a case of
each.  `SendEventExclusive` is inductive together with `Data`: at most one thread or
operation has `_sendEvent`, and whoever has it has `_sendRegistered` up.  On top of these:

- `LifeInv`, the life of a session.  It is opened once, and until the worker that opens it
  has put it into its manager nobody else knows it (`Fresh`, `EnteringAlone`).
  `_connected` goes down once, and whoever lowers it has the one disconnect
  (`OneDisconnect`), which stands for the session's place in the service
  (`ServedUntilReleased`): hence one release.  Senders are inside the manager's lock, and
  `Remove` waits for it (`SendersInManager`): hence the release comes last.
- `LoopInv`: the receive chain and the owner references of its event.
- `SendInv`: what is true of the event, the queue and the flag where each thread
  stands.  `NoLostWakeup`, one of its parts, ties the flag to somebody at work and a filled queue to the flag.

The refinement maps the channel's pending buffers to those of the event followed by the queue;
with `SendInv` every step is one of the channel or stutters (`StepImplements`).

**PacketStream.**  The assumption is the code's arithmetic: the capacity is at
least three times `BUFFER_SIZE` (the code has ten), a packet is smaller than
`BUFFER_SIZE` and holds at least its header.  The inductive invariant `StreamInv` is

- `Positions`: the positions are ordered and within the buffer, and the pending
  receive fits;
- `Content`: the cells between the positions hold exactly the bytes behind the last
  packet delivered;
- `Rest`: outside the handler there is less than a whole packet in the buffer, and
  at a receive there is room;
- `Good`: no packet was wrong and no copy overlapped.

`PacketsIntact` alone is not inductive: it needs `Content` to know that the next
header is where the loop looks (`HeaderRead`); `CopiesDisjoint` needs `Rest`: what
`Clean` moves is shorter than a packet, and it moves only when less than
`BUFFER_SIZE` is free, so that the read position is beyond twice that.

**Listener.**  `Chain` says who is in the accept chain and that there is one of them, or
the kernel.  `LifeInv` ties the session of the event to that thread; from it follow `NoCrash`
and `ReusedUntilConnected`.  `Counted`: while the chain is past its wait there is
room, which nobody but the chain itself can take.  `IdsUnique` rests on a count
(`IdInv`): ids that are taken are those of live sessions (`Accounted`); a session is
created only by a chain that has none, so that at most as many ids as there are places are taken besides the
last one, which the search leaves out; that one is taken or a place is empty
(`LastIdTaken`).  With more ids than places one is therefore free
(`SomeIdIsFree`, in `ServiceProofs`, from the cardinality of the ids).

**Lock.**  The flag counts readers, but not who they are; `MutualExclusion` says nothing
of the flag.  `LockInv` ties the two together:

- `Counted`: the number of readers in the flag is the cardinality of `ReadGuards`, the set
  of read guards held, each named by its holder and its depth;
- `Layered`: a thread's write guards lie below its read guards, and there are as many as
  `WriteDepth` says: none unless it is the writer, else `_writeCount`, or one in the step
  between the count's reaching zero and the store of the empty flag;
- `Stages`: what is true where a thread stands; `Alone`: under a writer nobody else
  holds a guard.

An empty flag then means that nobody holds anything (`EmptyFlag`), which is what lets a
writer in; a thread about to leave a write guard has only write guards (`InnermostWrite`), so that
nobody is counted as a reader and the CRASH does not fire.  Each step maps to
a step of `ReadWriteLock` or to none (`StepImplements`).  `TheFlagIsAWord` justifies the pair: with
`Counted` and `Nested` (no thread holds more guards than `MaxDepth`, the one it waits for
included) the readers are at most as many as all threads can nest, hence fit into 16 bits, and
every test the code makes of the word is the one the model makes of the pair.

**Middleman.**  The invariants are proved one on top of the other:

- types, with the places a chain can stand in (`Placed`) apart;
- who is there (`ThereInv`): sessions in the service are those that are open, and as long as no
  logic server has gone the manager has one;
- what the logic server has heard (`HeardInv`): of each client its coming, then its packets,
  then its going (`Heard`), and told of once (`ToldOnce`).  `LogicServerInformed` needs
  moreover that a logic session that closes is lost for good (`LostForGood`);
- ids (`IdInv`): the argument of the listener, with `Here` for the sessions that have an
  id; with distinct ids `Add` and `Remove` touch nobody else's entry, and the manager is exact;
- the handing over of ids (`HandsInv`): one session at a time is on its way in (`OneEnters`),
  and when it has got the id of another, that one is done with the logic
  server (`IdHeir`), since its id came back only in `ReleaseSession`, after
  `OnDisconnected`;
- order (`LineInv`): one logic session at a time is set and connected (`Turn`); a session that is
  connected is open, and a broadcast is over before the next packet is taken (`Wired`).  So the number
  of packets of `y` that `x` has been sent, `Sent(x, y)`, is the number of the last one in
  its log as long as it is connected (`LastNumber`), and a disconnected one's log stays.

The refinement of `Switchboard` reads the link and the welcome of a host off `connected`,
`closing` and `chain`, the members off the manager's map.  It needs all of the above:
with `ManagerExact` the members are the sessions that are listed (`MembersAreListed`), so
that `Add` enrols one host and `Remove` withdraws that one, and `SendInfo` finds under the id the
session that asks; with `Turn` the logic session that is set is the server at work.
Three more facts are inductive (`BoardInv`): a session that has been connected and not
closed is connected (`Linked`), the flag stands for a session that has been set (`Installed`),
and while one is being set there is no other (`Lone`).

`PacketsArriveInOrder` composes two proofs.  In a log the numbers of a host's packets
ascend and are at most `Sent` (`Ascends`): `RelayedInOrder` alone does not give this, as
it speaks of neighbours and the step to all pairs is an induction.  In a channel what has left,
followed by what waits, is ascending, and without a fault it is all that was accepted
(`ChannelInv`).  What leaves for a host is therefore its log, less what a fault has lost.

**SendBuffer.**  A thread's stage says what it holds (`Stages`); a buffer has one caller
(`OwnBuffers`), a chunk one thread that refers to it as current, popped or abandoned
(`OwnChunks`), and while it is popped or abandoned it has no buffers.  A chunk is open exactly while the thread
whose current one it is writes (`OpenedByWriter`).  `Space`: a buffer lies within what is used of its chunk, or is the one being
written, which starts where that ends.  `BuffersDisjoint` needs `Space` for the next buffer,
and `OwnChunks` so that `Reset` and `Close` concern no other thread's chunk; that a chunk
that comes out of the pool is fresh is `PoolUnreferenced` with `Made`.

`PoolExact` adds that no chunk is lost (`NothingLost`): whoever gives up the last reference,
in `Release` or when the thread's current chunk is replaced, keeps the chunk as abandoned until
it has pushed it.  The refinement of `BufferMemory` takes as the cells of a buffer its region
once it is written (`WrittenUnsent`: nobody sends a buffer before it is closed), and as its
references those of threads and sessions; a new buffer gets cells beyond what is used of
its chunk, which are nobody's (`Space`).

**Test client.**  `SenderIdCurrent` counts: the i-th packet of a session leaves after the i-th
writing of its id.  It is inductive with `Covered`: the packets of a session that have left, that are
pending, and the one about to be sent are together at most the times its id has been written; and
with `LeftInTime`: what was written before a packet left is still the beginning of what has
been written since.  The other two rest on who is where: the manager holds the sessions
between `Add` and `Remove` (`Managed`), the service those between `AddSession` and
`ReleaseSession` (`Served`), and whoever the broadcast has yet to reach is in the
manager (`Guarded`), as `Add` and `Remove` wait for its lock.

**ObjectPool.**  The regions reserved are those of the objects, computed from each
object's address (`NothingLeaks`): by the arithmetic of div and mod the
base address of the header is the base of the pages, since an object with its header
begins in its first page.  The rest follows.

**Only model-checked**: all liveness (`SendProgress`, `DisconnectCompletes`,
`PacketsDelivered`, `AcceptResumes`, `LockProgress`, `StartsUp`, `LeaversReleased`,
`ChunksReturn`, `JoinsBroadcasts`).  Liveness under fairness and `ENABLED` are outside
what the prover does.

## 5. What is not modelled

- Ill-formed packets: `OnRecv` trusts `header.size`.  The peers of the model send
  well-formed ones.
- `LOCK_TIMEOUT`, and the time-out of `IocpCore::Dispatch`, which only makes the worker ask
  again: there is no time in the models.
- Failures of `AcceptEx` in `Middleman`; they are in `Listener`.
- The crash of a process and its restart: nothing is persistent.
- Packets larger than a chunk of the send buffer pool (8192 bytes, against 65535
  that a header can say): the assertion in `Open` fails.  `SendBufferAssumption` excludes them.
- The receive side of the test client, which adds up times and prints them.
- `BaseAllocator` and `StlAllocator`, which pass on to `malloc`, and `MemoryManager`,
  which nobody uses.
- `ThreadManager` and `GlobalManager`: the threads are launched once and run for ever, and the
  globals are made before them.
- Socket options, addresses, logging.

## 6. Plan

All parts that keep state have a module.  What remains:

1. An abstract specification of the receive side and one of the listener (who is let in, under
   which id), in the manner of `Switchboard` and `BufferMemory`; their properties are proved one by one.
2. The channel of `Delivery` for every host at once, and the packet stream in front of `Receive`.
3. Larger instances of `relay_live`: two clients and two connections of the logic server together.
