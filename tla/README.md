# TLA+ models of multithread-libevent-example

The repository holds two programs that share a style. The `tl` layer
(`thread_pool`, `dispatcher`, `buffer`, `handler`, `listener`, `main.cc`) is a
multithreaded echo server on libevent. `ExtNet` (the target `NetService` of
`CMakeLists.txt`) is a TCP and a WebSocket service with their own receive buffers,
framing, handshake and connection tables; `Net.cc` starts the WebSocket one, the
lines that would start `TcpService` are commented out.

## Inventory

| part | state | operations | interacts with |
|---|---|---|---|
| `tl::ThreadPool` | `threads_`, `tasks_` (one queue per priority), `stop_`, one mutex, one condition variable | constructor, `post`, `postPriority`, worker `loop`, destructor | user threads, running tasks that post |
| `tl::Dispatcher` | event base, `ev_timer_`, `post_callbacks_`, `mu_`, `cond_` (`stop_` is written and never read) | `post`, `dispatch`, `stop`, `join`, `timerCB`, destructor | libevent's loop, posting and joining threads |
| `tl::buffer` | `chunk_list_` (front newest), `size_`, `default_chunk_size_` | `push`, `drain`, `data`, `dataChunk`, `space`, `spaceChunk`, `spaceHaveSeted`, `operator[]`, `swap` | its caller, which writes through lent pointers |
| `tl::Handler` | socket, one non-persistent event with timeout, two buffers | `handleRead`, `handleWrite`, event callback, destructor | kernel socket queues, peer, libevent |
| `tl::Listener`, `main.cc` | listening socket, persistent read event | `open`, `doAccept` | creates handlers on its dispatcher |
| `memoryBuff` | linked nodes of 4096 bytes, four pointers and counters | `GetWriteBuff`, `AdjustWriteSize`, `GetReadBuff`, `AdjustReadSize` | one connection of ExtNet |
| `FdBridge` | socket, `memoryBuff` | `read`, `write`, `notifyred` | read callback, framing |
| `WsStickyWrap`, `WsConnect` | parser (`WsDealWith`), packet (`PackDealWith`) | `readData`, `parseWsHead`, `finishParse`, `sendFrame`, handshake | `FdBridge`, client |
| `TcpStickyWrap`, `TcpConnect` | packet (`PackDealWith`) | `readData` | `FdBridge`, client |
| `StickyWrap` | | compiled, instantiated nowhere | |
| `WsConnectMgr`, `TcpConnectMgr` | table from id to connection, `_UniqueId` | `NewConnect`, `deleteConnect`, `OnStop` | service thread and owner, without a lock |
| `WsService`, `TcpService` | event base, listener, service thread, packet list | `OnStart`, `OnStop`, `doAccept`, callbacks | libevent, owner thread |
| `GateServer` | both services, a thread, `IsRun` | `OpenServer`, `OnStopServer` | not in the CMake target, cannot be linked |
| `handshake.c`, `sha1.c`, `base64.c`, `utf8.c`, `ws.h` | a hash context, a decoder state | pure algorithms: digest, encoding, decoding, the answer to a handshake | `WsConnect` |
| `client.cc`, `tests/buffer_test.cc` | | a manual client, unit tests of the buffer | |

What is hard (`PROJECT.json` has the lines):

- thread pool: notification outside the lock, tasks that post during shutdown,
  tasks that never return, workers started before the queues exist;
- dispatcher: the event is activated by the first post of a batch only and after
  unlocking, `stop` is itself a callback, `join` waits without a predicate;
- buffer: four ways in, three out, chunks that change hands between front and
  back, loops that end only if no chunk in the middle is empty, failing allocations;
- handler: a one-shot event that must be added again on every path, partial
  writes, end of file after data, timeouts;
- `memoryBuff`: list pointers at the growth limit, recycled nodes;
- WebSocket parser: frames cut and joined anywhere, pointers into a buffer that is
  compacted;
- echo server: listeners and handlers without a lock, `accept` that fails, a pool
  deleted under its endless tasks;
- TCP framing: a length that may be another one in every iteration;
- services: the owner deletes connections while the service thread uses them;
- text and hash code: block, line and table boundaries, a response of fixed length.

What makes each correct: nothing posted, buffered or received is lost, doubled or
overtaken; nobody sleeps or waits over work; every loop ends; what is deleted is
not used; shutdown returns and leaves nothing behind.

## Modules

| module | models | form |
|---|---|---|
| `TaskService` | what a thread pool promises | abstract specification |
| `ThreadPool` | `thread_pool.*`, with the pool of `main.cc` | one action per critical section |
| `ThreadPoolProofs` | | proofs, refinement of `TaskService` |
| `Dispatcher` | `dispatcher.*` on an external libevent loop | one action per step between locks |
| `DispatcherProofs` | | proofs |
| `ByteQueue` | what a buffer promises | abstract specification |
| `Buffer` | `buffer.*` | operators on records |
| `BufferUse`, `MCBufferUse` | any legal caller of several buffers | state machine, refinement of `ByteQueue`; symmetry |
| `BufferUseProofs` | | proofs, refinement of `ByteQueue`; refinement of `Handler` by an instance of `HandlerBuffers` |
| `Handler` | `handler.*` with buffers as sequences | state machine |
| `HandlerBuffers` | the same on `Buffer` | refinement of `Handler` |
| `HandlerProofs` | | proofs about `Handler` |
| `EchoServer` | `main.cc`, `listener.*` | composition: an instance of `ThreadPool` with the loops its tasks run |
| `EchoServerProofs` | | proofs |
| `MemoryBuff` | `memoryBuff.*`, `ListEx.h` | operators on records |
| `FdBridge` | `FdBridge.*`: one connection receiving | state machine |
| `TcpReceive`, `MCTcpReceive` | `TcpStickyWrap.cpp` | `FdBridge` with the consumer of a TCP connection; refinement of `FdBridge`; that consumer or any |
| `TcpReceiveProofs` | | proofs about `FdBridge` and `TcpReceive`, refinement of `FdBridge` |
| `WsFrames` | the parser of `WsStickyWrap.cpp` | operators on real bytes |
| `WsReceive` | one WebSocket connection receiving | state machine |
| `WsReceiveProofs` | | proofs |
| `Sha1`, `Base64`, `Utf8`, `Handshake` | `sha1.c`, `base64.c`, `utf8.c`, `handshake.c` with `ws.h` | operators |
| `CodecUse` | calls on a SHA-1 context, growing data and texts, `WsConnect::do_handshake` | state machine with reference definitions |
| `WsConnect`, `MCWsConnect` | `WsConnect::readData`: handshake, then frames | composition of `CodecUse` and `WsReceive`; frames, lengths, bytes, requests |
| `Service` | `WsService`, `WsConnectMgr`, life of `WsConnect` | state machine of two threads |
| `ServiceProofs` | | proofs |

Operators that begin with "Seeded fault" in their comment are wrong on purpose;
no specification uses them. They show that each property can fail.

### ThreadPool

`pc[w]` is where worker `w` is in `loop()`: `scan` (about to hold the lock at the
top of an iteration), `waiting` (inside `condition_.wait`), `running` (outside the
lock, executing `task[w]`), `exited`. The code that runs under `tasks_mutex_`
never blocks, so a critical section is one action. `notifying` holds the callers
between the unlock and `notify_one()`. `owner` follows the thread that constructs
and destroys the pool; the constructor starts the workers before it fills
`tasks_`, so a worker may scan an empty vector (it goes to sleep) or a vector whose
storage is being replaced (`TornScan`, the process ends). Tasks in `Forever` never
return: `main.cc` posts `Dispatcher::dispatch`. `posted` is a history variable, every
task ever pushed: `EveryTaskInOnePlace` says that these are the tasks queued, held or
done, so that a task that is popped and forgotten is missed. Callers from outside do not overlap
the destructor; tasks that run inside the pool may post at any time, also after
`stop_` is set.

### Dispatcher

libevent is external: an event on the active list is taken off before its
callback runs, `event_active` is safe from any thread and wakes the loop, the loop
looks at `event_break` after each callback and forgets an old break when it is
entered. `posting` holds `<<thread, callback>>` for a post that found the queue
empty and has not reached `event_active`. The loop thread itself posts, from the
callback it runs or from another event's. `stop()` posts a callback in `Stops`.
`join` is `cond_.wait` without a predicate; besides the notification that comes too
early (the finding of `disp_join_hangs`) a spurious wakeup ends it before the loop has
left, which the model has as a step and no property excludes.

### Buffer

A chunk is its unread bytes and its free room; the list is written oldest chunk
first (`chunk_list_.back()` is `Head`). `BufferUse` is any sequence of calls by a
caller that fills lent space before its next changing call on that buffer and does
not read `back()` of an empty list. `data()` spins when its copying loop meets an
empty chunk: `stuck` records that, and `OnlyNewestMayBeEmpty` is why it never does.
`Failures` says which allocations may throw. A chunk's array is allocated before
bytes move, so no failure of it costs a byte (`buf`); the list node `data()` needs
comes after: with `Failures = {"node"}` too, the bytes it had gathered are lost and
`size_` still counts them. `push()` that throws leaves what had fitted already and
does not tell how much; `ByteQueue` lets such a call throw (`Fail`) and says only that the
bytes stay in order. `buffer.h:15-16` and `30` promise a smaller return value and a null
pointer instead: that is the finding of `buf_throws`.

### Handler

The event is not persistent: after it fires nothing is pending until the callback
adds it again. `pc` follows the callback through `recv`, the echo loop and the
`write` loop. `Handler` has the buffers as sequences, lends `1 .. MaxRoom` bytes and
writes any part; `HandlerBuffers` makes the calls on chunks and refines it. Inside
the echo loop bytes have moved partly from `read_buf_` to `write_buf_`: the
refinement mapping counts them all as unechoed until the loop ends. On EAGAIN or
EINTR `handleWrite()` returns without `event_add`: the handler lives, neither event
nor timeout comes and the rest is never echoed. `Forgotten` is that state, and
`EchoedUnlessForgotten` says that there is no other like it.

### EchoServer

`main()` opens a listener per dispatcher without looking at the result, posts the
dispatch loop to the pool and deletes the pool. The pool is an instance of
`ThreadPool` whose tasks are the indexes of the dispatchers, all of them endless;
`main()` is its only outside poster and its owner. Nobody posts to these dispatchers
or stops them, so a loop is what it does for its listener and its handlers:
`event_base_loop` waits also when nothing is added. The kernel gives a connection to
any listening socket. `accept` may fail with connections waiting, and a `Handler`'s
constructor may close the socket and throw, or never start for lack of memory, in
which case nobody closes the socket (`leaked`). The destructors of the dispatchers
and listeners are not modelled because they are not reached (`ServesForEver`).

### MemoryBuff, FdBridge

A buffer is its heap of nodes and the four fields of the class. The constructor
never advances `_pTail`, so of all nodes it allocates only the first and the last
are linked; `AdjustReadSize` appends a drained node behind `_pTail`, the first node,
where the writer no longer comes. Hence a connection lives for two nodes of bytes
(8192) and then follows a null pointer. `RoomForLifetime` says that until then there is
always room; that `GetWriteBuff` has none afterwards, where `memoryBuff.h:31` promises a
buffer, is the finding of `recv_no_room`. The branch of `GetWriteBuff` that adds a node needs a writer
that stands in a full node, and no state has one. `FdBridge` leaves the consumer open: it takes any part of what
`GetReadBuff` shows, as often as it likes, and accepts or refuses.

### TcpReceive

`_head`, through which `readData()` reads the length of a message, is set by no
constructor. The build with the address sanitizer, which `CMakeLists.txt` asks for, ends
with its first use (`Crash`); any other finds some number there (`\E L \in Lengths`,
among them two above the capacity), one in each iteration, which may differ from that of
the iteration before. Within an iteration the code loads it up to six times (lines 35 to
51); that it changes between two of these is not modelled. What holds nevertheless is what the runs check. `_pData`'s bytes are not
followed: a body is copied from where its head was copied from, since the pointer is
not moved. Bytes in the node behind the one shown wait for more input
(`WaitsOnlyBehindDrained` says that nothing else waits).

### WsFrames, WsReceive

The parser works on bytes, because frames may be cut and joined at each of them. `Parse` is
one call of `parseWsHead`, which takes one `case` of its `switch`; the `do-while` of
`readData` calls it again. `ByteXor` adds the weights of the bits that differ, so that the
prover has its definition. A client's frames are any with a mask and one of the three forms
of length: texts below 126 bytes, or below 65536 where the length has bytes of its own
(`FrameAssumption`). The
network cuts the stream into pieces no longer than what the parser accepts, or the
connection is closed. What the code does and the properties allow:

- a piece that ends inside a head keeps the thread in `readData()` for ever
  (`spinning`); a payload may be cut anywhere;
- a data frame with another frame behind it in the buffer, or behind a frame that is
  never removed (PING, PONG, empty, not final), closes the connection;
- a masked byte 255 stops the parser without progress (`GiveUp`), and a length byte from
  128 on is read as a negative number and makes a length no frame reaches (`WideLength`),
  so that such a frame is never handed over: both are signed chars. `HandedIntact`,
  `NothingSkipped` and `SpinsOnlyInsideHead` speak of streams that have neither (`Clean`);
- nothing is done for a frame that is not final, has no payload, or is a PONG:
  `NothingSkipped` counts the others;
- `finishParse` follows `_pack._head`, which nothing sets: the process ends, the
  thread loops, or the call returns an error that is ignored;
- answers to CLSE and PING carry a trailing zero byte.

The handshake is one step that succeeds, closes or ends the process. `CodecUse` has what is in it,
and `WsConnect` puts both together: each of its behaviours is a handshake with a usual
stream behind it, any stream behind a handshake that is not looked into, or a job of
`CodecUse` that has no connection. `HandshakeIsStandard` looks at the answer before the first frame.

### Sha1, Base64, Utf8, Handshake, CodecUse

The algorithms are operators on bytes. A 32-bit word is a pair of 16-bit halves, since
TLC's integers are signed; sums carry between the halves and are cut at 2^32, and the
64-bit length is counted in two words. `CodecUse` gives a SHA-1 context pieces, asks for
results and resets it in any order; encodes data that grows byte by byte; decodes
texts byte by byte; and answers a request. The reference definitions are written from
the standards and share with the code only the compression of one block, which
RFC 6455's example of a handshake pins to its true values. `late` is a history variable:
input was given to a context after its result, from when on it must return errors.
`AnswerIsStandard` compares the answer with the one RFC 6455 demands for the key the
client has sent (`ClientKey`), which need not be the word the code takes (`KeyOf`): where
an earlier line contains the field's name, be it the path of the request, they differ and
the client is answered for something else; `AnswerIsStandard` leaves such requests out. Nothing in the
repository calls `base64_decode` or `utf8.c`; they are checked as the library they are.
What the code does and the
properties allow: a request that comes in two pieces closes the connection; of a key
longer than 24 bytes the rest is ignored; the request is accepted whatever else it says;
the memory of the response is never freed, and that of `base64_encode` is used
unchecked (`dead`). The longest response fills its 130 bytes exactly.

### Service

`owner` is `main()` of `Net.cc` through `OnStart` and the steps of `OnStop`; `loop` is
the service thread in or between its callbacks. `event_free` called by the owner
waits for the event's running callback; called inside the callback it does not.
The table has no lock: an access of the service thread while `OnStop` iterates over
it or clears it sets `undefined`, after which nothing is described and the
properties claim nothing. A callback that never returns (`spinning`) is the parser's.
`TcpService` and its classes are the same code without the second `deleteConnect`,
and `TcpConnectMgr` does not initialise `_UniqueId`: `FirstIds` covers both.
An id may be given while it is still taken: `insert()` then keeps the entry it finds, the
new connection is in no table, and the history variable `clash` is set. From then on
`TableIsExact` says only that what is in the table lives, and `NothingLeftAtStop` nothing;
`IdsLast` says that this takes more accepts than there are ids.

## Runs

| run | instance | shows |
|---|---|---|
| `pool` | 3 workers, 2 posters, 3 tasks of which one never returns, 2 levels | every task ever pushed is in exactly one place, nobody sleeps over work or through shutdown, refinement of `TaskService`, posted tasks start, the destructor returns when tasks do |
| `disp` | 2 posters and the loop, 2 callbacks, 2 stops, 2 `dispatch()` calls | no stranded callback, order, one stop ends at most one `dispatch()`, callbacks run or the loop ends, a stop ends it |
| `disp_join_hangs` | 1 poster, 1 joiner, 1 stop | finding: `join()` after the loop has exited waits for ever |
| `buf` | 2 buffers, chunks of 2, 4 bytes, failing chunk allocations | `size_` is right, only the newest chunk is ever empty, `data()` ends, every answer is a byte queue's |
| `buf_throws` | 1 buffer, the same | finding: `push()`, `space()` and `spaceChunk()` throw where their answer is promised |
| `echo` | 4 bytes, 3 of room, send queue of 2, interrupts | order, the event waits for the right thing, a living handler echoes unless it forgot its event |
| `echo_chunks` | 5 bytes, chunks of 2, send queue of 3 | refinement of `Handler`, the echo loop ends |
| `recv_no_room` | nodes of 4 bytes, 2 nodes | finding: no node to write to when both are full |
| `receive` | nodes of 7 bytes, 2 nodes; any consumer, or TCP's with heads of 2, packs of 4, lengths up to 6 | order, no hidden bytes, room until the two nodes are full; messages are put together inside their buffer, what waits is behind a drained node, refinement of `FdBridge` |
| `server` | 3 threads, dispatchers and listeners, 2 connections | a base is used by one thread at a time, `main()` stays in the destructor, each connection is accepted |
| `service` | 4 connections, 3 ids, first id 0 or 2 | table and connections agree, ids do not clash before they are used up, no callback on a deleted one, nothing left behind, `OnStop` returns |
| `ws` | frames: up to 3 of 10 kinds, 18 bytes of buffer; handshakes: 7 requests; messages up to 128 bytes in pieces of 8 and 55, data up to 60 bytes, texts up to 4 of 24 bytes | payloads intact, each final data frame handed over and each final CLSE and PING answered if it has a payload, endless loop only inside a head; digest, encoding, decoder and handshake agree with their standards |

Bounds. Two workers are enough for a wakeup to go to the wrong one and three for one
to have exited while two differ; two levels distinguish urgency from age. Two
callbacks and two stops give every split into batches; `MaxDispatches` is the only
counter of the dispatcher. `MaxBytes` bounds the bytes that enter a buffer or are
sent by the peer; with chunks of 2, four or five bytes give full, partial and empty
chunks at both ends, and a send queue smaller than the data gives partial writes and
EAGAIN. `receive` needs no bound on them: the buffer's own life ends it. Four accepts of three ids,
from 0 or from 2, wrap the counter and meet an id again, taken or free. `DataCap` 18 is one byte more than the parser takes, so
that two of the longest frames are refused; the ten kinds of frames are those the
parser tells apart (one and two bytes, the two long forms of length, not final, empty,
byte 255, PING, CLSE, PONG); frames of 126 bytes and more
are left to the proofs. `server` has a listener that fails to open beside two that
do not, and a connection that waits while another is handled. With nodes of 7 bytes
and packs of 4, `receive` has two messages and half a head in a node, and messages across two.
Pieces of 8 and 55 bytes end a message at 55, 56, 63, 64, 119, 120 and 128 bytes, on
both sides of every place where the padding changes; 60 bytes are one line of Base64
and all three tails behind it; four bytes are the longest character, and the 24 values
are the ends of every range of the decoder's table; keys are shorter than, as long as
and longer than 24 bytes, or missing.

Not in a run, for the number of runs is kept small, but an operator of a model: failing
list nodes (`Failures = {"node"}`), `Interrupts = FALSE`. The type invariants of the
modules that have proofs are theorems and are not checked again.

Deadlock is not checked where the system stops by design: a destroyed pool or
dispatcher, a deleted handler, a closed connection, a stopped service, or one that
nobody uses.

Fairness. `ThreadPool`: weak fairness of each worker's step, of a task's return, of a
caller's way from push to notification and of the owner inside constructor and
destructor: the operating system runs every runnable thread. Nothing forces a post,
a destruction or a spurious wakeup. `Dispatcher`: weak fairness of the loop and of a
poster's `event_active`. `Handler`: weak fairness of the callback and of the peer's
receiving, strong fairness of `Recv`, since an interrupt at every single `recv` is not
the system's doing; no timeout is forced. `HandlerBuffers`: the weak ones.
`Service`: weak fairness of both threads; strong fairness of the
owner's return from `event_free`, whose lock the loop releases whenever it polls, and
of the loop's end, to which it turns in the round after `event_base_loopexit` whatever
else is ready (a connection that a clash has hidden from `OnStop` may go on being read).
`EchoServer`: the pool's, of `main()`'s steps and of each loop; strong
fairness of `Accept`, since `accept` does not fail every time it is called with a
connection waiting; that a peer connects is not assumed. `Buffer`, `FdBridge`,
`TcpReceive`, `WsReceive` and `CodecUse` state no liveness.

## Proofs

Every theorem holds for all values of the constants that the named assumptions
allow (`PoolAssumption`, `DispatcherAssumption`, `HandlerAssumption`,
`BuffAssumption`, `ServiceAssumption`, `BufferAssumption`, `ServerAssumption`,
`TcpAssumption`, `CapAssumption`, `FrameAssumption`). Only the three theorems of
`BufferUseProofs` have a hypothesis of their own.

`ThreadPoolProofs`: types, `EveryTaskInOnePlace` (with `posted`), `NoSleepAfterStop`, `NoSleepOverWork`,
refinement of `TaskService`. The inductive invariant adds how `stop_` follows the
owner and that all workers have exited only when the queues are empty: the last one
to leave saw them empty, and a task that posts later runs on a worker that has not
left. `NoSleepOverWork` is a count: a push adds a queued task and a pending
notification, a notification turns a sleeper into a worker about to look, and taking
a task removes one of each.

`DispatcherProofs`: types, `NoStrandedCallback`, `RunsInPostOrder`, `StopEndsOneDispatch`.
The first needs that the event is deactivated before the queue is taken; the second is
an equation between sequences that a push extends on both sides and a started callback
shifts. The last one counts: the stops that have run are at least as many as the
dispatches that were left, and one more when the loop has been told to break
(`StopsCounted`). That a stop runs once is in the first three only for its place in the
order; `PushedOnce` makes it a set that can be counted.

`HandlerProofs`: types, `EchoInOrder`, `ReadsOnlyWhenWritten`, and together
`NothingLeftToEcho` and `PendingFits`. What has arrived is the concatenation of
`echoed` and the four queues between; every step moves a prefix from one to the next
(`Move`), so concatenation's associativity does the rest.

`TcpReceiveProofs` begins with the bridge and any consumer of it: types, `ReadInOrder`, `UnreadIsVisible`, `RoomForLifetime`, for every node
size and every number of nodes. The inductive invariant says that a connection is in
one of three phases: reader and writer in the first node (`InFirst`), the reader in
the first and the writer in the last (`InBoth`), both in the last (`InSecond`), and
what each node holds in terms of how much was received. The contents are stretches
of the stream (`Stretch`), cut and joined by three lemmas. `ReadInOrder` alone is not
inductive: nothing in it says that the node behind the reader is the writer's.

Of the TCP connection it has the types, `PackFits`, `WaitsOnlyBehindDrained`, the refinement
of `FdBridge` and with it `ReadInOrder`, for all node and pack sizes and whatever length each iteration reads. The
invariant is the bridge's, with `size <= PackCap` and with what the loop of the callback
knows: once an iteration has found no reason for another (`~again`), and as long as no
callback runs, what is unread is behind a drained node (`Drained`). A step of
`readData()` is one of the consumer's because what it takes is at most what
`GetReadBuff()` showed (`PartsFit`).

`ServiceProofs`: types, `TableIsExact`, `IdsLast`, `NoCallbackOnDeleted`,
`NothingLeftAtStop`, for any number of connections and of ids, more accepts than ids
included. The inductive invariant says that as long as there are ids enough the
connections accepted have consecutive ones around a ring (`IdsInOrder`, `Wrap`), so that
`insert()` meets no entry that is there; that without a clash every living connection is
found (`EveryoneFound`), and with one too that what is found lives (`NobodyElse`); which connection the current callback is about and how far it
has come with it (`CallbackKnows`); and what `OnStop()` has achieved at each of its
lines (`OwnerKnows`). States with undefined behaviour have no successor, so of them it
only says the types.

`EchoServerProofs`: types, `OneThreadPerBase`, `ServesForEver`, for any number of dispatchers
and as many threads, through the actions of the pool's instance. That the pool loses and
doubles no task does not suffice: `main()` posts the indexes in ascending order, so every
task posted is below `i` and every one below `i` is queued or held
(`PostedAreBelow`), by at most one (`OnePlace`); a worker exits only after the stop and with
an empty queue (`ExitsLate`). After the stop the first loop is therefore held by a worker
that never exits, and the destructor's `join` does not end. `WatchesListening` is there for
the types: an event is added only for a listener that listens.

`BufferUseProofs`: `BuffersSound` and the refinement of `ByteQueue`, for any number of
buffers, chunk sizes, lengths and bytes. Each operator of `Buffer` has a lemma that says
what it does to the bytes held and that it keeps a buffer sound: `size_` is their number,
and no chunk but the newest is empty (`NewestOnly`). `data` needs the last part, since an
empty chunk in the middle makes it spin, and each of the four ways in must keep it.
`IInv` adds that the space lent is there and that no buffer holds more bytes than have
entered any (`size_ < next`), which bounds them through `swap`. The hypothesis
`"node" \notin Failures` is the one hazard of the code it excludes: `data()` loses the bytes
it had gathered when the list node cannot be allocated (`buffer.cc:100`), after which
`size_` is wrong. Failing chunks are not excluded.
The same lemmas carry the refinement of `Handler` by `HandlerBuffers` (`EchoesLikeHandler`, for
any chunk size among `ChunkSizes`), which is an instance there, for its operators are
those of `Buffer` (`SameCalls`). `EchoIInv` says that both buffers are sound, that the room in
`read_buf_` is no more than a chunk's (`recv` gets what `Handler` may lend) and that nothing is
left to write while the handler reads. A round of the echo loop is a stutter, since the
mapping counts the bytes of both buffers as unechoed until it ends.
The operators fold over lists of chunks of any length. The lemmas about them need
induction; they take the least element of a set of naturals (`LeastExists`,
`InductionOnSet`, from the well-foundedness of `<`) in place of the library's induction
theorems, which take an operator as a parameter, and unroll the concatenation of the
community modules once, in `FlattenValue` and `FlatStep`.

`WsReceiveProofs`: types, `HandedIntact`, `NothingSkipped`, `SpinsOnlyInsideHead`, for every
buffer size, every set of frames that `FrameAssumption` allows, any number of them and every
way the network cuts their bytes; the last three of clean streams. `IInv` has two layers. `Sound` is what holds of the parser on every stream: its
positions are in order and inside the allocation. `Follows` holds of `Clean` streams and ties the parser to the place in the stream it has reached. The
frames handed over are the first ones of the stream (`Kept`), because a data frame behind any
frame that stays in the buffer closes the connection; so the buffer begins where they end.
There is a frame `c` (`InFrame`) such that the bytes not yet parsed are those of the stream
(`Unread`); the frames between those handed over and `c` are none that is handed over, and
those to be answered are as many as were (`Passed`); and the parser is in one of four phases
of `c` (`Phase`: `AtHead`, `AtPayload`, `AtMask`, `AtData`), each of which says where `c` begins
in the buffer and which of its fields have been read, the last one also that what
has been unmasked is the text (`Plain`). None of the three properties is inductive by itself:
that a payload is unmasked with the right bytes of the key needs the masks and
`_parse_Index` to be of the frame that lies there, and that the pointer `_head.wbs`, which
the test for a complete frame follows, shows this frame or the one before (`Shows`). An
iteration leads to one of three ends (`Stuck`, `Moved`, `Ended`); the first one is possible only in
the phases of a head, hence `SpinsOnlyInsideHead`. How a stream is made of its frames comes
from the lemmas about `FlattenSeq` (`FlattenIsDefined` and those behind it).

Only model-checked: all liveness, which needs ENABLED; everything about `CodecUse`, whose
digests, texts and reference definitions recur on data and use bit operations, of which
the prover has no theory.

## Plan

Done: the `tl` layer with the echo server as a whole; of ExtNet the receive buffer, both
framings, the handshake with its algorithms and the life of a service.

Proved: every safety property that a passing run checks, but for the four of `ws` that are about `CodecUse`.

Next, in this order:

1. `Base64`: the allocated length suffices for every length (arithmetic without the loop).
2. An abstract echo that `Handler` implements, and with it `HandlerBuffers`.
3. The life of a frame across `WsReceive` and `Service`: what a callback that never returns
   does to `OnStop`.

## Not modelled

- `GateServer`: outside the CMake target, and nothing defines the constructor and the
  destructor its header declares, so no program contains it.
- `StickyWrap`: an abstract class that nothing derives from.
- `TcpService` and `TcpConnectMgr` as modules of their own: see Service.
- `Singleton.h`, record layouts, build files, the tests and the test client, which sends
  one message from the terminal.
- The contents of callbacks, and of payloads except where the parser looks at bytes;
  logging, addresses, socket options; `event_new` returning null, which no caller looks
  at.
