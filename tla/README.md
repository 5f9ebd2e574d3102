# Verification of the Store network library

TLA+ models of `src/base`, the C++ network library behind the `pingpong`
example: what its lock-free buffers, its connections and its threads promise,
checked with TLC on small instances, and its safety proved with TLAPS for every
value of the constants: the buffer for every size, the connections, threads and
loggers for any number of them, the messages for any fields, the timers for any
sizes of their lists.
Only the Linux branches of the code (`__gnu_linux__`) are modelled.

## The system

A server process has one **logic thread** (`Server::MainLoop`), some **network
threads** (`NetThread::Run`), and a **log thread** (`LogThread::Run`). A
connection (`StreamSocket`) is shared by the logic thread and one network
thread: `m_recvBuf` carries bytes from the network thread to the logic thread,
`m_sendBuf` carries them back. Neither has a lock. Both threads hold a counted
reference; either may find the connection broken, and says so in `m_invalid`.

| Component | State | Operations | What makes it correct |
|---|---|---|---|
| Ring buffer, `Buffer.h` | `m_maxSize`, `m_buffer`, `m_readPos` (consumer writes), `m_writePos` (producer writes) | `PushDataAt`, `GetSpace`, `AdjustWritePtr`, `GetDatum`, `PeekDataAt`, `AdjustReadPtr`, `Clear`, `InitCapacity` | behaves as a bounded byte queue under every interleaving of one producer and one consumer; no unread byte is overwritten; no touch of unallocated memory |
| Connection out, `StreamSocket.cc` | `m_sendBuf`, backlog `m_sendList`, `m_bShouldEpollOut`, epoll mask | `SendPacket`, `Send`, `OnWritable`, `_FinalSync` | bytes leave once, in order; a short write is always followed up |
| Connection in, `StreamSocket.cc` | `m_recvBuf`, `m_bodyLen`, `m_invalid` | `Recv`, `OnReadable`, `DoMsgParse` | packets come out whole and in order however the stream is cut; a packet that is accepted can always be completed |
| Network threads, `NetThreadPool.cc` | `m_newTasks`, `m_newCnt`, `m_tasks`, epoll set | `AddSocket`, `ModSocket`, `RemoveSocket`, `Run`, `_OnExit`, `GetThread` | a socket in epoll is in `m_tasks`; each is served by one thread; capacity; all are released at shutdown |
| Task manager and server, `TaskManager.*`, `EntryManager.h`, `Server.cc` | `m_newTasks`, `m_newCnt`, the map of tasks, `m_bTerminate` | `AddTask`, `DoMsgParse`, `Broadcast*`, `SendToID`, `NewConnection`, `_Recycle` | an invalid connection is removed; every valid one is visited; a message reaches whom it is for, once, and is read back as it was written |
| Accepting and connecting, `ListenSocket.cc`, `ClientSocket.cc` | the sockets | `Bind`, `OnReadable`, `Connect`, `OnWritable` | each accepted descriptor is owned by one connection |
| Threads and pool, `Threads/` | `m_working`, two semaphores, the list of threads | `Start`, `StopAndWait`, `Suspend`, `Resume`, `ExecuteTask`, `StopAllThreads` | what is given runs; stopping ends and leaves nothing running; nothing deleted is used |
| Smart pointers, `SmartPtr/` | share and weak counts | copy, release, promote | disposed once, after the last owner; the counter outlives the weak owners |
| Timers, `Timer.*` | five wheels, `m_thisCheckTime` | `AddTimer`, `KillTimer`, `UpdateTimers`, `_Cacsade` | a timer fires at its time, once per period; an update returns |
| Log, `Log/Logger.*` | `m_tmpBuffer`, the ring, the mapped file and its offset, `m_valid` | `operator<<`, `Flush`, `Update`, `LogManager::Update` | records whole and in order, in a file that has room; none is lost at the end |
| Pingpong, `src/pingpong` | none of its own | `_HandleHead`, `_HandlePacket` | the packet format |

Interaction: calls within a thread; shared memory between threads (the two
rings, `m_invalid`, `m_newCnt`, `m_working`, `m_runnable` read without a lock);
epoll between the kernel and a network thread; `m_newTasks` lists under locks
for the hand-over of sockets; reference counts for the lifetime; callbacks
(`Callback::Exec`, `_OnTimer`, packet handlers) that call back into the object
that called them. Hard behaviour: data races by design on the rings, short
writes, packets cut anywhere, errors on either side, the destructor that still
sends, shutdown while others start or hold threads, arithmetic that wraps.
`PROJECT.json` lists the hazards, each at its line and with the properties that
would notice.

`LOCK_SDK_LOG` is a lock around the lines of the library's own log, and in
`NetThread::Run` around the event handlers, when `DEBUG_BERT_SDK` is defined,
as `src/base/CMakeLists.txt` does. `Connections` and `ThreadLife` leave it out:
every order of steps it allows is one of theirs, and without the definition
there are more. `LogPipe` has it, as the lock of the writers.

## Modules

| Module | Role |
|---|---|
| `ByteFifo` | abstract: a bounded first-in first-out queue of bytes |
| `CircularBuffer` | the ring, one action per access to shared state |
| `CircularBufferProofs` | theorems about `CircularBuffer`; it implements `ByteFifo` |
| `SendPath` | outgoing half of a connection; its ring is a `ByteFifo` |
| `SendPathProofs` | theorems about `SendPath` |
| `RecvPath` | incoming half of a connection; its ring is a `ByteFifo` |
| `RecvPathProofs` | theorems about `RecvPath` |
| `Connections` | the life of all connections of a server, in its network threads and its logic thread |
| `ConnectionsProofs` | theorems about `Connections` |
| `Messages` | what is sent: `operator<<` and `>>`, and `Broadcast`, `BroadcastExceptID`, `SendToID` over the map of connections |
| `MessagesProofs` | theorems about `Messages`: whom a call reaches, and that what is sent is read back |
| `ThreadLife` | `Thread`, `ThreadPool` and those who use a thread of the pool |
| `ThreadLifeProofs` | theorems about `ThreadLife` |
| `Ownership` | abstract: an object that is owned, and ends once |
| `SharedCount` | the two counts behind `SharedPtr` and `WeakPtr`, one action per access |
| `TimerWheel` | `TimerManager`: five lists, cascading, callbacks |
| `UtilityProofs` | theorems about `SharedCount`, which implements `Ownership`, and about `TimerWheel` |
| `LogPipe` | writers, a `Logger`'s ring, the log thread and its files |
| `LogPipeProofs` | theorems about `LogPipe` |
| `MC...` and `.cfg` | constants for TLC |

`CircularBuffer` is modelled at the grain of memory accesses. `SendPath` and
`RecvPath` use the queue it is proved to implement, so that a `PushData` or an
`AdjustReadPtr` is one step there: this is the composition, and it is what
keeps those models small; `LogPipe` does the same with whole records. That they
use it as such a queue is a refinement of its own (`RingIsFifo` of each): one
writer and one reader take turns at `ByteFifo`'s `Put` and `Take`, and no step
does anything else to it. That a ring has one writer and one reader at all is
`OneWay` of `Connections`: the network thread of a socket never changes. The
lifetime of a socket in `Connections` is the set of those who hold it, which is
what `SharedCount` is proved to implement. A byte is always the number it has in the stream, so
that a lost, repeated, reordered or invented byte is visible.

### CircularBuffer

`readPos`, `writePos`, `maxSize`, `cell` are the members. The producer's program
counter `pPc` says which of `InitCapacity`, `PushDataAt`, `GetSpace` + `readv`
it is in, the consumer's `cPc` which of `GetDatum`, `PeekDataAt`, `Clear`. The
code reads the other side's position twice in each operation; the model has a
step for each read, so the other thread may move between them. `pVec` and
`cVec` are the `BufferSequence`s: the cells a thread may touch until it is done.
`pOff` is what `PushDataAt` has copied behind `m_writePos` and not published,
which is how `Logger::Flush` composes a record. `wTotal` and `rTotal` are
history. The atomic store of a position is a full barrier in `Atomic.h`, so
steps are taken to be sequentially consistent.

### SendPath

The logic thread (`lPc`) is in or out of `SendPacket`; each `PushData` it tries
is a step, because the network thread may make room between two of them. The
network thread (`nPc`) goes round `Run` for this socket: `Send`, the test for
invalid sockets, `epoll_wait`, `OnWritable`; `GetDatum` and `writev` are separate
steps (`datum`). The destructor (`dPc`) runs when both references are gone. The
kernel's buffer has `KernelRoom` bytes and takes any non-empty prefix that fits;
it refuses only when full. `garbled` and `aborted` are the outcomes of using
freed memory in the backlog: garbage or not, the allocator stops the process or
does not.

### RecvPath

The ring is two counters, `received` and `consumed`. The network thread stores
any number of the bytes on the way that the ring has room for. The logic thread
goes through `DoMsgParse` by its steps: `IsEmpty`, `GetDatum`, the head, the
tests, the body. Lengths are chosen by the peer; `Int32` is the arithmetic of an
`int` from `-IntLimit` to `IntLimit - 1`, for which the overflow of a signed product is given
the outcome compilers produce, wrapping. `_HandleHead` is the one of `pingpong`.
What the handler of a packet does is left to the application.

### Connections

One server: `N` network threads (`nPc`) go round `NetThread::Run`, the main
thread (`lPc`) goes round `MainLoop` with `TaskManager::DoMsgParse`, then stops
them. Sockets are values held by reference: `newTasks`, `moving` (the local
`tmp_tasks`), `tasks`, `conn` (the local `pNewTask`), `tmNew`, `tmTasks` hold
counted references, and a socket that none of them holds is `Destroyed`; `epoll`
holds raw pointers. What one connection does with its bytes is `SendPath` and
`RecvPath`; here a handler either leaves the socket valid, which changes nothing
of this state, or sets `invalid` (`SocketError`, and `Visit` on the logic side).
An error of the listener only terminates the server (`ListenSocket.cc:166`).

- Threads are numbered in the order of the set `m_threads`, in which `GetThread`
  and `StopAllThreads` go through it. `Init` is the state after `Server::_Init`,
  when the listener and the clients wait in the lists of the threads.
- `Accept` or `Connected`, then `Choose` (`GetThread`), `Push`
  (`NetThread::AddSocket`) and `AddTask` (`TaskManager::AddTask`) are
  `NewConnection`: three critical sections of three locks, between which
  everybody else moves. Each critical section is one step. `TryLock` may fail
  (`Skip`, `SkipNew`) whenever another thread stands before the same section,
  and then it may be in it.
- `Choose` reads `m_tasks.size()` of other threads without their knowledge; the
  model gives it the value at one moment.
- The loop over `m_tasks` in `Run` is one step (`Check`): the flag of a socket
  set while the loop runs is seen then or in the next round, and both are
  behaviours of the model.
- `Exit`, `Leave` and `Reset` are `_OnExit` and the deletion of the `NetThread`,
  whose destructor calls `_OnExit` again, for what was pushed in between.
- `crashed` stops the model: a network thread used the `NetThread` of a thread
  that had ended, which `Choose` had given it before. The properties say what
  holds unless that happens; the hazard is listed.

### Messages

A buffer is a sequence of bytes; a byte remembers the number it is part of and
its place in it, so that a count read as wide as it was not written, or halves
swapped, give nothing anybody wrote (`None`). `Put` and `Get` are `operator<<`
and `operator>>`, which copy a number as it lies in memory. That a number is in
network order is up to the application, which calls `Host2Net` before and
`Net2Host` after, as `ClientTask.cc` does with the length of a body: `WriteField`
and `ReadField` are an application that does so with some of its numbers (an
`int` or a `long`) and not with others (`number`). The containers that the code treats alike share a kind:
`list` counts in an `unsigned short`, `set` (and `multiset`, `map`) in a
`size_t`. A text is all or nothing: when it does not fit, the write position is
moved back over its count. `Host2Net` is what a little-endian host does. The
buffer is a `StackBuffer<N>`: what is written is tested against `m_maxSize`
(`Room`), which is `N` rounded up to a power of 2, over an array of `N` bytes. A
message that goes behind the array (`InArray` is false) is undefined behaviour,
and is not followed; the one `StackBuffer` of the repository has an `N` of 2048,
for which it cannot happen. Pointers, for which the operators do nothing, are
left out.

`AddTask`, `StartRound`, `Visit` and `GoOn` are `DoMsgParse`: the iterator `it`
moves on before a connection is removed or its handlers run. A call to send
(`Send`) begins in a handler or in the main loop; `ExecAll`, `ExecExcept` and
`Find` look at one entry, and `SendPacket` is a step of its own, because a
network thread may set `m_invalid` in between. `inbox` has the packets a call
has given to each connection. What happens to the bytes then is `SendPath`.

### ThreadLife

A `Thread` is a record: its object (`obj`), its task (`runnable`, `dangling`
while `UniquePtr::Reset` has deleted it and not yet written NULL), `working`,
`launched` (`m_handle`), the two semaphores, and where its `ThreadFunc` is
(`pc`). `server` is the main thread in `StartAllThreads` (which keeps
`m_threadsLock`) and `StopAllThreads` (which does not while it waits); each test
of `StopAndWait` is a step. `caller` are threads in `ExecuteTask`, which nothing
in the repository calls, and in `NetThreadPool::AddSocket`, which use the Thread
they found after the lock is released. `Start` (`StartThread`) is a step for each of the wait for `m_mutex`, the test of
`m_working`, `pthread_create` and the post, whoever calls it; `pthread_create` may
fail, and otherwise stores `m_handle` and lets the thread run in one step
(`Launch`), which is what the system promises. `Join` and `Delete` are two steps,
so that a `Start` may fall between them: the thread it launches then runs on a
deleted `Thread`. `undefined` stops the model when deleted memory is used (by a
caller, or by such a thread: `ThreadFails`) or a handle is overwritten. A network
task ends after `Stop`, a one-shot task by itself.

### SharedCount

`kind` says what each handle is or which step of `AddShareCopy` or `DecShareCnt`
the call on it has reached; `share`, `weak` are the counts, `self` the object's
own `m_weak` (`EnableShareMe`). An assignment is a release and a copy. A handle
is not itself shared: one that a copy is being made from is not dropped
meanwhile. The atomic operations of `Atomic.h` are steps.

### TimerWheel

A slot is the set of the timers linked into it, so that the order within a slot
is free. `Place` is the whole of `AddTimer`'s choice, in the arithmetic of an
unsigned difference, which overflows at `Modulus` where the five lists end, and `Cascading` what `_Cacsade` empties in
a turn of the first list: only the first of the upper lists that has timers.
`Fire`, `Return` and `SlotDone` are the loop over a slot, with the application
(`NewTimer`, `AddAgain`, `KillTimer`) free to run inside a callback. The clock may
be set back. `Endless` is the test that the loop of `_Cacsade` takes a timer out of a
slot and puts it back there; the model then stops in `hung`. `AddTimer` of a
timer that is linked already is a misuse the code does not detect, and is left
out. The specification is called `TimerSpec`, with `TimerInit`, `TimerNext` and
`TimerTypeOK`, since its proofs share a module with those of `SharedCount`.

### LogPipe

The text of a line is the list of its parts, each with its writer; `mine` is
what each writer meant to write, and `pos` is `m_pos`. A record of the ring is a
text and the length that `Flush` pushes for it. `AppendPart` is all of the `operator<<`, with the number
of characters they ask for (`reserve`) and write (`chars`). `Flush` is `Stage` and
`Publish`. It ends the line with `'\n'` and `'\0'` without asking for room, and
`m_pos` lies right behind `m_tmpBuffer` (`Logger.h:71`). On a line one short of
`MaxLine` the `'\0'` falls on the lowest byte of `m_pos`, which is about to be
pushed as the length (`Line`, `LowByte`): it is 0 there already, because
`MaxLine` is a multiple of `Byte`, as 2048 is of 256. On a line of `MaxLine` the
`'\n'` falls on it, and the length that is pushed has nothing to do with the
line: `Overrun` is that step, and the model stops there. The log thread's `cpc` goes through `Logger::Update` and the look at
`m_valid` in `LogManager::Update`; `Exit` is the last `Update`, in `~LogManager`.
A new file is empty, or, if its name repeats within a millisecond, as long as
the one just closed. `open` and `mmap` may fail. Both targets, console and file,
are on. `SetValid` has no caller in the repository; `Invalidate` is the use its
comment describes (after the last line of the thread that logs).

## What is checked

| Run | Instance | Result |
|---|---|---|
| `circular_buffer` | 4 cells, pieces of 1 to 4, 9 bytes | the ring is safe and implements `ByteFifo` |
| `send_path` | ring of 4, kernel 2, packets of 2, 3, 4, three calls | order, no loss, the ring a `ByteFifo`, what is in it is sent, the final synchronisation ends |
| `recv_path` | ring of 8, heads of 2, lengths 0, 2, 5, 6, -1, 11, ints of 6 bits, three packets | the ring a `ByteFifo`; bodies whole, in order, and all of them in the end |
| `connections` | two threads of one socket each, a listener, a client, two connections | one thread per socket, for all of its life; lists, epoll and `TaskManager` agree; connections are polled, invalid ones are destroyed; shutdown ends |
| `threads` | a network thread, one for `ExecuteTask`, two tasks, two callers | tasks run; stopping ends, with nothing running; undefined behaviour, or a thread that outlives the stop, only in the races below |
| `shared_count` | five handles | destroyed once, after the last owner; the counter lives as long as it must; promotion ends; implements `Ownership` |
| `timers` | lists of 2 and 4 slots, two timers, one of which is linked into any list | when timers fire, and that an update returns, with the exceptions below |
| `log` | two writers, three lines of two parts, lines of 4 with their prefix, a ring of 12, files of 11 | until a line is as long as `m_tmpBuffer`: whole lines in order, in files with room; none lost but in one window |
| `messages` | three connections, messages of two fields out of eight, an array of 7 whose size is rounded up to 8 | who gets a message, and that it is read back |
| `send_too_big` | packets of 2 and 4 | violated, see below |
| `send_backlog` | packets of 2 and 3 | violated |
| `send_final` | one packet of 2 | violated |

Bounds. In the ring 9 bytes of 4 cells go round more than twice, and pieces of
1 to 4 (one too long) begin and end at every cell; the proofs remove the bounds.
In `SendPath` three packets are enough for one to fill the ring, one to wait in
the backlog and one to arrive while it waits; a kernel buffer smaller than the
ring makes short writes and `EAGAIN` unavoidable. In `RecvPath` the lengths are
an empty body, a short one, the longest that is accepted, the shortest that is
refused, a negative one, and one whose triple wraps; two of the longest do not fit into the ring
together. In `Connections` two threads are enough for each to hand a socket to
itself and to the other; with room for one socket in each, the pool gets full
(`Choose` finds nothing) as well as over-full, and two connections can be handed
over at the same time, by the listener's thread and by the client's. In
`ThreadLife` two callers and two tasks let the second task find the first one's
thread idle, being started, or not there; the stop may come at any step of
either. Five handles are the last owner, a watcher, the two that two threads
promote at the same time, and one to copy to. In `TimerWheel` the lists reach 2,
8, 32, 128 and 512 ms, the clock goes on to 40 and lags behind by one; one timer
repeats in the first two lists and the other's intervals are one for each of the
lists and one whose difference is negative as an integer. Their turns come within
those 40 ms in the first three lists; in the fourth only by the move into the slot
in progress (`hung`), and in the fifth not at all: a timer there is linked and
killed. What happens to those in their own turn is left to the theorems. In `LogPipe` a ring of 12 holds at most
two records and a file of 11 three short ones, so both fill up, and the record
that ends a file is of every length; a line of two parts may be one short of
`MaxLine` (4), where the `'\0'` falls on `m_pos`, or `MaxLine` long after a number
(`Overrun`). In `Messages` 7 bytes are one long field or two short ones, what does
not fit is left out or cut off, and a count wraps at 4. A size of 8 lets 7 bytes
through, so that an `N` of 7 is rounded up and yet no message goes behind the
array: all of them are sent, and smaller `N` are left to the theorem. `CHECK_DEADLOCK FALSE` in every configuration: the bounds end the
traffic, a closed connection has nothing left to do, and a server that has shut
down has ended.

Fairness. `CircularBuffer` has none and needs none. In `SendPath` the network
thread, the destructor and the release of references are weakly fair (each is a
loop of a thread that is always scheduled), a `SendPacket` that was begun goes
on, and a peer that has not reset the connection reads in the end;
without the last one `BufferedIsSent` and `FinalSyncEnds` are false, and the
destructor spins for ever. Calls of `SendPacket`, errors and shutdown are not
fair. In `RecvPath` both threads are weakly fair, the peer is not.
In `Connections` the main thread and each network thread are weakly fair in the
steps of their loops; connections, errors and termination are not, they need
never come. In `ThreadLife` every thread goes on with the call it is in and
one-shot tasks end; in `SharedCount` a call that was entered goes on; in
`TimerWheel` an update goes on and callbacks return; in `LogPipe` the log thread
goes on, a line that was begun is finished, and a file name that is free turns
up: that is strong fairness of `FreshFile`, which stands for the time in the
name, without which the loop that changes files could spin in one millisecond
for ever. `Messages` has none and needs none.

Every property has a mutant of the code, in the module next to the definition it
changes (`Mutant of ...`), that breaks it.

### Where the code and its own words differ

1. `StreamSocket.cc:423` says too big packets are dropped; one that is not the
   first goes to the backlog instead and blocks it (`TooBigIsDropped`).
2. A packet that waited in the backlog is sent from memory that was freed: `Msg`
   owns an array and has no copy constructor (`SendsTheData`).
3. `_SendFully` starts again at the first byte after a short write
   (`PeerGetsStream`).

Others are not runs of their own, but named as exceptions in the properties
that hold, which is where to look for what they can and cannot cause:

4. `BodiesInOrder`: the test for too big packets, `3 * m_bodyLen`
   (`StreamSocket.cc:615`), overflows for a length above `INT_MAX / 3`; the
   connection then waits for a body that never fits.
5. `UndefinedOnlyInRaces`: a `Thread` (or the `NetThread` it runs) that a caller
   had in hand when `StopAllThreads` emptied the pool may be deleted before it is
   used (`NetThreadPool.cc:612`, `ThreadPool.cc:61`). For the network threads'
   own calls the lock of the SDK log happens to prevent it where it is defined.
   `StopAndWait` may call `Stop` on a task that its thread is just deleting
   (`Thread.cc:124`), but only on one that ends by itself, never on a network
   thread's. `NothingRunsAfterStop` has the same exception: between `Join`'s test
   of `m_handle` (`Thread.cc:133`) and the `delete` (`ThreadPool.cc:79`) such a
   caller may launch the thread, which then runs after `StopAllThreads` has
   returned.
6. `StopEnds`: a stop request that comes before the new thread has set
   `m_working` is overwritten, and `Join` waits for ever. `StartAllThreads`
   followed at once by a failure of `StartLog` is enough.
7. `NeverEarly`: a timer exactly 256 ms ahead of the slot whose callback adds it
   goes into that very slot and fires at once, as does one of 2^31 ms and more.
8. `NearOnTime`: only timers more than 16 s ahead can be late; the upper lists
   cascade only when the ones below them were empty at that moment. A timer
   that was overdue by more than 2^31 ms looks as if it were as far ahead. (It was
   the proof that found this exception: no clock of a run goes that far.)
9. `HangsOnFullTurn`, `UpdateEnds`: `_Cacsade` moves a timer that is nearly a full turn of list 3 or
   4 ahead (within the last 16 s of 17 minutes, or the last 17 minutes of 18
   hours) back into the slot it empties, for ever.
10. `ComesOut`: a line flushed between the last `IsEmpty` of `Update` and
    `Valid()` is deleted with its Logger, though the comment at `Logger.cc:642`
    says it is still flushed.
11. `OutInOrder`: after `open` or `mmap` has failed once, `m_offset` is 0 and the
    file is never changed again: what is logged from then on is in no file if it
    was `mmap`. `WritesFit`: `Flush` adds `'\n'` and `'\0'` (`Logger.cc:225`) that
    nobody has asked room for, so that the `'\0'` of a line of 2047 characters is
    written on `m_pos`, where it does no harm; and the `operator<<` of numbers ask
    for one character less than the longest number has, so that a line may have
    2048, and then the `'\n'` is written on `m_pos` before it is pushed as the
    length. `OutInOrder` and `ComesOut` hold until then. (`MAXLINE_LOG` is 1024 at `Logger.cc:45`, but
    in the members of `Logger` it is the 2048 of `Logger.h:70`.)
12. `Delivered`: `Broadcast` ("to all tasks", `TaskManager.h:58`) stops at the
    first connection that is invalid and not yet removed; `BroadcastExceptID`
    does not look.
13. `ReadsBack`: an empty vector, list, set or map writes nothing, so that the
    reader takes the next field for its count; the count of a text or list over
    65535 wraps; the undo for a text that does not fit takes back two bytes also
    when its count had not fitted. `InArray`: a `StackBuffer<N>` whose `N` is not a
    power of 2 accepts up to the rounded size less one (`Buffer.h:708`) into an
    array of `N`; `StackBuffer<2048>`, the only one there is, does not.

Two more are in the models and in no property, because nothing good can be
promised about them: a connection whose end of stream is read first is removed
with whole packets unparsed (`TaskManager.cc:50`; `TaskManager.h:70` says every
message is parsed), and a network thread gets more sockets than
`NetThreadPool.h:65` says, because those that `Run` has taken and not yet added
are counted nowhere.

`StreamInOrder` therefore speaks of which bytes are sent, up to the destructor,
and 2 and 3 are separate statements.

## What is proved

### CircularBufferProofs

For every `Capacity` > 0, every piece length and any number of bytes (the
assumptions are `CapacityAssumption` and `BoundsAssumption` of `CircularBuffer`; the
mask is written as a remainder, which is what `& (m_maxSize - 1)` is when the
capacity is a power of 2, and the proofs need no more than that the capacity is
positive).

The inductive invariant `Inv` is the conjunction of

- `TypeOK`;
- `Startup`: before `InitCapacity` nothing was written, and nobody is inside the
  buffer until the resize is over;
- `Positions`: the two positions are the byte counts wrapped, and the staged
  bytes leave one cell free;
- `ProducerCells`: the cells the producer holds are the ones right behind the
  staged bytes, and there are no more of them than were free *at the first
  read*, which the consumer can only make more;
- `ConsumerCells`: the same for the consumer, with what was published;
- `Bytes`: every unread or staged byte is in its cell.

The properties alone are not inductive: that no unread byte is overwritten after
the second read of `m_readPos` depends on the test made with the first one,
which only `ProducerCells` remembers. From `Inv` follow `TypeCorrect`,
`SizeIsExact`, `NeverOverwrites`, `ReadsInOrder`, `AccessesAreSafe`, and, with one
step of each action, `LayoutIsComplete` and `Refinement` (`Spec => Fifo!Spec`).
TLC checked `Inv` before it was proved.

### UtilityProofs: SharedCount

For every finite, non-empty set of handles (`HandlesAssumption`). The inductive
invariant `Inv` is the conjunction of

- `TypeOK`, with counts that are natural numbers: they never go below zero;
- `CountsTell`: the counts are the numbers of handles;
- `Life`: while there is an owner the object is alive and nobody releases it;
  when there is none, one thread at most does, and how far it has come decides
  whether the object and its `m_weak` are still there;
- `Calls`: a promotion has a handle to rely on, and swaps only from a count
  above zero;
- `FreedAtZero`: the counter was freed when the weak count reached zero, and
  only then.

`OwnedIsAlive` is not inductive: that a promotion cannot revive the object rests
on `Calls` (it never swaps from zero) and on `CountsTell` (a count above zero has
an owner), which `SwapFindsOwner` puts together. From `Inv` follow `TypeCorrect`,
`CountsCorrect`, `Alive`, `LifetimesKept` and, with one step of each action,
`NotRevived` and `Refinement` (`Spec => Abstract!Spec`).

### UtilityProofs: TimerWheel

For lists of any sizes above 1 (they need not be powers of 2), any timers with
any intervals and counts, and any bounds of the clock (`TimerWheelAssumption`).
The inductive invariant `WheelInv` is `TimerTypeOK`, `HangsOnFullTurn` and, for
every timer that is linked, `OnTime`. With `Upcoming`, the millisecond whose slot
of the first list is processed next or is being processed, that is

- `WithinRound`: in the first list it lies in the slot of its own time, less than
  a round after `Upcoming`, or is one of the exceptions `NeverEarly` names;
- `Soon`: if it was less than two lists ahead it is in the first list, or in the
  second in the slot of its own time, whose turn is still to come;
- `Overdue`: if it was overdue it is in the slot it was added to, which is the
  very next.

`NeverEarly` and `NearOnTime` are about steps, and follow from the invariant
before the step (`Firing`). Neither is inductive: that a timer is in a slot whose
turn comes says nothing of *which* turn, so the invariant has to say how far away
its time may be, for each list. The work is in the arithmetic: quotient and
remainder are unique (`DivModUnique`), two times of one slot of the first list
are a multiple of a round apart (`RoundApart`), the turn of a slot of the second
list is the first millisecond of the slot (`SecondListTurn`), and a timer that
AddTimer puts into the slot of an upper list whose turn it is is nearly a full
turn ahead (`FullTurn`), which the differences that lead to the second list and
to the fifth exclude. `Cascades` uses that the second list always comes
first, which is why it is on time and the others need not be. From the invariant
follow `SlotsExist`, `HangsOnlySo`, `FiresNotEarly` and `FiresInTime`.

### ConnectionsProofs

For any number of network threads with any room, and any sockets
(`ConnectionsAssumption`). The inductive invariant is the conjunction of

- `TypeOK` and `RegisteredIsHeld`;
- `Apart`: no socket is in two of the lists of the threads, nor twice in one;
- `Opening`: what `NewConnection` holds between `accept` and `AddSocket` is in no
  list, and no two threads hold the same;
- `Phases`: what a thread has given up by the time it is in each step of its end;
- `Stopping`: how many threads have ended, by the step of the main thread;
- `Managed`: a connection in any list of a thread, not only in `m_tasks`, is
  known to `TaskManager`, or invalid, or still held by the one that opened it.

`OneThread` is not inductive: `Push` puts a socket into the list of a thread that
was chosen long before, and only `Opening` says that nobody has it yet; nor is
`ServedIsManaged`, since a connection is served by a thread before the thread
that opened it has given it to `TaskManager`. From the invariant follow
`TypeCorrect`, `ServedByOneThread`, `EpollMatchesTasks` and `KnownToLogic`.

`ServedOnce` is about steps: `OneWay` says that a socket comes into the lists of
one thread, once, and leaves each as it enters the next. `UnservedBefore` and
`ListsBefore` ask of what is in a list after a step where it was before it; the
rest is the invariant after the step (`Apart`, and `Opening`: what was added to a
list is no longer held by `NewConnection`). `OneThread` alone would allow a socket
to go to another thread once the first has dropped it, half a packet sent.

### SendPathProofs

For a ring, a kernel buffer and packets of any size. The inductive invariant is
`TypeOK`, and

- `Stream`, until the destructor: wire, ring and backlog are consecutive pieces of
  the stream, the pieces of the backlog packet by packet;
- `Datum`: what `GetDatum` has returned is still at the front of the ring;
- `Refs`: who holds the connection, and that the destructor is alone;
- `Allocated`: an unallocated ring is empty.

`StreamInOrder` speaks of what was sent only; that it goes on being true rests on
what waits in the ring and in the backlog (`Stream`), and on the network thread
taking from the ring what it looked at (`Datum`).

`SendsFifo` (`Spec => RingFifo!Spec`) needs both, too: a message of the backlog
that is put into the ring continues the stream only because of `Stream`
(`Ringed` is how far the stream has come into the ring, not how far it was
accepted), and the thread that sends releases no more than there is because of
`Datum`. `RingPuts` and `RingTakes` are the two kinds of steps.

### RecvPathProofs

For a ring, heads and lengths of any size, negative ones too, under
`RecvAssumption`: the ring has room for a head and a byte, and the triple of its
size is an `int`, as the default of 128 KB is (`Buffer.h:52`). The inductive invariant is `TypeOK`
and

- `Stream`: the packets the peer sent lie one behind the other;
- `Ring`: one cell is free, and the ring is allocated before it is used;
- `Standing`: between packets `DoMsgParse` stands where one begins, and with a
  length in `m_bodyLen` right behind that packet's head;
- `Tested`: what the tests `DoMsgParse` has passed still say, while the network
  thread puts more into the ring;
- `Handled`: the packets handled are those that lie before where it stands.

`BodiesInOrder` is not inductive, for a parser that stood in the middle of a
packet would go wrong only later. The exception for a length whose triple wraps
is in `Tested`; `Int32Exact` shows that the triple of a length the ring can hold
does not.

`ReceivesFifo` (`Spec => RingFifo!Spec`): the bytes from `consumed` to `received`
are a `ByteFifo`. That a head or a body is there when it is released is what
`Tested` remembers of a `SizeForRead` read earlier, and that it was refused
before when it can never fit.

### ThreadLifeProofs

For any network threads, spare threads, tasks and callers. The inductive
invariant is `TypeOK`, `UndefinedOnlyInRaces` and

- `Places`: a `Thread` object lives exactly while it is in the pool, is to be
  stopped, or is being stopped;
- `Machine`: the semaphore of a thread and its flags by where it is, and that a
  `Thread` that is about to be deleted, or was, has no thread, or one that has
  ended, unless it is in `log.race`;
- `Mutual`: while a `Start` has `m_mutex` (`Held`) nobody else is in a `Start` of
  that `Thread`, and what it found `m_working` to say is still so, unless the
  pool was cleared in between; `MutualKept` is what all the other steps need;
- `NetTasks`: until `Stop` has reached it a network thread's task stays with its
  thread, which is what makes the race of `UniquePtr::Reset` impossible for it;
- `Hands`: what a caller has in hand is in the pool, unless the pool was emptied
  under its hands.

`PoolIsGone` rests on `Hands`: a thread can be launched
between `Join`'s test of `m_handle` and the delete only by a caller that had its
`Thread` in hand when the pool was cleared, since nobody finds it after that; for
such a `Thread` the theorem promises only that it is deleted, not that no thread
runs on it.

### LogPipeProofs

For any writers and parts and any sizes for which a line is longer than its
prefix and shorter than a file. The inductive invariant is `TypeOK` and

- `Locked`: one writer at a time, and `m_tmpBuffer` holds what that one wrote;
- `LinesFit`: the line in `m_tmpBuffer`, which is one character too long only
  after a number, those in the ring, and the one that was promised room between
  `Stage` and `Publish`, which is a whole line;
- `Bytes`: the number of bytes in the ring is that of its records, without what
  the log thread has read of the oldest. The sum over records is a function of
  ends of which the invariant says that one exists; each step names the next;
- `Reading`: what is printed, in the files and in the ring is what was flushed,
  at every step of the log thread.

`TypeOK` bounds `used` from below and above, which needs `Bytes` (a read takes no
more than there is) and `LinesFit` (a writer publishes later than it tests).
`LineIsWhole` is the arithmetic of the terminator: where it falls on `m_pos` the
byte is 0 already, so the length that is pushed is that of the line and its line
feed. Where the line feed itself falls on it (`OverrunInv`) nothing more is
promised.

### MessagesProofs

For any connections, any fields and widths, and messages of any length. The
inductive invariant is `Types` and

- `Once`: what a connection has of a call is the message, once, and not nothing;
- `Undisturbed`: while a call is under way nobody else moves in the map, the
  iterator is at an entry of it, and who is sent to next has nothing yet;
- `Broadcasting`: `Broadcast` and `BroadcastExceptID` have served exactly what
  their iterator has passed (`Passed`), and where they stop;
- `Finding`: `SendToID` has found its connection, unless it is not reachable.

`Delivered` speaks mostly of a call that is done; what makes it so is where the
iterator is on the way. `AfterIsNext` shows that the iterator misses no entry:
it rests on the order of the ids being well founded. From it follows
`ReachesThoseItShould`.

`ReadsBackWhatWasWritten` needs only `Once` of the invariant; the work is in the
operators. `Host2NetReverses` and `Host2NetTwice`: what the application does to
its numbers is the reversal of their bytes, also where it swaps halves that are
each swapped, and undoes itself. `WriteAppends`: while there is room, writing a
field appends exactly its bytes (`Encoded`). `ReadTakes`: reading one takes
exactly these off again, whatever follows them.
The rest is an induction over the fields (`Induction`, which states it with a set
because the theorem of the library takes a predicate): `Size` grows, so that no
prefix of a message that fits is too large (`WrittenWhole`), and the reader has
the first fields right and all of the others before it (`ReadsWhole`). That the
recursive functions inside `Written`, `ReadBack` and `Size` are what their
equations say (`WrittenSteps`, `ReadBackReads`, `SizeSums`) is such an induction
too, over functions that satisfy the equations up to a point.

For each of these invariants TLC checked that it holds, on the instance of the
run, before it was proved.

### Only model-checked

Every invariant and every action property of the runs is proved, and so are the
four refinements (`CircularBuffer`, the rings of `SendPath` and `RecvPath`,
`SharedCount`). The type invariants of `SendPath`, `RecvPath` and `Connections`
are theorems only; TLC checked them with the inductive invariants. What is left to TLC are the liveness properties
(`BufferedIsSent`, `FinalSyncEnds`, `HandledInTheEnd`, `AddedIsPolled`,
`InvalidIsDestroyed`, `ShutdownEnds`, `StopEnds`, `TaskRuns`, `PromotionEnds`,
`UpdateEnds`, `ComesOut`), since the prover knows nothing of fairness and
`ENABLED`, and the three violations.

## Plan

Done: every module, and the proofs of all their safety properties. Left, should
the code change: `GetThreadOptimal` in `Connections` once it has a caller, and
lookups of `Buffer.h` at offsets other than 0 once they are used.

## Not modelled, and why

- The Windows branches: a second implementation, on completion ports.
- `IPC.cc` and `Atomic.h` wrap primitives of the system and are taken to work;
  `RWLock` and `Condition` have no users. Identifiers of 32 bits wrap after 2^32
  sockets or threads.
- The lock of the SDK log, outside `LogPipe`. It serialises the event handlers, and
  one order of locks with it is wrong: an application that connects from its
  logic thread holds a `NetThread`'s lock and waits for the log's
  (`NetThreadPool.cc:49`), while a handler that accepts holds the log's and waits
  for the `NetThread`'s. The programs of the repository connect before the
  network threads start.
- `AttachedBuffer`, through which the log thread reads a record in one piece, and
  offsets the repository does not use (`GetDatum`, `GetSpace`).
- A big-endian host. The `operator>>` of `multimap`, which does not compile
  (`m[k]`, `Buffer.h:650`), and `operator<<` of pointers, which does nothing.
- `GetThreadOptimal`, which has no caller; a connect that succeeds at once; name
  resolution and socket options; the calendar in `Time::FormatTime`; the wording
  and colours of log records; `~TimerManager`, which only unlinks.
- The `pingpong` programs beyond their packet format. They write to a Logger of
  their own from several threads without a lock, which `SetCurLevelUnlocked`, the
  mutant of `SetCurLevel`, shows to mix up lines.
