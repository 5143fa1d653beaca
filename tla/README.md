# A formal model of Iocp_Echo

Three generations of an echo server on Windows I/O completion ports, in TLA+:

| directory | what it is |
| --- | --- |
| `src/Iocp_Echo` | first server: a session map and critical sections |
| `src/Iocp_Echo_LockFree` | second server: an array of session slots, pointer rings, interlocked counters |
| `src/Iocp_Echo_LockFree_Class` | third server: the class `CLanServer`, with a lock-free stack, lock-free queues and memory pools |

The third is the current one and gets most of the attention. All three are
modelled, because the same questions (who owns a session, who may send, who
deletes it) were answered in three different ways.

`PROJECT.json` lists the components, the runs, the line of the source behind
each definition, the hazards and the theorems. A run `x` of module `M` is
`tlc -config x.cfg M`; the proofs are in the modules `*Proofs` and are checked
with `tlapm M.tla`, from half a minute (`PacketProofs`) to a quarter of an hour
(`LanServerProofs`).

## 1. Inventory

### The server and its threads

An echo server has one accept thread, some worker threads that wait on one
completion port, a main thread, and in the third server a monitor thread. A
client gets a *session*: a socket, a receive ring `_recvBuf`, a send buffer
`_sendBuf`, two `OVERLAPPED`s (at most one receive and one send are to be
outstanding), a reference count `_IOCount`, and a flag `_sendFlag` that says
that somebody is sending.

* **accept**: `AcceptThread` finds a slot, clears the session, takes a reference
  of its own, sends the login packet (`OnAccept`), posts the first receive and
  drops its reference.
* **receive completion**: `ProcessRecvMessage` cuts the stream into messages
  (2 bytes length, payload), makes a `CPacket` of each and calls `OnRecv`, which
  calls `SendPacket`: queue it, `SendPost`. Then the next receive is posted.
* **send completion**: the packets of the send are released, the flag is given
  back, `SendPost` sends what was queued meanwhile.
* **end of a session**: a completion with 0 bytes, or a call that fails at once,
  posts nothing new; who drops the last reference releases the session.
* **stop**: `Stop` closes the listening socket, invalidates and cancels all
  sessions, posts a null packet per worker and joins the workers.

### Components

| component | state | operations | hard because | what makes it correct |
| --- | --- | --- | --- | --- |
| `CLanServer` | session array, index stack, counters | accept, completions, `SendPacket`, `Disconnect`, `Stop`, `Release` | all threads work on a session without a lock | references counted exactly, a slot reused only when nobody refers to it, one receiver, one sender, no orphaned packet, orderly stop |
| `CMemoryPool` | tagged free list | `Alloc`, `Free` | ABA, retry loops | a block is in one place at a time |
| `CLockFreeStack` | tagged list, pool | `Push`, `Pop` | the same, with recycled nodes | linearizable LIFO |
| `CLockFreeQueue` | head, tail, counter, pool | `Enqueue`, `Dequeue`, `GetSize` | helping, lagging tail, untagged links | linearizable FIFO; what is counted can be taken |
| `CRingBuffer` | bytes, front, rear | WSABUFs, `Peek`, `Enqueue`, moves | wrap-around, memory lent to the kernel | the stream comes out as it went in |
| `CRingPtrBuffer` | bytes, front, rear | `Enqueue`, `Dequeue`, `SetSendWsabufs` | two threads, pointers cut by the end of the ring | linearizable FIFO |
| `CPacket` | bytes, two positions, count | insertion, extraction, `AddRef`, `Release` | shared by handler and senders | sent whole, deleted once and not too early |
| second server | slot array, pointer ring | as above | the ring is read in place during a send | as above |
| first server | session map, locks | as above | two lock orders, deletion | no use after deletion, no lock cycle, everything echoed |
| `CLogManager` | per tag a buffer, a lock and a month; files | `SetDirectory`, `SetLogLevel`, `Log`, `LogHex` | the month changes outside the lock, a line resizes the buffer of another | lines whole and in order, marked files, no line lost without a cause, calls return |

Not modelled:

* `SessionLogQueue`: a trace for the debugger that nothing reads. Its index is advanced
  where a slot is set up and where it is given back, which `SlotLife` keeps apart.
* `CMonitor` and the per-second counters: printed and set back, nothing depends on them.
* CPU, memory and network usage, crash dumps: I/O with the operating system.
* The client classes (stubs), `CAddressTranslator.h` (included nowhere),
  `src/Iocp_Echo/CRingBuffer.cpp` (not part of the build).
* Of modelled parts: the set-up in `Start`, the debug build's guards of the pool,
  `CRingBuffer::Resize` and the copies of `CRingBuffer`'s operations in the pointer
  ring, which nothing calls, `CPacket`'s `operator =`; of `CLogManager` the wording of
  a line, unknown tags and the destructor.

How the components meet: the workers call the ring (`_recvBuf`), make packets,
put them into the queue, and gather up to 50 of them for a `WSASend`; the accept
thread pops the index stack, a releasing worker pushes it; stack and queue take
nodes from pools of their own. Winsock holds the rings' and the packets' memory
while an operation is outstanding.

## 2. The modules

| module | models | interface |
| --- | --- | --- |
| `LanServer` | third server | stack, queues, rings by their abstract contents |
| `LanServerProofs` | theorems about it: counting, slots, exclusion, who looks after a queued packet; the packets: order, references, the promise to the clients | |
| `EchoService` | abstract: what a server promises its clients | implemented by `LanServer`, `RingServer`, `LockedServer` |
| `MemoryPool` | `CMemoryPool`, as code its users run | |
| `LinearSequence` | abstract: what a concurrent stack or queue promises | |
| `LockFreeStack` | `CLockFreeStack` | EXTENDS `MemoryPool`, implements `LinearSequence` |
| `LockFreeStackProofs` | theorems about it: nodes, linearizability | |
| `LockFreeQueue` | `CLockFreeQueue` | EXTENDS `MemoryPool`, implements `LinearSequence` |
| `LockFreeQueueProofs` | theorems about it: nodes, the counter, linearizability | |
| `RingBuffer` | operators of `CRingBuffer` | |
| `EchoStream` | the bytes of a session of the first server: receive ring, framing, send ring | EXTENDS `RingBuffer` |
| `PtrRing` | `CRingPtrBuffer`, two threads | EXTENDS `RingBuffer`, implements `LinearSequence` |
| `BufferProofs` | the arithmetic of the rings, theorems about both; what the promise of `EchoService` comes to | |
| `Packet` | `CPacket` | |
| `PacketProofs` | theorems about it: contents, references | |
| `RingServer` | second server | its ring by abstract contents |
| `RingServerProofs` | theorems about it: types, slots, exclusion; the packets in the ring and the promise to the clients | |
| `LockedServer` | first server | its rings by whole packets |
| `LockedServerProofs` | theorems about it: locks, deletion, the promise | |
| `LogManager` | `CLogManager`, with the clock and the files | on its own: no server logs through it yet |
| `LogManagerProofs` | theorems about it: lines, buffers, losses | |

`MC*` modules give the constants values. Definitions whose comment speaks of a
faulty variant are not part of a specification: they are what a run is
tried against, to see that its properties can fail.

### LanServer: state and actions

One action per step that another thread can observe. `pc[t]` is where thread `t`
is, `cur[t]` the session it works on, `op[t]` which completion or accept it
serves, `batch[t]` the messages it still has to handle.

* `SendPost` (`CLanServer.cpp:432`) is `size1` (the test at :434), `xchg1` (:437),
  `size2` (:447), `clear1` (:449), the loop `size3`, `xchg2`, `size4`, `clear2`
  (:450-:464), `gather` (:467-:478), `post` (reference and `_sendCount`), `wsaSend`,
  and `failDec`, `failClear` for a call that fails at once (:497, :498).
* `Release` is `drain` (queue and array), `close` (counters, `closesocket`, the
  in-use mark), `push` (the index).
* A connection stands for its socket; a packet is the number of the message it
  answers, 0 for the login packet, since properties only tell which message and
  whose. A receive completion carries whole messages: completions with part of
  one are what `ProcessEnd` does alone, and `EchoStream` is about the bytes.
* The completion port holds the operations that are done, in no order: the
  threads that take them can be delayed arbitrarily anyway.
* `WSARecv` may use the value of `_sock` the test at :413 saw or a newer one,
  because nothing orders the two reads; at :482 an interlocked operation stands
  between the test and `WSASend`, which therefore reads anew.
* A `DebugBreak` ends the process (`Running`). What a `SOCKET` member holds
  before its first `Clear` is any value (`Garbage`).
* With `Overload = FALSE` clients come only while the index stack has a slot:
  that `Pop` finds a slot is what the run `lan_pop_empty` is about.
* `RefCountExact` lets the packets of a `WSASend` that failed at once leak
  (`sendFailed`): the code forgets them.

### EchoService: what all three promise

`EchoService` knows connections, the messages that arrived on each and the packets
its client received. A connection is new, served or gone; packets go out in order,
each once and none before the message it answers; a connection ends only when there
is a reason. Each server is shown to implement it (`ServesEchoes == Service!Spec` in
`lan_live`, `ring` and `lock`) with a mapping that only reads the
state of the connections and what arrived and was echoed:

| server | `MaxServed` | first packet | a reason to end |
| --- | --- | --- | --- |
| third | the slots | login packet (0) | the client left, or `Stop` closed the listening socket |
| second | the slots | login packet (0) | the client left |
| first | no limit | first echo (1) | the client left |

That the second and third serve no more than `MaxServed` rests on the guard that
lets clients come only while a slot is free. `Disconnect`, which may
hit the session of another client (`CLanServer.cpp:139`), is no part of the promise
and is left out of `lan_live`; it is in `lan_safety`.

### Containers

The pool, the stack and the queue are modelled access by access, in the release
build; `malloc` never fails. A pointer is a pair of tag and block; `TagMod` stands
for the 2^17 tags of the code. Calls are bounded so that no tag comes twice: that
a thread is not delayed for exactly a multiple of 2^17 frees between its read and
its exchange is an assumption, not a result. The pool has no run of its own: `stack`
and `queue` execute its code inside theirs, and `NodesConserved` counts the blocks of
both lists, of the threads and of the heap.

The queue is run with one producer and one consumer, with recycled nodes and
without any use of the tags (`TagMod` 1), which is how sessions use it: only the
thread that serves the receive puts (`RecvExclusive`), only the owner of the flag
or the releasing thread takes (`SendExclusive`, `SlotLife`). The variable `putters`,
chosen at the start, gives either one producer and the consumer or two producers
without a consumer. With two producers *and* a consumer that recycles nodes, the
untagged exchange of `_next` makes the queue lose items; so `SendPacket` must not be
called for one session by several threads at a time. No code here does.

`PtrRing` assumes that stores become visible in program order (x86, and a compiler
that keeps `memcpy` before the assignment to `_rear`).

### RingServer and LockedServer

`RingServer` has the same steps for the second server; the slot is found by
scanning for a flag, and a packet stays in the ring until the send completes.
Its window (`Window`: messages a client is ahead of its echoes) matters: a ring of
250 pointers is enough for windows of up to 125, for the echoes of one window may
still lie there when the next is queued. One pointer less and `NoDebugBreak`
fails. Clients come only while a slot is free.

`LockedServer` has the session map and the critical sections with owner and depth
(they are recursive). What keeps `Release` (map lock, then session lock) from
meeting a worker (session lock, then map lock) is that the count is 0 by then.
The model stops where the main thread leaves a critical section it never entered.
A session whose first receive fails at once is never released (`firstFailed`); the
comment at `src/Iocp_Echo_LockFree/NetLib.cpp:56` shows that the second server was
changed for this.

### LogManager

One action per access that another thread can observe: reading the clock, comparing
and storing `_month`, making and marking the file, the critical section, one turn of
the formatting loop, opening, writing and closing the file. `stack[t]` holds the calls a
thread is in, since `ResizeBuffer` logs a line of its own under the tag whose line is
being formatted. Files are opened without sharing, so one thread's `CreateFile` fails
while another has the file open. What the model shows of the code's limits:

* A line is lost while another thread makes the file of the month: `_month` is stored
  (`CLogManager.cpp:74`) before the file is there.
* A new month has no folder until somebody calls `SetDirectory`, and lines are lost
  until then; once `_month` is stored, a later `SetDirectory` does not help, for
  nobody makes the file any more.
* The same happens where `SetDirectory` points `_dir` somewhere else: a tag that has
  made its file of the month in the old directory finds none in the new one.
* A line whose own `SetMonth` reads the clock in a later month than the line did makes the
  file of that month, and is lost where its own is not there.
* `_month` is `wMonth`, without the year: the same month a year later is taken for
  this one (`YearLen`, which the run does not reach).

`LossHasCause` says that in the first year these are all the causes there are, each as a fact
about the disk or another thread: somebody else is making the file, the clock was read in
a later month, the folder was missing when the file was to be made (`refused`), or the file
is in another directory (`made`). Every one of the four is needed: without it the run finds
a line that was lost for that reason.

`SetDirectory(d)` stores `_dir` and may make the folder of the present month in it or not,
which covers its two early returns (a name that is too long is cut, and `_dir` holds the
beginning of it) and a `CreateDirectory` that fails. It is one step, for one caller at a time, as its
comment (`:26`) asks, and a line sees `_dir` before it or after it. A name half copied, which a line
logged meanwhile could see, is left out; a month that passes inside the call is the same as
two calls, the first of which makes no folder. `ResizeBuffer` always gets
its memory: the overflow test (`:274`) and a `new` that fails are left out.

### Packet

A creator writes, reads, sends and releases a packet as `OnAccept` and
`ProcessRecvMessage` do, while the threads of the sessions send it. As nothing in
the repository catches an exception, a throw ends the process.

`sender[s]` is the place where session `s` has the packet. From the queue it goes into
`_pSendPacketArr`, and from there it is released by the send's completion. A connection that breaks leaves
three other ways: `WSASend` fails at once, the flag is given back and the packet stays in the array
(`SendFails`, `CLanServer.cpp:488`-`:500`), where the next send puts another one over it
(`Overwritten`); the send completes with no byte, which releases nothing (`SendAborts`, `:250`);
the session is released and drops what is in queue and array (`Drain`, `:510`-`:526`). A packet that was
overwritten is never released: `Deleted` says that this is the only way to lose one. That a session
whose connection broke is released in the end is what `SessionsEnd` of `lan_live` is about; that another packet follows one
whose send failed, nobody promises, and `Overwritten` is not fair.

## 3. The runs

| run | question | size and bounds |
| --- | --- | --- |
| `lan_safety` | counting, slots, exclusion, order and leaks in the third server, two clients after each other in one slot, `Disconnect` at any moment | 2 workers, 1 slot, 2 messages each, sends of one packet |
| `lan_live` | it serves echoes as promised, sessions end, messages are echoed, `Stop` returns | fair; 2 workers, 1 client, 1 message, sends of two packets, `Stop` at any moment |
| `stack` | linearizable, nodes conserved, in stack and pool | 2 threads, 3 nodes, 4 pushes |
| `queue` | the same, and the counter and the lagging tail | 4 nodes, 2 items queued; calls without end |
| `echo_stream` | bytes come back as they went, all of them | fair for `AllEchoed`; rings of 12 bytes, 14 messages of 4 bytes, 3 ahead |
| `ptr_ring` | two threads on a pointer ring | 15 bytes, pointers of 4: every offset occurs |
| `packet` | contents, references, deletion of a packet | fair for `Deleted`; 5 bytes, types of 1, 2, 4 bytes, two sessions, both may break |
| `ring` | the second server, and that it serves echoes as promised | 2 workers, 2 clients, 2 slots, 1 message each, ring of 2 |
| `lock` | the first server, and that it serves echoes as promised | 2 workers, 2 clients, 2 messages each, the quit key |
| `log` | whole lines in order, room in the buffer, lost lines, locks given back | fair for `CallsReturn`; 2 threads, 1 tag, 2 calls besides those of `ResizeBuffer`, 2 months, 2 directories, 2 calls of `SetDirectory` or `SetLogLevel`, a buffer that doubles twice |
| `lan_pop_empty` | a violation, see below | 1 worker, 2 clients, 1 slot |
| `ring_orphan` | a violation, see below | 1 client, 2 messages, ring of 5 |

Why these bounds are enough to meet the cases: a second client in the only slot
meets everything the first left behind; two workers are the most that can hold
one session's two completions, and the accept thread is the third; the login packet
is queued or in flight when the first message comes, and with a second message and sends
of one packet the queue is longer than a send: the last chance to orphan a packet
in `SendPost` (`clear1`) needs three packets. `lan_live` has sends of two, so that
a send can gather several packets. Two slots and two clients in `ring`
let the search for a slot pass the release of another. The rings of bytes are so
short that every position wraps, and the ring's length and the message's have no
common divisor; with 14 messages one starts at every byte. A line and a dump in `log` make
the buffer grow in one call and find it large enough in the next; two calls of
`SetDirectory` can leave a directory and come back to it. TLC explores all
behaviours within the bounds, none is cut off by a state constraint. Symmetry (workers,
clients, blocks) is used where only safety is checked; `Linearizable` and
`ServesEchoes` (in `ring` and `lock`) are safety properties, and their refinement
mappings treat all threads, clients and blocks alike.

`CHECK_DEADLOCK FALSE` stands where the modelled program stops: bounded calls or
messages are used up, the server has been stopped, or a `DebugBreak` or a throw
has ended it.

**Fairness** is assumed in `lan_live`, `echo_stream`, `packet` and `log` only. Weak fairness
for every worker, for the accept thread and for the main thread: they are threads of
the operating system, none has a priority. `accept` itself is left out, as are the
clients: nobody must come, write or leave. An operation of the kernel completes once the
connection lets it (bytes to receive, or the connection ended): weak fairness
per session. In `Packet` the creator releases in the end, the sessions send what
is queued, sends end, and a session whose connection broke is released, as long as no exception stops them. In
`LogManager` the threads that are in a call go on; nobody has to call, set anything or
make a directory, and time need not pass.

`SessionsEnd` and `EchoServed` end where `Stop` is called: it sends the workers home
whether or not the sessions have ended. `AllEchoed` says that the client has received
everything it sent, again and again, whatever it sends in between. In `ring` and `lock`,
`SlotLife` and `SessionLife` take the place of a liveness property: as long as a session
exists somebody holds a reference or is ending it, and the one who drops the last
is the only one left.

### Runs that find a violation

| run | what it shows |
| --- | --- |
| `lan_pop_empty` | `Release` closes the socket before it pushes the index: the client that takes the freed place meets the `DebugBreak` of an empty stack (`CLockFreeStack.h:69`) |
| `ring_orphan` | the second server's `SendPost` has the comment that explains how to avoid an orphaned send, and the loop that does it is commented out: a packet stays queued with nobody to send it |

Other defects the models contain, each a state they can reach, with no run of its own:

* `Disconnect` may end the session of another client that got the slot meanwhile (`CLanServer.cpp:139`).
* `Stop` and `Disconnect` set `_sock` to `INVALID_SOCKET` between a worker's completion
  and its next post, which is a `DebugBreak` (`CLanServer.cpp:413`, `:482`; `breakSock`).
* A worker of the first server enters `pSession->_cs` before it tests for the
  null packet of the quit key (`NetLib.cpp:72`; `breakNull`).
* Its iterator is used for the session after the map lock is left (`NetLib.cpp:250`); the model
  has the session that was found.
* The first server never releases a session whose first receive fails at once (`firstFailed`).
* `operator << (char)` throws on a packet without unread bytes, however much room there is
  (`SerializingBuffer.h:85`), and `MoveWritePos` on a packet that is exactly full (`:55`):
  a message of 1398 bytes ends the process, as nothing catches the exception.

## 4. What is proved

All theorems are for any number of workers, slots, connections and messages, or whatever
the module's constants are. They assume what the module does of its constants
(`ConstantsAssumption`, `PacketAssumption`, `QueueAssumption`, `SizesAssumption`, ...); what a theorem assumes
besides is in the last column, and its statement has it in the open.

| module | theorem | property of a run | assumes |
| --- | --- | --- | --- |
| `LanServerProofs` | `TypeCorrect`, `IOCounting`, `SlotsAreSafe`, `OneReceiver`, `OneSender` | `TypeOK`, `IOCountExact`, `SlotLife`, `RecvExclusive`, `SendExclusive` | |
| | `FailureKeepsReference` | (`FailNotLast`) | |
| | `NothingOrphaned` | `NoOrphanedSend` | |
| | `EchoesInOrder`, `ReferencesExact` | `EchoInOrder`, `RefCountExact` | |
| | `NoBreak` | `NoDebugBreak` (but for `breakSock`) | `~Overload` |
| | `Serves` | `ServesEchoes` | `~Overload`, no `Disconnect` |
| `RingServerProofs` | `TypeCorrect`, `OneSender` | (`TypeOK`), `SendExclusive` | |
| | `SlotsWhileRunning` | (`SlotLife` of a running server) | |
| | `SlotsAreSafe`, `NoBreak`, `Serves` | `SlotLife`, `NoDebugBreak`, `ServesEchoes` | `Capacity` |
| `LockedServerProofs` | `SessionsLive`, `LocksInOrder`, `EchoesLeave` | `SessionLife`, `NoLockCycle`, `EchoesGoOut` | |
| | `Serves` | `ServesEchoes` | `IsFiniteSet(Conns)` |
| `LockFreeStackProofs` | `Conserved`, `LinearizableStack` | `NodesConserved`, `Linearizable` | `MaxPush <= TagMod` |
| `LockFreeQueueProofs` | `Conserved`, `CountedLinked`, `LinearizableQueue` | `NodesConserved`, `CountedIsLinked`, `Linearizable` | `IsFiniteSet(Procs)` |
| `BufferProofs` | `EchoesInOrder`, `LentUnused` | `EchoInOrder`, `LentIsUnused` | |
| | `Gathered`, `LinearizableRing` | `GatheredAreQueued`, `Linearizable` | |
| | `Promise` | | `ServiceConstants` |
| `PacketProofs` | `ReadsWhatWasWritten`, `WholeIsSent`, `NotDeletedEarly` | `ReadBack`, `SentWhole`, `AliveWhileUsed` | |
| `LogManagerProofs` | `LinesAreInOrder`, `LinesFit`, `LossesHaveCause` | `LinesInOrder`, `LineFits`, `LossHasCause` | |

What the assumptions mean. `Overload` is the constant of `LanServer` that lets a client come
while no index is on the stack: with it the server does reach a `DebugBreak` (run
`lan_pop_empty`). `"Disconnect" \notin MainCalls`: `EchoService` drops a connection only when
its client ends it or the server is stopped, and a `Disconnect` is neither; nothing in the
repository calls it. `Capacity` is `RingMax >= 2 * Window`: the ring has room for the echoes
of two windows, as 250 pointers are for clients that are up to 125 messages ahead; one less
and `NoDebugBreak` fails. `IsFiniteSet(Conns)` gives `EchoService` a number of served clients to
compare with its limit, which for the first server is the number of connections itself.
`MaxPush <= TagMod` (and that `MaxPush` is a number) says that no tag of the stack comes twice:
`MaxPush` bounds the calls of `Push`, and each call takes one tag of the stack and brings at most
one block, with one tag, back to the pool. With more calls than tags a thread could be delayed
until the top it has read is back with the same tag, and neither theorem would be true. A server that
hands out an index more than 2^17 times is beyond this theorem; that no `Pop` or `Push` is delayed for
so long is left to the scheduler. The queue needs no such bound, for one thread takes.
`IsFiniteSet(Procs)` gives the numbers of threads between `_size` and the links a value.

`FailureKeepsReference` is no property of a run: it follows from `IOCountExact` at the step it
speaks of, and the theorem says so.

`Promise`: whatever implements `EchoService`, for any finite set of connections and any limit,
its clients receive packets `First`, `First + 1`, ... without a gap or a double and none early,
no more than the limit are served, and none is dropped without a reason. By the three theorems
`Serves` each of the servers is such an implementation, under the assumptions of that
theorem. `ServiceConstants` says of the constants what the servers choose; the invariant `ServiceInv`
adds the types; `MorePackets` is what appending the next packets does to a sequence.

**The argument of `LanServerProofs`.** `IInv` is the conjunction of `TypeOK`, `CurOK`, `ConnOK`,
`SendSizeOK`, `IOCountExact`, `SlotLife`, `RecvExclusive` and `SendExclusive`, and
`Invariance` shows that it is inductive. No part is inductive alone: that
a decrement which reaches 0 leaves nobody behind (`SlotLife`) needs the count to be
exact; that a count stays exact needs at most one receive and one send to be
posted (the exclusions), since a second `WSARecv` on the same `_recvOvl` would
hide a reference; and the exclusions need a slot not to be set up again under a
thread that still works on it, which is `SlotLife`. `CurOK` and `ConnOK` say that a
thread works on a real slot with a real connection, `SendSizeOK` that what is being
sent lies in the array, which the types need.

`NextSplit` cuts `Next` into its actions; there is one lemma per conjunct
(`CountStep`, `SlotStep`, `RecvSideStep`, `SendSideStep`, ...), each with one step
per action that can disturb it. Frames (`HolderFrame`, `OutsideFrame`) say what a
step of thread `t` does to the sets of threads that refer to a session, and
`AddThread`, `RemoveThread` turn that into arithmetic on cardinalities.

In the second half of the module, `Control` adds to `IInv` what a thread is about by
where it is (`WorkOK`), when a slot is marked as being set up or torn down (`MarkOK`), which
connection a slot works for (`OwnerOK`) and `Sends`: a packet that waits on a working session
has somebody who owns `_sendFlag`, or is about to try for it, and will test the size again
afterwards. The delicate steps are those of `SendPost` between giving the flag back and the
second test (`CLanServer.cpp:449`-`:464`). `SamePlaces` says when a step changes nothing this depends on.

**Its packets.** The key of the last part is to number them. `AllNumbered`: for
every busy slot there is an `n`, the number of packets queued so far, such that `_sendBuf` holds
the last of them, `_pSendPacketArr` those before, and the client has received the rest (`Run`),
and such that `n` and the messages still in hand make up what has arrived (`Counts`).
`EchoInOrder` follows, and so does the refinement: what a completion adds to `echoed` is the next
of the run. `CountsOK` is about `_sendCount`, which is not zero where it ought to be after a
`WSASend` failed at once. `RefsOK` counts the places a packet is referred to from; it needs
the run, for a packet is in it once. After a `WSASend` that failed at once (`sendFailed`) the count is only
known to be no less than these places, for the code has lost some. `BreaksOK` and `StaysOK` (nobody ends a session whose
client is there) are the two invariants that need their assumption.

**The argument of `RingServerProofs`.** The same parts as in the third
server, but a `DebugBreak` ends the process in the middle of a step, with counts raised
and flags taken. So `IInv` is `Types /\ SendExclusive /\ (Running => Control)`, and `Control`
(`CurOK`, `IOCountExact`, `LifeOK`, `OwnOK`, `RecvOK`, `SendOK`, `AloneOK`) is what the threads keep while
the server runs. The second half of the module shows that it does run on: packets stay in the ring until
their completion, so that `Room` (what is in the ring and what will still be put there fit)
must be carried through every step with the run of the numbered packets; `WindowOK` bounds what a
client is ahead by. `LentOK` and `SizeOK` say that what Winsock has been lent is the front of the
ring and as much of it as `_sendCount`. After a send that failed on a reset connection
`_sendCount` counts packets twice (`Unbroken`), and nothing more is claimed of it.

**The argument of `LockedServerProofs`.** `LockOK` says where a thread owns `_cs`, how often it has
entered it, and where it owns the map's lock; `CountOK` is the exact count; `RecvOK`, `SendOK` and
`AloneOK` are the exclusions; `LiveOK` says that a session which is referred to is in the map and not
deleted, `WaitOK` that a flag which is up, or a packet in `_sendBuf`, has a reason (a send that is
out, a thread that will send); `DataOK` are the numbered packets again. That the two lock orders
never meet rests on the count: who waits for a session's lock in `Release` has seen it reach 0,
so that nobody else refers to the session.

**The argument of `PacketProofs`.** `Counted`: the count is the number of sessions that hold the
packet, and one for its creator while it builds. The set of holders loses a session at every
`Release`, so who takes the last reference is alone (`LastAlone`), and nobody queues the packet
once its creator is done. `Content` says that the buffer up to `rear` is what was written and
that what was read is its first `front` bytes; a write at the end leaves both as they are
because `front <= rear`. The creator only writes before it queues, so what was posted is whole (`Sent`).
A holder is whoever has the packet in a queue or an array, also where the send failed, was aborted or the packet was
overwritten: those references are not given back, and nothing is deleted under them.

**The argument of `LogManagerProofs`.** `StackOK`: of the calls of a thread all but the innermost are in
their loop, and about the same tag. `LockOK`: a thread owns a tag's section if and only if one of
its calls is inside, and `depth` is the number of those calls; `PendingOwns` is what follows, that
two lines of one tag are never under way. `FileOK`: who has which file open, and that an empty
file is about to get its mark. With these, `LinesOK` is inductive: a line that is to be
written has a number higher than all in the file, was not given up, and is in no other buffer.
`FitOK` needs that the loop is left only where `Fits` held, and that buffers only grow. `MonthOK` is about
the first year, where a number of `_month` means one month: the file of a tag's `_month` is cared
for (`Cared`: it was made in some directory, or found no folder, or a thread is about to make it), and so is the file of
a line that has its month behind it, unless its own `SetMonth` read the clock later. What is cared for stays so
(`CareKept`), and with `LockOK` and `FileOK` no other reason is left for a `CreateFile` that fails. After a
year the theorem, like the property, is silent.

**The argument of `LockFreeStackProofs`.** The invariant names what the memory only implies: there are
two paths of links, `p` through the pool and `q` through the stack, written as functions on `0 .. n` from
`Null` up to the top (`Chain`), and two numbers `c` and `d`, how many tags each has given out (`Good`). `Owned`: each
block is fresh, on one of the paths or held by one thread. `StackLinks`, `PoolLinks`: a thread that has
read a top and the link behind it, and whose exchange would succeed now, has read the place of the path
that is the top, and the link below it. Tags are what this rests on: a top that was popped
and pushed again carries another one (`Tags`, `Counts`). `NodesConserved` walks along the links with a recursive function, which
is compared with the path at the least place where they would differ (`WalkIsDown`, by the least element of a set of
naturals: `LeastNat`); the abstract stack is the data along `q` (`Listed`), and the exchanges of `Push` and `Pop` are its puts and gets.

**The argument of `LockFreeQueueProofs`.** The pool is as above. The queue is a window `a .. b` of a path
`q` that only ever grows at `b` and shrinks at `a`; `q[a]` is the dummy and `q[k]` the node the tail points to, with `k`
the end of the window or the place before it (`Ends`). `Sizes` relates `b - a` to `_size` and the numbers of threads that have linked and not yet counted,
or counted and not yet taken, from which `CountedIsLinked` follows. `Enqueues` and `Dequeues` are what the
locals of the putters and of the taker say of the window. `Roles`: either one puts, or several do and the pool's
list stays empty (`m = 0`), so that no address comes back.

**The argument of `BufferProofs`.** First the ring: `At(pos, j)` is the `j`-th position after `pos` and
`Row(pos, n)` the first `n`; `RecvRow`, `SendRow`, `EnqueuedRow`, `Peeked` and `DequeuedRow` say that the regions lent to
Winsock and the `memcpy`s in two parts are rows, `RearMoves` and `FrontMoves` what moving an end does to `GetUseSize`, and `UnusedRow`
that the row behind the rear is what the reference definition calls unused. The invariant
(`Good`): the bytes received, those in the send ring, those in the receive ring and those on their way to the server are the stream, cut at
`Echoed` and two other places (`Amounts`, `Bytes`); and there is a set `starts` of places where a message begins, which has the end of the stream in it and
`Echoed` (`Heads`). So the header at the front of the receive ring is one, its length is `PayloadSize`, and a message
is handled only when all of it is there. That it fits into the send ring is the client's window, `Window * MessageSize < Capacity`.

The ring of pointers uses the same rows. `Off(i)` is where the pointer after `i` others begins; the few facts
about this multiplication that are needed (`OffGrows`, `OffAdds`, `OffDivides`, `LastBefore`) are proved once and
the definition is not expanded after that. The invariant (`RingGood`) names the queued packets, `q`: the bytes between the
ends are their pointers (`Queued`); the bytes of the one that is being enqueued are still free, or already there
(`Putting`), whatever the consumer does meanwhile; the consumer's copy of the rear ends behind a pointer
(`Gathering`), however many have been enqueued since; what was gathered are the first pointers of `q` (`Sending`).
`GatheredWrapped` is the case analysis of `SetSendWsabufs` where the used part wraps: the pointers up to the end, the one
put together from between 1 and all of its bytes there and the rest at the start, and those behind it, are as many
as the size says and in order. `RingRefines` then has one abstract step for each store of an end.

## 5. What is only model-checked

* The liveness properties (`SessionsEnd`, `EchoServed`, `StopReturns`, `AllEchoed`, `Deleted`,
  `CallsReturn`): out of the proof system's reach, like `ENABLED`.
* The two violations, each in the instance of its run.

## 6. Assumptions and limits

* Clients follow the echo protocol: the lengths they send fit a packet and the ring.
* The three servers use stack, queue and rings through their abstract contents;
  the container modules show that the code behaves like that when it is
  called as the servers call it.
* Session IDs carry the slot in 16 bits and a counter in 48; the code looks at
  the slot only, and the models do the same. Wrap-around of the counter is left out.
* `accept`, `WSARecv` and `WSASend` fail with the errors the code expects only: the `DebugBreak`s
  of the others (`CLanServer.cpp:178`, `:424`, `:496`), the test of an empty receive ring (`:408`, which
  `EchoStream` is about) and the test of `_sock` in `Session::Clear` (`Session.h:89`), right after it was
  stored, are not in `LanServer`. The `accept` of the first server does not fail.
* A slot's `_sendFlag`, a plain `long`, is only accessed by interlocked operations
  and by `Clear`.
* The end of the process (threads still running while Winsock is shut down), and
  the set-up of sockets, threads and the port are left out.

## 7. Plan

The order was: the third server with its proofs, since it is the current one; the
containers it rests on; the bytes; the older servers; packets.

1. *Done*: all of the modules above, the runs above, the theorems of section 4.
2. *Done*: the abstract service and the refinements of the three servers, `CLogManager`.
3. *Done*: every safety property of the three servers, of `CPacket` and of `CLogManager` that a
   run checks, proved, and that each server implements `EchoService`.
4. *Done*: the stack, the queue and the rings, of bytes and of pointers, proved for every number of nodes and
   threads, every capacity and every size of a message or a pointer. With them every invariant and
   every refinement that a passing run checks is a theorem, under the conditions of section 4.
5. *Compose*: `LanServer` with `LinearSequence` for its queues, so that the order of
   `_size` and of the links is part of the server's runs; `EchoStream` with a session that
   breaks in the middle.
