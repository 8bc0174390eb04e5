# FISHY: a TLA+ model of its concurrent and stateful core

FISHY is a C++ game and tool framework: a portable CORE library (logging,
flags, statistics, networking, a virtual file system, parsers, serialization),
operating-system wrappers (windows, input), a few build tools (protoc, bin2h,
bmfontutil, prototool) and two stub applications. This directory models the
parts of it whose correctness depends on the order of events, and the algorithms
that unit tests can only sample, checks the models with TLC on small instances,
and proves with TLAPS, for every value of the constants, the safety properties of
the message queue, the logger, the server, the state machine, the virtual file
system, memory files, paths, input, the counters, the parser, the scan of
patterns and the numbers of the serializer.

## 1. Inventory

Per component: its state; its operations; who it interacts with; what is hard
about it; what makes it correct. File names are relative to the repository.

### Threads, queues, logging

* **ConcurrentQueue** (`CORE/TYPES/concurrent_queue.*`). State: `m_queue`,
  `m_open`, one mutex, `m_consumerCV`, and `m_producerCV`, which `waitEmpty`
  shares with the producers. Operations: `push`, `pushN`, `pop`, `popN`,
  `waitEmpty`, `close`. Hard: `notify_one`, producers woken only by the pop that
  drains, waits in the middle of `pushN`, `close` in any place. Correct when it
  is a bounded FIFO channel, no wakeup is lost, and whoever can go on goes on.
* **Logging** (`CORE/BASE/logging.*`). State: a ConcurrentQueue of messages,
  `m_sinks` under a mutex, the logger thread. Operations: `write` (any thread),
  `registerSink`, `flush`, the destructor. Hard: `m_sinks` changes during the
  write loop, `flush` and the destructor wait for an empty queue and not for an
  idle logger, nothing is popped before a sink is registered. Correct when each
  sink sees the stream of messages without a gap and the process ends with
  everything written.
* **Application main** (`APP_SHARED`): parses flags, registers sinks, runs the
  application, returns; static destruction ends the logger.
* **AppStats** (`CORE/BASE/appstats.*`): a fixed table of named counters filled
  under a mutex; counters changed by compare-exchange loops. Correct when no
  increment is lost and a name has one slot.

### Networking

* **NetServer** (`CORE/NET/net_server.*`). State: the listening socket, the
  connection table (`m_connections`), an index by host name and one by socket,
  the next id. Operations: `start`, `stop`, `send`, and `update`, which accepts
  one connection, reads once from every connection and drops what is closed or
  silent for too long; calls the application's handler. Hard: three maps kept in
  step, handles reused by the system, a close asked for by several parties in
  one update, restarts, UDP, where the socket is shared. Correct when the maps
  agree, data carries its sender's id, each end is reported once, no handle
  leaks, dead clients go.
* **NetClient** (`CORE/NET/net_client.*`): one socket; `start`, `update`,
  `send`, `stop`.
* **net_common**, **protobuf_service** (disabled by `#if 0`), **mocks**.

### Virtual file system

* **Mount table** (`CORE/VFS/vfs_internal.*`): mounts in order, file systems,
  one non-recursive mutex; `mount`, `unmount`, `open`, `stat`, `MkDir`, `RmDir`,
  `Remove`, `Copy`, the temporary folder, a directory iterator. Hard: calls that
  take the mutex twice, the iterator that does not take it, the order of lookup,
  `unmount` refused by a file system. Correct when every call returns, and a
  lookup reaches the latest mount that knows the path.
* **MemFileSystem**, **StdioFileSystem** (`CORE/VFS/FILESYSTEMS`): files, and
  handles with a position; the in-memory handle works on a copy of the file's
  size.
* **Files and filters** (`CORE/VFS/vfs_file.*`, `vfs_filter.*`, `FILTERS`):
  stream buffers stacked over a handle, and who closes them.
* **Path** (`CORE/VFS/path.*`): resolve, `isParent`, `stripParent`, `+`.

### State, input, configuration

* **StateMachine** (`CORE/UTIL/state_machine.*`). State: the vector of states,
  the current and the requested id. Operations: `addState`,
  `requestTransition`, `update`, `init`, `term`; callbacks `onEnter`, `onExit`,
  `update` of the states, which may call back. Hard: requests made in the
  middle of a change. Correct when enter and exit are balanced and a request is
  carried out.
* **InputManager** (`WRAPPERS/OS/virtual_input.*`): keys down, pressed and
  released since the last reset, axes. **Controller remapping**
  (`raw_input.shared.cpp`): tables and range arithmetic.
* **Config flags** (`CORE/BASE/config.*`): a registry filled by static
  constructors; parsing sets flags one by one and may fail half-way.

### Algorithms and tools

* **Regex**, **Tokenizer**, **LRParser** (`CORE/UTIL`): NFA construction and
  simulation, longest match, reduction by rules.
* **Serialization** (`CORE/BASE/serializer*`, `CORE/TYPES/protobuf*`,
  `varint_types.h`): sinks with positions and limits; the code that **protoc**
  (`TOOLS/protoc`) prints writes and reads messages with them. Correct when a
  message is read as it was written, by readers of the same or of an older type,
  and a cut is noticed.
* **File formats** (`CORE/UTIL/FILES`), the rest of **protoc**, **bin2h**,
  **bmfontutil**, **prototool**, **image**: sequential converters.
* Leaf code (bitset, blobs, math, crc32, timer, string utilities), platform I/O
  (`window.*`, `raw_input.{win32,linux}.cpp`), vendored code (`EXTERN_LIB`),
  tests and build files.

`PROJECT.json` lists every component with its status, and the hazards of the
code, each at its line, with the properties that are for it.

## 2. Modules

| Module | Models | State and actions |
|---|---|---|
| `BoundedFifo` | what a caller of ConcurrentQueue is promised | `Put`, `Take`, `Close` on histories |
| `ConcurrentQueue` | `concurrent_queue.inl`, lock by lock | one step per critical section; `at[t]` says where a thread is (outside, contending for the mutex, in which condition variable), `call[t]` which operation it is in |
| `ConcurrentQueue_proofs` | - | theorems about `ConcurrentQueue` |
| `StateMachine_proofs` | - | theorems about `StateMachine` |
| `Logging_proofs`, `NetServer_proofs`, `Vfs_proofs`, `Input_proofs` | - | theorems about the modules they are named for |
| `Utilities_proofs` | - | theorems about `MemStream`, `Path`, `PathResolution` and `AppStats` |
| `Parsing_proofs` | - | theorems about `Nfa`, `Reductions`, `LRParser` and `Varint` |
| `Logging` | `logging.cpp` and the part of `app_main.cpp` around it | an INSTANCE of `ConcurrentQueue` for `m_messages`; `logger` and `main` are the program counters of the logger and the main thread |
| `NetServer` | `net_server.cpp`, the system's handles, the clients | `conns`, `hosts`, `socks` are the three maps; `Accept`, one `Read` per socket and `Sweep` are the parts of one `update()` |
| `StateMachine` | `state_machine.cpp` | `states`, `cur`, `next`; what a callback requests is an input of `Update` and `Term` |
| `Path` | `path.cpp` | operators on sequences of names; no state |
| `PathResolution` | the use of `resolve` in `vfs_internal.cpp` | `path`; a name is appended, or the path resolved |
| `Vfs` | `vfs_internal.cpp`, and what `filesys_stdio.cpp`, `filesys_mem.cpp` and `vfs_file.cpp` decide for it | `mounts` is the table, `known` the file systems' own; a call under the mutex is an action, `copy` and `list` are calls in several steps |
| `MemStream` | the handles of `filesys_mem.cpp` | `pos`, `size` per handle, `blob` shared; one action per stream-buffer operation |
| `AppStats` | `appstats.cpp`: the counters | `slots`; a compare-exchange loop is `Call`, `ReadCounter`, `Exchange` |
| `Input` | `virtual_input.cpp`, `raw_input.shared.cpp`, the events of the windows | `bits` are the manager's arrays, one behind the other; an action per event |
| `Nfa` | `regex.cpp`: `addSplit`, `scan` | operators on a machine and a text; no state |
| `Regex` | `regex.cpp`: `build`, on `Nfa` | the passes of `build` as folds; `machine` is a built pattern |
| `Reductions` | `lrparser.inl`: the stack | `stack`; `Push`, `Reduce` (a call of `reduce` that finds a chain), `Decide` |
| `LRParser` | `lrparser.inl`, `tokenizer.inl`, on `Nfa` and `Reductions` | `cur`, `messages`; `ReadToken`, `ReduceStack`, `Finish` |
| `Language` | - | the language of a grammar, which `LRParser` is held against |
| `Varint` | the numbers and the sinks they are read from | operators on bytes and readers; no state |
| `Wire` | the serializer of messages, the code `protoc` prints, on `Varint` | `Serialize` and `Parse` of a message through a buffer of any size |
| `MCUtilities` | - | `PathResolution`, `MemStream`, `AppStats`, `Input`, `Regex`, `Language` (with `LRParser`) and `Wire`, one at a time |
| `MC*` | - | the constants of the runs |

`PROJECT.json` ("map") gives the source lines behind every definition.
Variables and conjuncts called *history* in the modules record what happened
for the sake of a property and influence nothing.

**ConcurrentQueue.** A critical section of the code starts where a thread
acquires the mutex (at the call, or when it comes back from a wait) and ends
where it waits or returns; it is one action. `notify_one` moves an arbitrary
waiter from `waitC` or `waitP` to `ready`; spurious wakeups are an action of
their own, without fairness. An item is a pair of its thread and its number. A
caller is given a set of calls it may make (`Program`), a bound on the items it
asks to push (`MaxItems`), and any thread may close the queue at any time.

**Logging.** Threads log through the steps of the queue's module; the logger's
loop is split where it takes or releases a lock, so registration can fall
between the pop of a message and its write. Main walks from parsing (logging
at most what the queue can take, as no one empties it yet) to running, flushing,
returning, and the three steps of the destructor. Workers log while a sink is
registered and are not joined, as in the repository. Formatting is left out; a
message is its queue item, and its level that of its thread.

**NetServer.** A client is its address and port. `wire[s]` is what the system
has behind a handle: which client, whether it has data, whether the client is
gone. A handle that is closed may come back for the next client. On TCP the
address that `recvfrom` is given to fill in stays uninitialised, so the name the
server makes of it is *any* name or none (`Garbage`). The build modelled is the
Windows one: on Linux `select(1, ...)` never reports a socket other than
descriptor 0. One `update()` is `Accept`, then one `Read` per socket of the list
taken at its beginning, then `Sweep`; clients and time go on in between. The
application starts a server only when it is stopped and calls nothing but
`send` from its handler; `send` changes only counters.

**StateMachine.** A step is a call of the owner. The loop of `changeStates` is
not unrolled: `Found` says which state it ends with, as a function of the
position of the current state, the id requested before `onExit` and the one
requested by it. The ASSERTs of `requestTransition` and `addState` are
obligations of the caller, and so guards; ASSERT(pNext) is one of the machine,
and so a property (`NextFound`).

**Vfs.** The two file systems are fixed, as `VfsDetail` has them: the disk (a set
of files and directories, the state of the operating system) and the memory
files. Every call that holds the table's mutex from beginning to end is one
action; `Copy` is five, one per open and close, and a listing one per step of
its iterator, which takes no mutex. That the iterator then reads a `std::list`
while another thread changes it is a data race; the model lets its steps come
between the table's changes, and so has only the outcomes in which the nodes it
reads are whole. A lookup is stated as the set of all attempts with their ranks,
of which `First` is the one of highest rank that the file system accepts.
`unmount` of what the file system does not know, and `LockTwice` (`MkDir`,
`MountTempFolder`), keep the mutex for ever (`lock`); a listing whose mount is
gone ends the process (`aborted`). Filters are a depth over the stream. Listing a
disk is code of the Windows build only (on Linux it is CHECK_NOT_IMPLEMENTED).

**MemStream.** The bytes of a memory file are the blob of whoever created it,
shared by all handles; each handle has its own copy of the size. `asFile` is what
a handle would read and write if it had the file for itself, and `faithful` says
that nothing has happened since that breaks this: a write by another handle, a
character put with `overflow`, one got beyond the size.

**AppStats.** Registering is one step under the mutex. `increment(amount)` and
`reset` are loops around a read and a compare-exchange; other threads come
between the two. `total` is what each name would count if every operation were
one step, taken where its exchange succeeds.

**Input.** The manager's three arrays of keys are one function of an index, since
code outside it passes keys behind the last (`type_COUNT`, and the loop of
WM_KILLFOCUS). Events come from both builds: key and button events of X11 and raw
keyboards, polling of the keyboard's state, reports of controllers, which occupy
device slots. A sequence of events is a recursive function of its length; where
the code walks a table or a report, whose order is not the model's business, any
order will do (`Orders`). `held` and `heldBefore` are the keys down now and at the
last reset, told from the events alone. An int is known by its largest value,
`IntMax`.

**Nfa and Regex.** `escapePattern`, `expandPattern`, `infixToPostfix` and
`Nfa::build` are folds over the tokens with the code's counters as state; an
error of one pass passes through the others. Fragments keep the set of states
with open exits. `Ends` is the reference: where a match of an expression may
end. `Nfa` holds what runs a machine, whoever built it, and the reference for
that: `MatchEnds`, the places where one thread followed alone ends in a match.

**Reductions, LRParser and Language.** `Reductions` is the loop of `parse` with the
tokens left open: a token is pushed only on a stack that no chain matches. Its
history `derivation` has one form for each reduction; a token pushed goes behind
each of them. `LRParser` takes the tokens from a text: its tokenizer has the first
type that matches at all, and a token of the type `Ignore` is a turn of the loop
without a push. `Language` has the reference, the language of the grammar, apart,
since it is recursive in a way the prover does not take.

**Wire.** The serializer a message type gets is a function of the type, so
`Writes` and `ReadMessage` are the generated code for any type. Bytes are
numbers; characters are bytes. Numbers and what reads them are in `Varint`. A write is marked by whether its result is looked
at. A reader carries the limits of the `RangeSink`s over the buffer and the
error state of the innermost one, which those around it do not hear of.
`Phantoms` is the uninitialised `m_has_` flag of a message's field.

## 3. Runs

| Run | Instance | Shows |
|---|---|---|
| `queue` | 2 producers (one with `push`, `pushN` of 0 and of 3 items and `waitEmpty`), 2 consumers (`pop`, `popN` with room 1 and 2), capacity 2, 3 items per thread | the queue implements `BoundedFifo` (capacity and order included); order per thread, nothing skipped; no lost wakeup; consumers are released by `close`, items are delivered, producers return |
| `queue_close` | 3 threads | violation: `close` leaves producers and `waitEmpty` asleep when no consumer comes by |
| `logging` | main and one worker with different levels, 2 sinks (all levels, errors only), buffer of 2, 2 messages each | sinks see their stream without a gap; the destructor ends, with everything written and flushed; messages wait for the first sink and are then dispatched |
| `logging_flush` | buffer of 1 | violation: `flush` returns before the last message reaches the sinks |
| `logging_exit` | buffer of 1, 1 message each | violation: main returning without a sink never gets out of the destructor |
| `netserver` | 2 clients, 2 handles, a limit of 1 or of 2 connections, timeout 1 tick, 3 dials on TCP, 2 starts, TCP and UDP | indexes agree with the table across restarts, handle reuse and hangups; no handle leaks; one report per end on TCP; the right sender on UDP; a client that has gone is released |
| `netserver_data` | TCP | violation: the handler is given data under another connection's id |
| `netserver_close` | UDP | violation: a closed connection is kept, and closed again at each update |
| `statemachine` | 3 states, requests from outside and from `update` | enter and exit balanced, the requested state always found, moves valid, requests taken |
| `statemachine_enter` | also requests from `onEnter` | violation: a state becomes current without `onEnter` |
| `vfs` | 2 threads with different sets of calls, 3 mounts asked for, 2 handles open at a time, secure paths on and off | table and file systems agree; a mount or unmount moves exactly the lookups it should (`Overlay`); who opens closes, also when `Copy` fails half-way; a listing that ends has seen every mount that stayed; `Copy` ends |
| `utilities` | per component, see below | seven components, each against a definition of what it should do |

The violations are the disagreements between code and comments in
`PROJECT.json` ("findings"), which has others that need no run.

**Why these bounds are enough to matter.** Capacity 2 with a `pushN` of 3 makes
pushes wait in the middle, and be overtaken there; two waiters on either condition variable
give `notify_one` a choice. Three dials on two handles make a handle be reused
with the socket index still naming its former connection; a second start makes
all ids stale; a limit of 1 is reached with a client and a handle to spare, and the
next is refused. Timeout 1 lets a connection
be read from, hung up on and timed out in one update. In Logging two messages
per thread and two sinks let a registration fall at every point of a write loop.
In StateMachine all orders of up to three states in the vector are reached; the
loop's outcome depends only on the relative order of the current and the
requested state, and of a third.
In Vfs three mounts give a lookup two mounts to choose from while a third comes or
goes, and two handles are those of one `Copy`, so that no call of the one thread that
opens files waits for a handle.
Each bound is a named constant: `MaxItems`, `MaxId`, `MaxDials`, `MaxStarts`;
`closes` counts to 2, enough to tell once from more than once, and a
connection's age to one more than the timeout.

**The run `utilities`** checks the components that do not meet in one state
space, the union of theirs (`part` says which one runs):

* patterns: every expression over two letters, an inverted letter and a class up
  to two operators deep, and some deeper, written as patterns, with nine that
  must be refused, on every text of up to 3 characters of three and of 4 of two;
  a text of 3 is long enough for a run of matches, a gap, and a match after it;
* grammars: that of the repository's tests, a left-recursive list, and sums, whose
  last rule has a chain of one node, on every text of up to 5 characters, with text
  no token matches; the last makes two reductions follow one token;
* counters: two threads, two names, two slots, 2 operations each, 2 bits, so that
  counters wrap around and are reset to the value another thread has read;
* input: two devices of three keys, two controllers for the one slot, an int with
  `IntMax` = 7 (4 bits); the manager's state is finite, so that frames of any length are reached;
* memory files: two handles on three bytes; finite too;
* messages: repeated numbers, negative numbers, strings, a message in a message,
  fixed numbers of two sizes, absent and present, written to buffers of every
  size from 0 to more than is needed (`MaxCapacity`), read by the same type and by
  two older ones. A varint's byte counts to 8 instead of 128, so that lengths and
  tags of two bytes occur in messages of 30; fixed numbers are of 1 and 2 bytes;
* paths: every mix of two names, `.` and `..` up to `MaxDepth` = 5.

What the properties leave out, because the code does not keep it, they name:
`ReadsWhatWasWritten` says nothing of a string cut short, of a message cut inside
another, or of strings and messages the reader does not know; `BlockIOIsAFile`
nothing of a handle after a character was put; `InputFollowsDevices` nothing of
the edges of the frame in which the focus is lost. Each is a finding.

**Fairness.** A thread that is not blocked in a condition variable eventually
gets the mutex and runs (`WF` on `Step`, `LoggerStep`, `MainStep`, `InQueue`):
that is the operating system's scheduling; `std::mutex` is not formally fair, and
weak fairness is enough here because a thread contending for the mutex stays
enabled. In the runs that need it consumers pop in a loop for as long as the
queue is open (`ServedSpec`), as `LogManager::logFn` does. Nothing forces anyone
to log, push, close, register or return. `NetServer` assumes that the application keeps
calling `update()` while the server runs (its part of the contract), and that
time passes; `Vfs` that a thread in the middle of `Copy` goes on whenever it can
have the mutex (`CopyReturns` excepts the states in which nobody ever can);
`StateMachine` that the owner calls `update()` "once per frame"
(`state_machine.h:94`).

`CHECK_DEADLOCK FALSE` is used where the system may really stop: a process that
has ended, a server that is stopped for good and has no dials left, a state
machine that was shut down, a virtual file system whose mutex is held by a thread
that waits for itself, a utility that has given its answer. A `logging_exit` process that hangs is caught by its
liveness property.

## 4. Proofs

`ConcurrentQueue_proofs` proves, for any finite set of threads, any programs and
any capacity of at least 1:

* `TypeCorrect`, `CapacityHolds`: by `Shape` = `TypeOK /\ Capacity`, which is
  inductive. `Capacity` is needed in the type's proof because the number of
  items `pushN` moves in one critical section is the room that is left.
* `FifoHolds`: `FirstInFirstOut` relative to `Shape`; the lemma `ContentsEffect`
  reduces every action to "nothing, some items in at the back, some out at the
  front".
* `CallOrderHolds`, `NoneSkippedHolds`: these need `Numbered` (no item in `sent`
  has a number its thread has not reached yet) as strengthening; `Order` is the
  conjunction, and `PushedEffect` the summary of the actions.
* `NoLostWakeupHolds`, `DrainedWakesProducersHolds`,
  `ClosedWakesConsumersHolds`: `NoLostWakeup` compares the number of items with
  the number of awake consumers and is inductive only together with
  `PopNHasRoom` (a `popN` in progress has room for an item). This holds under
  the assumption `RoomToPop`, that no caller passes an empty range; without it
  `popN` swallows a notification and leaves the item. The lemma `SleepersStep`
  covers the steps that change no contents.
* `Refinement`: `Spec => ImplementsChannel`, every step being a `Put`, a `Take`,
  a `Close` or a stutter of `BoundedFifo`.

`StateMachine_proofs` proves, for any states and any valid transitions, that
`TypeOK`, `EnteredIsCurrent`, `NextFound` and `MovesAreValid` hold
(`TypeCorrect`, `EnteredIsCurrentHolds`, `NextFoundHolds`,
`MovesAreValidHolds`), under the assumption `QuietChanges` that `onEnter` and
`onExit` request nothing: without it two of them are false (run
`statemachine_enter`, and the finding on `onExit`). The inductive invariant is
`Balanced`, which adds `Pending`: while the machine is in use the requested
state is one of the machine and a valid move from the current one. It is needed
because a request is checked in one step and carried out in another. The lemma
`FoundIsNext` is about the loop of `changeStates`: wherever the requested state
stands in the vector, it is the one the loop ends with.

`NetServer_proofs` proves, for any clients, handles, modes, limits, timeout and
bounds, all the safety properties that the run `netserver` checks: `TypeCorrect`,
`HostsKnownHolds`, `SocketsKnownHolds`, `NoHandleLeakHolds`,
`CloseBalancedHolds`, `DatagramFromSenderHolds`. They are one inductive invariant,
`ServerInv`, since none is inductive without the others. What it adds to them:

* `Recorded`: a record of the table stands under its own id, names the client the
  connection was opened for (the history `opened`), and has a socket of the right
  kind. Without it nothing ties the table to what the handler was told.
* `Settled`: between two updates nothing closed is in the table. `Accept` may then
  reuse any handle that is free, and `stop` finds only connections to close.
* `OneSocket`, for UDP: no handle but the server's is used, and its entry in the
  socket index is a connection's.
* `IdsSuffice`: it counts the ids. With it the bound `MaxId` is enough for the
  connections that `MaxDials` and `MaxStarts` allow, so that no guard of the model
  on `MaxId` ever refuses one; the type of `nextId` rests on it.

The lemmas about `Ends` are what `Tick`, `Handle` and `Sweep` share: each ends a set
of connections, and differs in which.

`Logging_proofs` proves `TypeCorrect`, `SinkSeesStreamHolds` and
`ExitWritesAllHolds` for any threads, sinks, levels and capacity. The queue is not
looked into again: `QueueAssumptions` shows that the program of the log manager
satisfies what `ConcurrentQueue` assumes, `MessagesAreQueue` that the instance in
`Logging` and that of the queue's theorems are the same, and its FIFO invariant
(`Contents`) is then a conjunct of `LogInv`. The others: `InHand`
(what the logger holds is the last item taken), `Stream` (no sink was registered
ahead of what is dispatched, and one that is not registered has nothing), and
`Closing`, which follows the destructor: the queue is closed by it alone, after it
was found empty, and the sinks before `nextFlush` are flushed. What is due to a
sink (`Due`) is a recursive function of the stream; the lemmas about it go by a
least prefix at which they would fail. `NobodyOversleepsHolds` carries the queue's
theorems about wakeups over: nobody calls `popN`, so that their hypothesis
`RoomToPop` holds here, and the logger is the only consumer. An open queue with
messages never finds it asleep, `flush` and the writers do not sleep on when the
queue is empty, and `close` has woken the logger that the destructor joins.

`Vfs_proofs` proves `TypeCorrect`, `MountsKnownHolds`, `HandlesOwnedHolds` and
`IteratorCoversHolds`, and the action property `OverlayHolds`, for any threads,
programs, mounts and bounds, and without opening what `Resolve`, `Join` and their
like make of a path. `VfsInv` adds `Owned`, which is `HandlesOwned` also for
threads within a `Copy`, with no handle of two threads; `Streams` (a thread has an
open file or a `Copy`, not both); and `Covering`: of the mounts that stayed, a
listing has visited those from the newest down to the one where it stands, for
listings that are not at their end, too. `Overlay` follows from the order of the
table: the ids of the mounts grow along it.

`Utilities_proofs` proves

* `BlockIOIsAFileHolds`, for any blob, blocks and number of handles. `MemInv` adds
  that a handle that has not been disturbed has its file in the blob
  (`AreFiles`).
* `ResolveIsDestination`: for every path of names, `.` and `..`, of any length,
  `resolve` gives the directory to which the names lead from the left, and no path
  when they leave the root. The loop goes from the right, so the lemma `Meet` says
  what a place in the middle knows: walking what is left of it, then applying
  what the loop has kept and has still to skip, is the same wherever the two halves
  meet. It is proved step by step (`OneStep`) from one end to the other.
* `PathResolvesHolds`, from it: a path that is resolved, extended and resolved
  again keeps being one that the theorem is about.
* `StatsExactHolds`: `StatSpec => []StatsExact`, for any threads, names, number of
  slots, amounts and width of a counter. The inductive invariant `StatInv` adds to
  the type that a thread between `Call` and its exchange points to a slot which is
  its name's (`Pointing`), that no two slots have one name (`Unique`), that each slot
  holds its name's total (`Exact`), and that a name without a slot has counted
  nothing (`Unclaimed`), without which a claimed slot could start below its total.
  Nothing is needed about the value a thread has read: an exchange that succeeds does
  so on the value that is there, so that a counter that went away and came back (by a
  wrap, or a reset) does no harm; this is what the theorem says beyond the run's two
  bits.

`Input_proofs` proves `InputFollowsDevicesHolds`, for any number of devices and
keys, any tables and ranges, and any `IntMax`: what `keyIsDown`, `keyWasPressed`,
`keyWasReleased` and the last keys say is what the devices did, unless the focus was
lost in the frame, and axes are scaled to the range of an int. `InputInv` says, in
place of the frame's edges, that keys down are those held *also* after a lost focus
(`DownIsHeld`), whose loop runs through the rows of later devices and beyond the
array: lemma `LoopStep` shows that it comes to an entry of another row only when it
has cleared it before, and `NoneApart` that the key that is none (`type_COUNT`)
shares no entry with a key. For the axes it says that a table, once there, stays, so
that what an axis was scaled by is what it is compared with; `Stride` is the
arithmetic of the integer division.

`Parsing_proofs` proves

* `RightmostDerivationHolds`, for any grammar and any tokens: the parser is sound. The
  invariant, `StackInv`, says that the forms of `derivation` go from the tokens
  pushed to the stack by steps of a rightmost derivation. A reduction adds a form
  from which the one before is derived; a push changes all forms at their ends, and
  the lemma about it is that a token behind a node leaves it the last node.
* `ReductionsEndHolds`: the loop `while (reduce(stack))` ends. `CountInv` counts each
  reduction against tokens pushed, symbols gone from the stack, and the number of
  the rule on top: a chain of two symbols or more shortens the stack, a chain of
  one node leaves a later rule there, so that at most as many of these follow each
  other as there are rules. This is for grammars that are `Ascending`, as those
  of the repository are (`proto_parser.cpp:529`, `xml_parser.cpp`): with a rule
  that has itself as a chain the loop does not end.
* `ScanIsFirstRun`: on any text and for any machine, whatever built it, `scan`
  returns the end of the first run of places where some thread ends in a match.
  The set of states the loop carries is the set of ends of all paths
  (`Reached`), so that no thread is lost or made up where several meet; `Knows` is
  what the loop knows after each character, including that a match that ended is
  not taken up again.
* `ParsesOnStack`: `LRSpec => StackSpec`, a turn of the loop being a step of the
  stack or a stutter, so that the first two hold of the parser of a text.
* `ParseEndsHolds`, from all of these: `scan` never returns a place before the
  one it began at or behind the text, and what it returns as no match is where it
  began; so each token takes a character at least, and the number of reductions is
  bounded by the length of the text.
* `NumberReadBack`, `NumberCutOff`: a varint read where it was written gives the
  number, for every number of the word, with any bytes around it and in any
  nesting of ranges, and leaves the reader right behind it; if the buffer or some
  range ends within it, the read fails. `IsNumber` is the form of the bytes.
* `SignedReadBack`: the zigzag code is one to one.

`AddSplit`, `Scan`, `VarUInt` and `VarValue` are recursive functions. That such a
function exists, and has its values by its recursion, is proved from a least
argument at which it would fail; so is what holds of its values.

Assumptions on constants are named, and TLC evaluates them in the runs:
`ThreadAssumption`, `MaxSizeAssumption`, `ProgramAssumption`, `WorkersAssumption`,
`MaxItemsAssumption` (`ConcurrentQueue`); `LoggerAssumption`, `NothingAssumption`,
`BoundAssumption`, `LevelAssumption` (`Logging`); `ModeAssumption`,
`LimitAssumption`, `BoundAssumption`, `GarbageAssumption`, `DistinctAssumption`
(`NetServer`); `NoneAssumption`, `ValidAssumption`, `RequestingAssumption`
(`StateMachine`); `VfsAssumption`; `BlobAssumption` (`MemStream`); `NamesAssumption`
(`PathResolution`: no empty name, since a leading separator is lost, a finding);
`AppStatsAssumption`; `GrammarAssumption` (`Reductions`), `TokenizerAssumption`
(`LRParser`: the patterns are machines, which TLC evaluates on those that `Regex`
builds) and `VarintAssumption` (`Varint`); and `InputAssumption`. The last leaves out registered ranges of
one value (a division by zero) and of more than INT_MAX (a stride of 0), both
findings, and takes a controller's values to be in the range it declares.
The theorems about `StateMachine` and the three about wakeups in the queue have a
hypothesis besides, named above; the others have none. (`Ascending` is a hypothesis
within `ReductionsEnd` and `ParseEnds`, on the grammar at hand.)

Only model-checked:

* liveness (`ConsumersReleased`, `Delivered`, `ProducersReturn`, `GoneReleased`,
  `CopyReturns`, `RequestTaken` and their like): fairness and ENABLED are beyond the
  prover;
* `ScanFindsFirstRun`: that `build` makes the machine the pattern means. What a
  machine then does on a text is proved (`ScanIsFirstRun`); the passes of `build` are
  folds over tokens, and `Ends` is recursive over expressions.
* `ParsesLanguage`: that the parser refuses nothing of the language. It is not true
  of every grammar, since there is no look ahead; that nothing else is accepted is
  proved (`RightmostDerivationHolds`).
* `ReadsWhatWasWritten`: that messages come back field by field, through the nested
  readers of `Wire`, which are RECURSIVE operators. That the numbers they are made
  of come back is proved.

What is proved and no property of a run: `CapacityHolds` and `FifoHolds` of the queue,
which `ImplementsChannel` contains; `ReductionsEndHolds`, whose consequence for a text
is `ParseEnds`; the types of `StateMachine` and `Vfs`, and the theorems about operators
(`ScanIsFirstRun`, `ResolveIsDestination`, those about numbers).

## 5. Plan

1. `BoundedFifo`, `ConcurrentQueue` and its proofs; `Logging` composed with it;
   `NetServer`; `StateMachine` and its proofs. *Done.*
2. `Path` and `Vfs`, with the mutex, the lookup, copies and listings. *Done.*
3. `MemStream`, `AppStats` and its proof, `Input`, `Regex`, `LRParser`, `Wire`,
   composed into one run. *Done.*
4. The safety of `NetServer`, `Logging`, `Vfs`, `MemStream`, `Path` and `Input`.
   *Done.*
5. The stack of the parser, scans, the tokenizer and varints, with their loops as
   recursive functions. *Done.*
6. Left to prove: the passes of `build` in `Regex` and the nested readers of `Wire`.

## 6. Not modelled

* **Vendored code**: `EXTERN_LIB` (GLEW, the delegates of srutil) is three quarters
  of the lines of the repository. It is generated or third-party, GLEW is a table
  of function pointers, and nothing of its state is visible to the rest.
* **NetClient**: `start` insists on a port of 0 (the condition is inverted), and on
  Linux its `select` never reports a socket. No client of the repository can
  connect, and a model of one that could would be a model of other code.
* **Protobuf RPC service** (disabled by `#if 0`) and **DynamicProto** (commented
  out).
* **Config flags**: parsed once on one thread before anything runs; what it does to
  typed targets in static objects is mostly about characters.
* **Windows**: creating windows, cursors, GL contexts, the mouse wheel: calls of
  the operating system without state of their own. **StreamSink**, the serializers
  of containers, filters' arithmetic of positions, `AppInfo`: small, or the
  standard library's.
* **`stat` and `MkDir`** beyond the lock they take twice; a temporary folder cannot
  be mounted for the same reason.
* **Compilers and converters**: the parser, validator and layout of protoc,
  prototool, bin2h, bmfontutil, the XML, proto-text and TGA readers, images: run
  once per file, about characters and layout rather than state.
* **Default log sinks, net_common, platform I/O**: output and system calls.
* **Leaf code** (bitset, blobs, math, crc32, timer, endianness, string and comparison
  utilities): pure functions with unit tests. **Tests, mocks, build files.**
