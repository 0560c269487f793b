# Verification of the AESD assignments

TLA+ models of the code of this repository, the TLC configurations that check
them on small instances, and proofs that TLAPS checks for every instance.

The repository is almost all vendored (Buildroot, Unity, course scripts). The
code of its own is a Linux character driver with its ring buffer, three versions
of a socket server, and a few small exercises and utilities. The driver and the
servers are the parts where something can go wrong that a test would hardly
reach.

## 1. Inventory

Paths are relative to `src/`. `D/` stands for
`meta-aesd/recipes-kernel/aesd-char-driver/files/`.

| Component | Code | State | Operations | Modelled |
|---|---|---|---|---|
| circular buffer | `D/aesd-circular-buffer.c`, `.h` | entry array, `in_offs`, `out_offs`, `full` | `init`, `add_entry`, `find_entry_offset_for_fpos`, `empty` | yes |
| character driver | `D/aesdchar.c` | the static ring, `aesd_mutex`, kmalloc'ed memory; per open file `f_pos` | open, release, read, pread, write; load, unload | yes |
| threaded server | `assignment6/aesdsocket.c` | `thread_list`, `file_mutex`, `exit_requested`, listening socket, data file; per thread its buffers and descriptor | accept, serve, timestamp, clean up, signal, shut down | yes |
| sequential server | `server/aesdsocket.c` | `exit_requested`, one connection, data file | accept, serve, signal | yes |
| shipped server | `base_external/package/aesd-assignments/server/aesdsocket.c` | one connection, data file | accept, serve | yes |
| mutex threads | `assignment4/threading/threading.c` | `thread_data` per thread, a mutex | start, run | no |
| system calls | `assignment-3-part-1/systemcalls.c` | a child process, what stdio holds | `do_system`, `do_exec`, `do_exec_redirect` | yes |
| writer, finder | `finder-app/` | none across calls | write a file, count matches | no |
| scripts, unit | `aesdsocket-start-stop`, `assignment6/aesdsocket.service` | a pid file | start, stop | as the environment of the server |
| driver template | `aesd-char-driver/` | | unimplemented; its comments document the driver; scripts make the device node | the node |
| image build, tests | `buildroot/`, `meta-aesd/`, `build.sh`, autotest | | | no |

How they interact:

- The driver calls the ring only under `aesd_mutex` (`aesdchar.c` 38-60, 82-84).
  It allocates before it takes the lock and never frees an entry the ring drops.
- The kernel's VFS calls the driver with a copy of the file's position and
  stores it back after read and write. Character devices have no lock on it.
- The kernel takes what `aesd_init` registers, one thing at a time, and lets
  processes in from `cdev_add` on; `aesd_exit` takes it back.
- In the threaded server, main hands a `thread_info` with an open descriptor to
  a new thread and lists it; the thread says it is done by `thread_complete`;
  main joins it, unlinks it and closes the descriptor, but only after the next
  `accept` or at the end. Clients and the timestamp thread meet at `file_mutex`
  and the data file. The signal handler sets a flag and shuts down the listening
  socket. The file survives a process that is killed.
- The other two servers are one process with one client at a time. A signal
  handler that only sets a flag, or none at all, is all that interrupts them.
- `do_exec` makes a copy of the process that calls it, then waits for the copy.
- The scripts and systemd end the server by SIGTERM and start it again.
- The socket servers and the driver do not use each other: the server writes
  `/var/tmp/aesdsocketdata`, not `/dev/aesdchar`.

What is hard, and what makes each part correct:

- **Ring**: offsets that are equal in an empty and in a full ring, wrap-around,
  the byte boundary between entries, empty entries. Correct when it holds
  exactly the last writes and finds the right byte.
- **Driver**: interleaved writers, a read that scans while others wait, a user
  copy that fails after memory was taken, eviction between two reads of a file,
  three ways out of the critical section. Correct when each call takes effect at
  one instant (CharDevice), no write is lost or out of order, each block of
  memory has one owner, a reader sees no byte twice, and every call returns.
- **Threaded server**: threads against the timestamp and against the cleanup of
  the list, a signal anywhere, early returns under the mutex, short writes,
  clients that hang up, stay silent or do not read, death by SIGPIPE and a
  restart over the old file, a thread that could not be created. Correct when
  requests are logged whole and replies are snapshots of the log (SharedLog),
  every connection is in hand exactly once, a signal ends the server, an exit on
  request leaves nothing, and a client that sent something is answered.
- **Loading the driver**: four registrations, of which any may fail, while
  processes open the device before the last one is made. Correct when nothing
  registered outlives the module and `aesd_exit` meets no open file.
- **Sequential server**: a signal between any two calls or inside one that waits,
  a line that arrives in pieces, a buffer that grows, text after the newline, a
  `send` that loses a chunk. Correct when it logs lines and nothing else, is a
  log with replies that are snapshots of it (SharedLog, too), gives each line back
  whole, is never kept by a client that has gone, and ends at the next client at
  the latest.
- **Shipped server**: a buffer that fills without a newline makes `recv` ask for
  zero bytes; no signal handling, the file is never removed. Correct when each
  client is let go and a line that fits in the buffer is logged whole.
- **System calls**: the child whose `execv` failed is a copy of the caller with
  everything stdio has not written; a wait may be interrupted. Correct when true
  means that the command succeeded, and nobody is left behind.
- **Mutex threads**: one lock and one unlock per thread; see section 6.

The list of hazards, each at its line with the properties that cover it, is in
`PROJECT.json`.

## 2. Modules

| Module | What it is |
|---|---|
| `CircularBuffer` | the ring as a record, its functions as operators; `add_entry` in two halves (`Store`, `Advance`), the find loop as start, exits and step |
| `RingUse` | one caller of the ring, whole calls at a time, against a log of what was added |
| `CharDevice` | abstract specification of `/dev/aesdchar`: the text of the last writes, each call answered at one instant |
| `AesdChar` | the driver: threads inside system calls |
| `MCAesdChar` | TLC instances of it, symmetry in threads and blocks; the ten lines of `drivertest.sh` (`LastLinesKept`) |
| `DriverLoad` | `aesd_init` and `aesd_exit` against processes that open the device |
| `CircularBufferProofs`, `RingUseProofs`, `AesdCharInvariant`, `AesdCharRefinement`, `DriverLoadProofs`, `ThreadedServerProofs`, `LineServerProofs`, `SystemCallsProofs` | theorems and proofs, section 5 |
| `SharedLog` | abstract specification of the socket servers: one log, replies that are snapshots of it |
| `SocketPeers` | the clients, the listen queue, `recv` and `send`, as the servers use them |
| `ThreadedServer` | the threaded server and its restarts, over `SocketPeers` |
| `MCThreadedServer` | TLC instances of it, symmetry in clients where only safety is checked |
| `LineServer` | the sequential and the shipped server, over `SocketPeers` |
| `SystemCalls` | the system call exercise: a caller and the children `fork` makes of it |

`RingUse`, `DriverLoad`, `LineServer` and `SystemCalls` are instantiated by
their configurations directly. `AesdChar` is shown to implement `CharDevice`,
`ThreadedServer` and `LineServer` to implement `SharedLog`.

A definition whose comment says "Mutant of X" is X with a plausible bug. It is
not used in any specification. It is there to show that the properties notice
the bug: with X replaced by it, the property named in `PROJECT.json` fails.

### The driver

A thread is a task inside a system call. A step is what it does between two
points where another can run. The labels of `pc` follow the code:

| Step | `aesdchar.c` |
|---|---|
| `WriteAlloc`, `WriteNoMem` (`w_alloc`) | `kmalloc`, 70-72. `kmalloc(0)` returns `ZERO_SIZE_PTR` and never fails |
| `WriteCopy`, `WriteFault` (`w_copy`) | `copy_from_user`, 74-77, `kfree` included |
| `WriteLock` (`w_lock`) | 82 |
| `WriteStore`, `WriteAdvance` (`w_store`, `w_advance`) | `add_entry`, 83: the slot, then the offsets |
| `WriteUnlock` (`w_unlock`) | 84-86 |
| `ReadLock` (`r_lock`) | 38 |
| `ReadHit`, `ReadNext`, `ReadMiss` (`r_scan`) | 40-46, one turn of the loop at a time |
| `ReadCopy`, `ReadFault` (`r_copy`) | 48-57, clipping and position included |
| `ReadUnlock` (`r_unlock`) | 59-61 |
| `Return` (`ret`) | the VFS: position stored back unless the driver returned an error; not after pread |

The steps are finer than the mutex requires on purpose: mutual exclusion is then
something the model could violate, and the refinement has to hide the half-done
`add_entry`. A payload is the block of memory that holds it: blocks are never
reused once an entry points at them, as the driver does not free them, so the
block identifies the write. Bytes are counted, not spelled out. `at`, `total`,
`dropped` and `last` are history: they name the place of each entry in the
stream of all accepted bytes, the blocks lost to overwrites, and for each file
the end of what it was delivered.

`Ring` is the ring as the mutex protects it (with the second half of a half-done
`add_entry` done), `Kept` its entries from the oldest to the newest, and the
refinement maps the device's window to `Kept`. A write takes effect at
`WriteStore`, a read at `ReadCopy`, `ReadMiss` or a fault.

### Loading and unloading the driver

`pc` in `DriverLoad` is what `aesd_init` or `aesd_exit` calls next:

| `pc` | `aesdchar.c` |
|---|---|
| `alloc_region` | 104-108 |
| `add_cdev` | 111-119 |
| `create_class` | 122-128 |
| `create_device` | 131-137 |
| `undo_cdev`, `undo_region` | the error branches, 117 and 125-126 |
| `live` | between 140 and the next unload |
| `destroy_device`, `destroy_class`, `del_cdev`, `free_region` | `aesd_exit`, 145-148 |

What the kernel does is an assumption of the model: an open takes a reference to
the module through `.owner` (90, 112), also while the module loads; a module
that is referenced is not unloaded, and none is opened once unloading has begun;
a module whose init returned an error is thrown out whatever is open. The last
is why a file may be open on code that is gone: `class_create` must fail after a
process has opened the device, through a node that was made by hand before
(`aesdchar_load` makes them, and `aesdchar_unload` removes them last).
`OpenHoldsTheModule` says that there is no other way, `OpenOnlyWhenLive` that a
node made by hand is needed.

`device_create` returns an error pointer when it fails, never NULL, so the
branch at 132-136 is dead: `NoDevice` goes to `live`, and the module logs that it
created a device that is not there. It still unloads cleanly, as
`NothingDangles` shows.

### The threaded server

Main, the handler, the timestamp thread and each client thread are processes.
Clients and the kernel's side of a socket are in `SocketPeers`. A client connects
at most once, so a client, its connection, its `thread_info` and its thread have
one name. A request is a number of parts, `recv` takes at
most `BufParts` of those that arrived, and the data file is the sequence of the
parts and timestamps appended to it. What the kernel does is in a few actions
marked external: the listen queue, the receive queue (`sent`), and a send window
of `Window` items (`unread`) that makes `send` block against a client that does
not read.

Choices that come from the code or its platform:

- Signals go to the main thread, between two of its steps, as Linux prefers it.
  `Signal` is the flag, `HandlerEnds` the `shutdown` of the listening socket;
  main does nothing in between, the other threads may.
- `shutdown` on the listening socket makes `accept` fail and resets queued
  connections.
- The result of `pthread_create` is not looked at, in line 348 and for the
  timestamp thread in 323: the thread may be "unborn", its id never written.
  Joining it at the end is undefined; it may return or crash the process
  (`JoinCrashes`).
- When a timestamp fails (`StampFails`), `fopen` failed, or it created the file
  and nothing was written to it.
- SIGPIPE is neither ignored nor handled: `send` to a client that has gone may
  kill the process (`BrokenPipe`) or fail (`SendFails`). A killed process loses
  its memory and connections, not the file.
- `remove(DATAFILE)` in `Finish` is atomic with the end of the process: no other
  thread is left that could see the difference.
- `sleep(10)` takes any time, and is not cut short by the signal: the timestamp
  thread still appends once after `exit_requested`.

`run`, `due`, `got`, `fate` and `short` are history. The refinement to
`SharedLog` is the identity on the file and these.

What there is to log of a client is an input of `SharedLog`, `request`: what the
one `recv` of the threaded server gave, the line in the sequential server, all
that was received in the shipped one. It is logged whole, unless a failing file
takes only the first parts of it: then the client is in `short`. That
`request` is what the client meant is not `SharedLog`'s to say: it is what
`FittingLineComesBack`, `LineComesBack` and `WholeRequestInReply` are about.
`got` is what a client was
sent while nothing had failed with it, so it is a prefix of the snapshot; a reply
that lost a chunk, or was cut when the server died, ends with the fate "failed"
and never passes for a whole one.

### The sequential and the shipped server

`LineServer` is both programs; `program` says which one runs. They share most
actions, and a comment says where they differ. The sequential server loops in
`recv` in a buffer that grows (147-173) and logs the line alone (172-182); the
shipped one stops at a newline, at the end of the stream, or when its fixed
buffer is full, and logs whatever it has (74-86). A full buffer makes it ask for
zero bytes, which waits, like any `recv`, until there is more or the stream ends
(`RecvNothing`). `line` says in which part of a
client's message the newline is: what comes after is text after the newline, and
a client may end before it gets there.

The sequential server notes a signal between any two calls (`SignalNoted`).
`sigaction` is called without `SA_RESTART`, so a signal also interrupts a wait in
`accept`, `recv` or `send`. An interrupted or failed `send` is not looked at and
loses its chunk (`LoseChunk`). Only the first signal matters: the handler sets
the same flag again. The shipped server has no handler; the signal kills it.
Restarts are left out here, as `ThreadedServer` shows what a file that survives
does to the log, and so is the flush that stdio tries again at `fclose` when one
has failed.

### The system calls

The caller prints (`Printf`) and flushes (`Flush`) as it likes between calls.
`fork` copies `text`, what is printed and not written; `Exec` throws the copy
away; `Exit`, which is `exit` and not `_exit`, writes it out, to the output file
if `dup2` was done (119). `do_system` is one step, as the shell that `system`
runs has no copy of `text`. `WaitInterrupted` is a handler of the caller: the call
is false, and the child is never waited for again. `copy` and `status` are the
child's; `interrupted` is history.

## 3. Checks

Properties are stated, with the behaviour they are about, in the modules.

| Run | Module, configuration | Asks | Distinct states |
|---|---|---|---|
| `ring` | `RingUse.cfg` | does the ring hold the last writes and find the right byte? | 3,280 |
| `driver` | `AesdCharFiles.cfg` | do concurrent calls on two files behave like CharDevice, keep memory owned, and read on in order? | 700,334 |
| `driver_live` | `AesdCharLive.cfg` | does every call return, on a shared file and with empty writes? | 110,932 |
| `driver_leak` | `AesdCharLeak.cfg` | is overwritten memory still reachable? **No** | violation |
| `driver_lines` | `AesdCharLines.cfg` | does the ring keep as many lines as it has entries, when lines are written in pieces? **No** | violation |
| `driver_load` | `DriverLoad.cfg` | does every way out of loading and unloading take back what was registered, and in order? Who can be inside meanwhile? | 137 |
| `server_restart` | `ThreadedServerRestart.cfg` | does the server serve one log when two clients hang up, memory and threads are refused, the process dies and is started again? Are clean exits clean? | 2,744,931 |
| `server_stop` | `ThreadedServerStop.cfg` | is a client that sent something answered or turned away, and does a signal end the server, with clients that do not stay silent and everything failing? | 158,554 |
| `server_long` | `ThreadedServerLong.cfg` | is a long request logged and echoed whole? **No** | violation |
| `line_server` | `LineServer.cfg` | do both one-client servers serve one log, give lines back whole, let every client go, and end at the next client after a signal? | 277,290 |
| `shipped_long` | `LineServerLong.cfg` | does the shipped server send a line longer than its buffer back whole? **No** | violation |
| `system_calls` | `SystemCalls.cfg` | does true mean success? Does the caller's text come out once? Is anybody left behind? Does every call return? | 29,716 |

The state counts are with the symmetry the configurations declare.

### Bounds

- *Ring.* `MAX = 3` and up to 7 adds: the offsets wrap twice and every fill
  level occurs; sizes 0, 1 and 2 put boundaries next to each other and empty
  entries anywhere. `FindIsByteAtOffset` asks for every offset and one past.
- *Driver.* `MAX = 2`, so a third write evicts. `driver` has two threads with two
  files neither shares (`Shared = {}`), three blocks, sizes 1 and 2, counts 1 and
  2 (short reads, reads clipped at an entry), pread at 1 (inside an entry). The
  three blocks bound the accepted non-empty writes, as nothing is ever freed;
  `kmalloc` may fail at any time as well. `driver_live` has one file both threads
  share, so a stale position may be stored back, and writes of 0 bytes, which
  need no block and so make any number of evictions. Theorems cover the rest:
  any number of threads, files, blocks, sizes.
- *Loading.* Three processes with one file each. Theorems cover any number.
- *Threaded server.* Two clients make every conflict between two threads, and a
  list of two lets the entry in front or behind be unlinked. Two parts a request,
  in `server_stop`, give short writes and requests cut at their end, one
  elsewhere. `ChunkParts` below the length of the file makes the read-and-send
  loop turn several times, `Window = 1` makes `send` block after every item.
  `MaxStamps` bounds the timestamps before a signal; the one after it always
  happens, so `server_restart` has a timestamp racing two clients without any
  before the signal, and `server_stop` has one there. `MaxRuns = 2` gives one
  restart. `Faults` says what may go wrong in a run: all but the files in `server_restart`,
  everything in `server_stop`, with one client, against which the timestamp thread
  competes for the file and its mutex. Two clients with everything and a restart
  are beyond a few minutes of TLC: that two clients share one log while file
  operations fail is proved (`ThreadedServerProofs!Refinement`) and not run.
- *One-client servers.* A message of three parts in a buffer of two, which
  grows, or fills, with the newline in the first part (and text after it) or in the
  last (in the part that did not fit at first). Two clients: one whose line is in
  the file, and one that reads it back or comes after the signal. A line that fills
  the buffer exactly, which makes too many states, is left to the theorem
  (`FittingLines`).
- *System calls.* Two calls: the child of a call whose wait was interrupted
  still runs in the second. Two texts: one before a fork and one after.

Deadlock is not checked for the servers, which stop and whose clients may all be
served, for loading (a module may stay out of the kernel: open files on code that
is gone end the model) and for the system calls, which end after the last. It is
checked for the ring and the driver.

### Fairness

- *Driver.* `Fairness` is weak fairness of each thread inside the driver (the
  kernel keeps scheduling it, and nothing in the driver waits but the mutex) and
  strong fairness of taking the mutex: the kernel's mutex hands itself over to
  a waiter that was overtaken for long. Threads need not make calls.
- *Server.* `ServerFairness` is weak fairness of main, the handler, the timestamp
  thread and each client thread. It says nothing of clients, and nothing makes
  `accept` fail but the end of listening (`AcceptRunsOut` is left out of it).
  `FairSpec` adds that clients read what they are sent and do not keep a
  connection open for ever without ending what they send. `Answered` and
  `StopsOnSignal` hold under `FairSpec`. `Answered` needs it as the mutex is held
  while `send` waits for a client that does not read (211), and `StopsOnSignal` as
  main joins (363) a thread that may wait in `recv` for a client that stays silent. Under
  `ServerFairSpec` such a client violates it. The mutex
  needs no strong fairness here: a client takes it once, and the timestamp thread
  finitely often before a signal (the bound), where the code lets 10 s pass each
  time. Nor does `accept` fail for ever while a client waits (strong fairness of
  `Accept`).
- *One-client servers.* `FairSpec` is weak fairness of the program and of clients
  that read and end what they send, and strong fairness of `accept`, which
  does not fail for ever while a client waits. Nothing makes a call fail or a
  signal come. `StopsAtNextClient` promises nothing while no client
  comes: a signal between the loop test and `accept` (229-233) is lost until then.
  As clients end what they send, it does not see the other wait: a signal between
  the test in line 147 and `recv` is not noticed as long as the client is silent.
- *System calls.* Weak fairness of `Wait` and of each child: both processes run,
  and commands end.

## 4. Where the code does not do what is written

| Run | The code | What is written |
|---|---|---|
| `driver_leak` | `D/aesdchar.c:83` drops the overwritten entry and never frees it | `aesd-char-driver/aesd-circular-buffer.c:43`: the memory's lifetime must be managed by the caller |
| `driver_lines` | `D/aesdchar.c:79` makes an entry of every write, whether it ends a line or not | `drivertest.sh:81-97` (assignment8) writes ten lines in fifteen writes and expects all ten |
| `server_long` | `assignment6/aesdsocket.c:169` receives once, at most 1024 bytes | `sockettest.sh:53-57,79-83` (assignment5) sends a line of 19999 bytes and expects it back whole; the script of assignment6 has a branch for it (57-64) that it never calls |
| `shipped_long` | the shipped server's `aesdsocket.c:74` stops receiving when 1023 bytes are in the buffer, logs them and sends them back | the same lines of assignment5's `sockettest.sh` |

The models also take steps that the code hardly means to take, and that no
property forbids; `PROJECT.json` lists each as a hazard, with a note:

- `assignment6/aesdsocket.c:358,363` join threads that 323 and 348 may have failed
  to create, by ids never written. That may crash the server (`JoinCrashes`) with
  the data file left behind. `StopsOnSignal` counts a crash as an end.
- `assignment6/aesdsocket.c:363` waits for threads that wait for silent clients,
  and 211 sends to clients that may not read with the mutex held. `FairSpec` assumes
  away both.
- `assignment6/aesdsocket.c:190` takes a short write for a whole one (`short`).
- `server/aesdsocket.c:196` goes on with the next chunk when `send` lost one
  (`LoseChunk`). The client's fate is then "failed": the reply is not one that
  `ServesTheLog` speaks of.
- `systemcalls.c:67` writes the caller's unwritten text once more when `execv` failed;
  `CallerTextOnce` is about runs in which no call was false.

## 5. Proofs

`tlapm` checks all of them to the last leaf. They hold for every value of the
constants that satisfies the assumptions: `MaxAssumption` (a ring of 1 to 256
slots, what `uint8_t` offsets allow; the driver has 10), `AesdCharAssumption`
(NULL and `ZERO_SIZE_PTR` are none of the other names; sizes, counts and
positions are naturals; shared files are files), `RingUseAssumption` (sizes and
the bound on calls are naturals), `SocketPeersAssumption`,
`ThreadedServerAssumption` and `LineServerAssumption` (a message, a buffer, a
chunk and the send window hold at least one part; NULL is no client, no sequence
of items and not the timestamp thread) and `SystemCallsAssumption` (the bounds are
naturals). `DriverLoad` assumes nothing. Sets of clients, threads, openers and
blocks are arbitrary, also infinite. Every safety property that a run checks is
a theorem:

| Theorem | Says |
|---|---|
| `AesdCharInvariant!TypeCorrectness` | `Spec => []TypeOK`: offsets stay in the array, no count goes below zero |
| `AesdCharInvariant!Exclusion` | `Spec => []MutualExclusion` |
| `AesdCharInvariant!StreamKept` | `Spec => []KeptIsEndOfStream` |
| `AesdCharInvariant!MemoryOwned` | `Spec => []EveryBlockHasOneOwner` |
| `AesdCharRefinement!Refinement` | `Spec => ImplementsDevice`: the driver implements CharDevice |
| `AesdCharRefinement!ReadsGoOn` | `Spec => ReadsContinue`: a file's reader gets no byte twice and, with no eviction in between, misses none |
| `RingUseProofs!TypeCorrect` | `Spec => []TypeOK` |
| `RingUseProofs!LastWritesKept` | `Spec => []WindowIsLastWrites`, for a ring of any size and any number of calls |
| `RingUseProofs!FindRight` | `Spec => []FindIsByteAtOffset`: the find loop gives the byte at the offset, for any sizes of entries |
| `RingUseProofs!EmptyKnown` | `Spec => []EmptyIffUnused` |
| `DriverLoadProofs!TypeCorrect` | `Spec => []TypeOK`: one reference for each open file |
| `DriverLoadProofs!SetupUndone` | `Spec => []NothingDangles`, for any number of openers |
| `DriverLoadProofs!ModuleHeld` | `Spec => []OpenHoldsTheModule` |
| `DriverLoadProofs!NobodyEarly` | `Spec => OpenOnlyWhenLive` |
| `ThreadedServerProofs!TypeCorrect` | `Spec => []TypeOK` |
| `ThreadedServerProofs!Tracked` | `Spec => []EveryConnectionTracked`, for any number of clients |
| `ThreadedServerProofs!ExitsClean` | `Spec => []CleanExit` |
| `ThreadedServerProofs!Refinement` | `Spec => ServesTheLog`: the threaded server implements SharedLog |
| `LineServerProofs!TypeCorrect` | `Spec => []TypeOK` |
| `LineServerProofs!OnlyLines` | `Spec => []LinesOnly` |
| `LineServerProofs!LateTurnedAway` | `Spec => []LateClientTurnedAway` |
| `LineServerProofs!ExitsClean` | `Spec => []CleanExit` |
| `LineServerProofs!Refinement` | `Spec => ServesTheLog`: both programs implement SharedLog |
| `LineServerProofs!FittingLines` | `Spec => []FittingLineComesBack`, for lines, buffers and chunks of any size |
| `SystemCallsProofs!TypeCorrect` | `Spec => []TypeOK` |
| `SystemCallsProofs!TrueDone` | `Spec => []TrueMeansDone`, for any number of calls and whatever fails |
| `SystemCallsProofs!NoneLeft` | `Spec => []NobodyLeft` |
| `SystemCallsProofs!CallerText` | `Spec => []CallerTextOnce` |

The inductive invariants are theorems too (`Invariance`, in the driver also
`FullInvariance`). TLC checked each of them on the runs' instances before it was
proved.

The argument, from the bottom:

1. `CircularBufferProofs`: arithmetic of `(i + 1) % MAX` without division;
   operations keep a ring's type and `Shape` (until it is full a ring starts at
   slot 0; then both offsets are equal). The main lemma, `PushInOrder`: whatever
   the slots hold, storing at `in_offs` and advancing appends to the sequence
   from the oldest to the newest and, if the ring was full, drops its head.
2. `Inv == TypeOK /\ MutualExclusion /\ ScanBounds`. `TypeOK` alone is not
   inductive: that `f_pos + count` stays natural needs the found entry to hold
   the offset, which `ScanBounds` gives, and that needs no other thread to have
   changed the ring since the scan, which mutual exclusion gives.
3. `DeviceInv == RingShape /\ Stream /\ ScanPlace`: the kept entries are
   consecutive in the stream of accepted bytes, and a scan's byte count is the
   distance of its entry from the oldest. `ScanPlace` is what the refinement
   needs to know that the entry the scan finds is the one that holds the offset.
4. `HeapInv == HoldOK /\ HoldersDiffer /\ KeptDiffer /\ BlockOK`: the ownership
   of memory stated block by block. `EveryBlockHasOneOwner` is not inductive: it
   needs that no two slots hold one block, or an overwrite would drop a block
   that the ring still has.
5. Refinement: `WriteStore` maps to `AcceptWrite` (with `PushInOrder` and
   `KeptDiffer` for the freshness of the payload), `ReadCopy` to `AnswerRead`,
   `ReadMiss` to `AnswerEof`, the three failures to `Refuse`, entry and return to
   `Ask` and `Return`; every other step leaves window and calls as they are.
6. Reads that go on (`ReadsInv == CallOK /\ PlaceOK /\ FileOK`, over `FullInv`):
   the base of the ring, the number of bytes evicted, only grows, and the place a
   file has reached in the stream, base plus position, is the end of what it was
   delivered as long as the base is what it was then. A file that is not shared
   has one call in progress at most, so the position the call works on is the
   one the VFS holds.
7. The ring alone (`RingInv`): the entries from the oldest to the newest are the
   end of the log, at most MAX long and exactly MAX long once the ring is full;
   each `Add` is `PushInOrder` again. `EmptyIffUnused` follows as the log is empty
   exactly when that end is.
8. The find loop. The turns of the loop and the concatenation of its reference
   (`FlattenSeq`) are recursive functions; `Recursion` says that a start and a
   step have one, so that `LoopTurns` and `Flattened` may speak of them turn by
   turn. `Counted`, by induction: at turn `i` the loop is at the `i`-th entry and
   has counted the length of the text before it. So it ends at the last entry
   and hits the first one behind which the text is longer than the offset.
   Induction comes from `WFMin`: a set of naturals has a least member (`Least`),
   so a set with 0 and the successors of its members has all (`SetInduction`).
   Stated of sets, it needs no operator as a parameter.
9. Loading (`LoadInv == TypeOK /\ SetupKnown /\ NodeKnown /\
   OpenHoldsTheModule`): where `aesd_init` or `aesd_exit` is says what is registered,
   but for the device, which may be missing, and a node of devtmpfs is only there
   with the device. `NothingDangles` is a consequence.
10. The threaded server (`ThreadedServerProofs!ServerInv == TypeOK /\ ListOK /\
   MutexOK /\ EndOK` and, of each client, `ConnOK /\ FateOK /\ ReplyOK`). `ListOK`:
   `thread_list` has a thread once, and the one just made not yet; without it
   taking a thread out might leave it in. `ConnOK`: a connection is open exactly
   while its `thread_info` is the one being made or in the list, which is
   `EveryConnectionTracked`, and a thread is there to join from `Spawn` to then.
   `MutexOK`: `file_mutex` is held exactly in the critical sections. `EndOK`: what each step of the end of main has seen
   to, the chain behind `CleanExit`. `FateOK` ties where a thread is to how far
   its client is served. `ReplyOK`: from its append to its unlock the file is what
   it was at the append, and what was sent, with what is in the buffer, is its
   beginning. It is inductive because of `MutexOK` alone: no other thread, and
   not the timestamp thread, can append meanwhile.
11. The refinement of `SharedLog`: `AppendRequest` (`Write` in `LineServer`) is
   `Serve`, an append of the timestamp thread `TimeStamp`, `Send` `Deliver`, the
   end of the read loop `Complete`, each failure, the end by a signal included,
   `GiveUp`, `Finish` `Remove`. All other steps leave the log's variables. That
   `request` parts were appended, or the client is in `short`, is `used` in the
   threaded server and, in `LineServer`, `Packet` of the client in hand.
12. The two programs of `LineServer` (`LineServerProofs!ServerInv`). `PlaceOK`: there
   is a client exactly in the body of the accept loop, and the counters are reset
   between two. `ConnOK`, `FateOK`, `ReplyOK` say what the threaded server's do; as
   nothing runs beside the loop, no mutex is needed. `FateOK` also has that the
   sequential server gets to its reply only with the newline received, and
   `FileOK` that it wrote no more than the line; together they are `LinesOnly`.
   `LateOK`: a client accepted after the signal is the only one, and the loop
   goes straight to its end with it. `FittingLines` rests on `LineInv`: a client that
   sent its line, is there and has something in the log has its line there,
   unless it is in `short` or the line does not fit. Before the append `CutShort`
   says who comes to it without the newline: only in the shipped server, a
   client that has gone or ended before it, or one whose line does not fit.
13. System calls (`CallsInv == TypeOK /\ WaitOK /\ TextOK /\ StdoutOK` and, of each
   call, `CallOK /\ ChildOK`). `ChildOK`: a child with status 0 has written its
   text where `to` says. `CallOK`: only the last call has no answer, and an answer
   from a reaped child is its status, so `TrueMeansDone` and `NobodyLeft` follow.
   `TextOK`: what stdio holds are the last texts printed. `StdoutOK`, which
   `CallerTextOnce` needs: as long as no child has called `exit` the texts before
   those are in stdout, once and in order. `Clean` says so by the answers: a child
   that calls `exit` ends with status 1, and its call is false.

Only model-checked: liveness (`CallsReturn` of both modules, `Answered`,
`StopsOnSignal`, `StopsAtNextClient`), which needs `ENABLED` and fairness and is
beyond the prover. The properties that the code violates (`NothingLeaks`,
`LastLinesKept`, `WholeRequestInReply`, `LineComesBack`) have nothing to prove.

## 6. Not modelled

- Vendored code, which is about 99% of the lines of the repository: Buildroot with
  its kconfig programs, Unity, the course's autotest. It is not this
  repository's, takes no part in how the driver and the servers run, and would be
  models of other projects.
- `assignment4/threading/threading.c`: each thread sleeps, locks a mutex, sleeps
  and unlocks it. The threads share nothing the mutex protects, so a model could
  only state what a mutex is.
- `writer`, `finder`: no state between calls, nothing runs beside them.
- The `KILL` of the packaged stop script five seconds after the `TERM`: the
  models' servers die of SIGPIPE in `send` and, the shipped one, of the `TERM`.
- A `remove` of the data file that fails (`assignment6/aesdsocket.c:374`,
  `server/aesdsocket.c:248`): its result is not looked at, so the file would stay.
  `CleanExit` is about one that succeeds.
- `syslog` in the handler of the sequential server (25), which is not safe there: a
  signal inside main's own `syslog` (128, 206) may deadlock in the C library. The
  model has the handler's flag alone.
- A timestamp of which only a part is written: a stamp is one item.
- Memory at unload: `aesd_exit` frees no entry, for the same missing `kfree` that
  `driver_leak` shows.
- `f_pos` and sizes near 2^63: the kernel limits a call to `MAX_RW_COUNT` and
  memory limits the rest. `lseek`: the driver has no `llseek`, so it fails.
- Partial user copies: the code treats any byte not copied as failure.
- `sigaction`, `getaddrinfo`, `bind`, `listen`, `daemonize` of the server: they
  run before the first state, and a failure exits before anything is served.
- Log messages, and the formatting of timestamps.
- Data races on `thread_complete` and `exit_requested` are modelled as atomic
  accesses: each is one aligned int, written once, and a late view of the write
  is the same as a thread that ends later.
- What the inventory marks "no".

## 7. Plan

What is left, in this order:

1. A refinement of the ring: `RingUse` implements a sequence of at most MAX
   entries to which `Push` adds, stated as a specification of its own.
2. What `SharedLog` promises by itself: a reply that is complete has the client's
   request, an append never changes what a reply in progress has been sent. With
   the refinements, both servers inherit it.
