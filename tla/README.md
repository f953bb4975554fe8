# OperatingSystems-Course: a verification project

TLA+ models of the programs of this repository, the TLC configurations that
check them on small instances, and theorems about them that TLAPS proves for
every instance. Paths are relative to the repository (`src/`); `PROJECT.json`
maps every definition that models code to its lines.

The repository is a set of course assignments; each is a program of its own.
What they share is that they are about processes, threads, sockets, pipes and
shared memory, and that nobody tests them: there is no test in the repository.

## 1. The system

### Inventory

| Part | State | Operations | Modelled by |
|---|---|---|---|
| `Queue<T>` (`Assignment-5/Queue.hpp`) | `queue_`, `mutex_`, `condition_` | `enqueue`, `dequeue`, `isEmpty` | `FifoQueue`, `Queue`, `QueueProofs` |
| `ActiveObject` (`Assignment-5/ActiveObject.hpp`) | `stopRequested_`, a thread, its queue | `createActiveObject`, `stop`, `join`, the thread's loop | `Pipeline`, `PipelineProofs` |
| `StPipeline` (`Assignment-5/StPipeline.hpp`) | four queues and active objects, the local `num` of `run` | `run` and its three tasks | `OrderedStages`, `Pipeline`, `PipelineProofs` |
| reactor (`Assignment-4/reactor.c`) | `read_fds`, `max_fd`, `handlers[1024]` | `addFd`, `startReactor`; `stopReactor`, `waitForReactor` | `ReactServer`, `ReactServerProofs` |
| react_server (`Assignment-4/react_server.c`) | `client_sockets[10]` | `acceptClient`, `handleClient` | `ReactServer`, `ReactServerProofs` |
| stnc, the performance test (`Assignment-3/stnc.c`) | a control connection, a data socket, a FIFO or a shared file, the received file, its size and checksum | the test branches of `run_client` and `run_server`, `sendFile`, `receiveFile`, the mmap and FIFO copies | `PerfTest`, `PerfTestProofs` |
| stnc, the chat (`Assignment-3/stnc.c`) | a connection, two terminals | the poll loops of `run_client` and `run_server` | `Channels`, `Chat`, `ChatProofs` |
| first chat (`Assignment-3/partA.c`) | the same, and one buffer for both directions | a line each in turn | `Channels`, `Chat`, `ChatProofs` |
| `partB.c` (`Assignment-3`) | | an earlier draft of stnc.c that the makefile does not build | no |
| encrypted memory (`Assignment-6/char_device.c`, `encryption.h`) | one page, one key, a position per open file | `device_read`, `device_write`, `device_ioctl`, load and unload | `CharDevice`, `Assignment6Proofs` |
| page sequence (`Assignment-6/sequence.c`) | a linked list of pages, `head`, `tail`, `current` | `sequence_init`, `_write`, `_read`, `_destroy` | `Rotation`, `PageSequence`, `Assignment6Proofs` |
| sysfs entry (`Assignment-6/sysfs_entry.c`) | | refers to a structure that no file declares and cannot be built | no |
| stshell (`Assignment-2/stshell.c`) | `in_fd`, `out_fd`, `argv`, `argc`, the line buffer; one child; the pipes | the prompt, each kind of token, `execute_command`, Ctrl+C | `Shell`, `Assignment2Proofs` |
| basic_shell (`Assignment-2`) | | the sample that stshell grew out of; not built | no |
| copy, cmp (`Assignment-2`) | two streams each, the files and who may read them | `main` of each, `cmp` | `FileTools`, `FileToolsProofs` |
| codecs (`Assignment-2`), `isPrime` (`Assignment-5`) | | pure functions | `Algorithms`, `Assignment2Proofs`, `PipelineProofs` |
| key generator (`Assignment-1`) | | a menu around a library whose source is not here | no |

### Interactions

* *Assignment 5.* `run` (main thread) creates four active objects, each a thread
  that takes tasks from its own `Queue`. A task is a lambda; stage k's lambda
  enqueues stage k+1's on the next queue. All lambdas capture the same local
  variable by reference. `stop` sets a flag and enqueues an empty task; `join`
  waits for the thread.
* *Assignment 4.* One thread: `select`, then the handler of each ready
  descriptor. The handlers share the slot table and the reactor's sets. The
  clients and the kernel (backlog, readiness, descriptors) act in between.
* *Assignment 3.* Two processes and a TCP connection without framing; the
  performance test opens a second channel whose address travels on the first.
* *Assignment 6.* Any number of processes call into one page and one key. There
  is no lock.
* *Assignment 2.* A shell, the one child it waits for and the pipes; copy and cmp
  are processes that share files with whatever else runs. encode and decode load
  one of two libraries and call one function.

### What is hard

`PROJECT.json` lists every hazard at its line. In short: the notification
outside the mutex and the stop protocol of Assignment 5 and the data race on
`num`; the ready set that is stale while handlers run, descriptors that are
closed but still watched, and the full slot table of Assignment 4; undelimited
fields and two unsynchronised channels in Assignment 3; unlocked
read-modify-write of the page and the key in Assignment 6, and a load whose
failures go unnoticed; pipes without a reader, or with a writer that never closes,
descriptors and arguments that one command line leaves to the next, files that are
tested and then created, and reads and a last write whose failure nobody looks at, in
Assignment 2; the
turns of a chat that a stream does not keep, and a terminal that is ready for ever.

### What makes each part correct

* Queue: mutual exclusion; no wake-up is lost; an observer sees an atomic FIFO
  queue; every item is delivered.
* Active objects and pipeline: a stop request is never missed and `run` returns;
  numbers pass the stages in order, none twice, none lost between two stages; a
  stage works on its own number.
* Reactor and server: slots, descriptors and watched set agree; no handler runs
  on a closed descriptor; a client is refused only when the table is full;
  nobody is starved; the server survives what its clients do.
* Performance test: what the server reports about a transfer is true, transfers
  are whole, both sides end.
* Encrypted memory: what is stored decrypts to what was written, through changes
  of key; whatever fails while it is loaded, nothing stays behind.
* Chats: each end shows what the other said, in order and once; a line that was
  typed arrives; never do both ends wait for each other.
* Shell: a pipe carries what the command before it wrote; a line starts with the
  terminal; no earlier line blocks a later one, also not one that was itself blocked and interrupted.
* copy and cmp: what they report about the files is true.
* Page sequence: pages are handed out in turn and all of them freed once.

## 2. The modules

`FifoQueue`, `OrderedStages`, `Channels` and `Rotation` are abstract specifications;
`Queue`, `Pipeline`, `Chat` and `PageSequence` implement them (`INSTANCE`; all four are
proved, and the first three checked as properties too). `Pipeline` uses queues whose
operations are single steps, which is what `Queue` is shown to implement. The other
modules stand alone, as the programs do. The theorems about a module are in the module
of its name with `Proofs` behind it, those about `Shell` in `Assignment2Proofs`, those
about `CharDevice` and `PageSequence` in `Assignment6Proofs`. `MCPipeline`,
`MCCharDevice`, `MCShell` and `MCFileTools` give constants values that a `.cfg` cannot
write. Each module also holds *variants*: definitions marked as mistakes the code does
not make, outside `Next`, which the properties must refute.

**Queue.** One action per lock, unlock, test, sleep, wake-up and access of
`queue_`: `ELock EPush EUnlock ENotify` for `enqueue` (lines 12-18), `DLock
DTest Relock DFront DPop DUnlock` for `dequeue` (20-28). `pc` is the line a
thread is at; a thread in `"wait"` sleeps without the mutex. `SpuriousWake` is
the standard's licence to return from a wait for no reason.

**Pipeline.** `mpc` and `k` are where `run` is; `wpc[a]` where thread a is. A
task is the rank of its number, 0 the empty task of `stop`. `num` is the one
cell all tasks share, and each use of it is an action: two reads for the prints,
a load and a store for `num += d`. `last`, `overlapped` and `wrong` are history.
The fourth active object is created, stopped and joined but never given a
number: `task3` enqueues nothing. The clock and `sleep_for` decide nothing and
are left out; so is the C++ rule that a data race is undefined altogether: the
model takes the interleavings of loads and stores.

**ReactServer.** A handler runs to its end without interruption and is one
action (`AcceptFails`, `AcceptRegisters`, `AcceptRefuses`, `Receive`,
`ReceiveError`, `Disconnect`); `Select` and `SelectFails` are `startReactor`'s
call. The clients (`Connect`, `Send`, `Leave`) and the kernel's part in them are
external: lowest free descriptor, `EBADF` for a closed one, data before the end
of a connection, one error after a reset. The mutex around the slot table is
taken by one thread only and left out. `ClientFds` holds one descriptor more
than there are clients, so that it never bounds the program.

**PerfTest.** `cpc` and `spc` are the next calls of client and server. The control
stream `wire` is a sequence of bytes known by the field they belong to; `Recv` takes all
that has arrived up to the buffer's limit, so every way in which fields can run together
happens. `sleep(0.1)` is `sleep(0)` and separates nothing. The data transfer is in
chunks through a channel of `Capacity`. Error paths that depend on the address family or
on what an earlier test left behind are `ServerCannotReceive` and `ClientSendsToNobody`;
calls that fail for want of a resource are left out. The length of the file name is
chosen at the start: the name is received over the type without being cleared or
terminated, so that a name of fewer than four characters keeps the type's tail. The test
`"none"` is a type and param that `main` takes without complaint and no branch knows:
the client leaves without a word and the server exits.

**CharDevice.** Each process runs `Read`, `Write` or `SetKey`; a write is a byte
by byte copy, then `encrypt_memory` word by word (`Load`, `Store`), a change of
key is that loop twice around `KeySet`. `clash` and `sound` are history: which
bytes were ever used by two calls at once. `CopyFails` is the `-EFAULT` path,
which leaves what it copied unencrypted. Calls that leave the page are not made.
`Module` is insmod and rmmod: a step for each call of the kernel in
`char_device_init`. `class_create`, `device_create` and `cdev_add` report failure by
values for which the three tests do not look, so that `Unchecked` goes on in
either case, and `Release` follows a pointer to a class that may not exist. Processes
call only while the module is loaded; a call between `cdev_add` and `kmalloc`, or
during rmmod, has no defined effect.

**Shell.** A line is a sequence of tokens; `Word`, `Redirect`, `Pipe`, `EndOfLine` are
the branches of the loop, `AfterPipe` and `AfterLast` what follows `waitpid`. `argv` is
the array with what earlier lines left in it: at a `|` it is passed on without a
terminator, and the command may then get old words, fail, or be anything the instance
knows (`Outcomes`): old entries point into the line buffer, which holds another line by
then, and others were never set. A program is what it reads (nothing, one unit, all) and
how much it writes; `ChildReads`, `ChildWrites`, `ChildExits` and the pipes are
external. The shell keeps both ends of every pipe open (`held`), and children inherit
them. `EndOfInput` is a failed `fgets`: the buffer still holds the first word of the
last line, of which main cuts off one character (a lone `>` where there was a `>>`, for
instance). `Interrupt` runs the handler once: the makefile asks for C11 without
extensions, with which `signal` installs a handler for one signal only, and interrupts
`fgets`. `typed`, `bare`, `asTyped` and `interrupted` are history of the line at hand;
`interrupted` is set by a Ctrl+C outside the prompt and cleared when the next line
begins.

**Chat.** Both programs in one module, with a terminal, an end of input and a socket
for each end; a line is `Pieces` units and the stream may be cut between any two.
stnc: `Poll`, `ReadStdin`, `Recv`, `RecvExits`, `BackToAccept`; partA: `Input`,
`Reply`, `Break`. partA sends what its buffer holds when its input has ended.
Resets and the end of a stream are TCP's as far as the code meets them: once there is
nothing left to read, a reset connection gives an error, or 0 when the other end had
closed before, so that stnc's server exits or goes back to `accept`. The send after a
reset ends stnc; partA looks at no result of `send` and goes on to `recv`, unless
SIGPIPE ends it. A
client of stnc that waits in the backlog types nothing.

**FileTools.** Each process has a copy or a cmp to do on the files of one disk, and
goes through stdio: `Fill` is a read of a block, or one that fails (`err`), `Flush` a
write of what fits. `may` is what its user may read, and `Opens` an `fopen` for reading:
copy takes a target that it cannot open so for one that does not exist. Whether the
target may be written is left open in `CopyCreates`. A failed read looks like an end of
file to `fgetc`'s caller, once; the next call tries again. How much
fits is left open, all of the buffer, some or nothing, each time anew: whatever else
uses the disk takes space and gives it back. Thus
copy's last bytes reach the disk in `CopyCloses`, and cmp may meet a file that
another process has emptied and not yet written. `began`, `disturbed` and `short`
are history.

**PageSequence.** Pages are addresses; `next`, `data` and `live` are the heap.
`Free` is one turn of `sequence_destroy`'s loop, every other call one action; the names
are those of the functions. `next` and `data` of a page that was never allocated are
anything, which is what `kmalloc` returns. `pages`, `turn` and `freed` are history.

**Algorithms.** Operators only, for the theorems about them: characters are signed
bytes, `Rem` is C's `%`, and a buffer is `Visible` up to its first 0. `isPrime` takes
the root as a parameter.

## 3. What TLC checks

| Run | Instance | Distinct states | Shows |
|---|---|---|---|
| `queue` | 2 producers, 2 consumers, 2 items each, 1 spurious wake-up | 44 443 | `TypeOK`, `MutexProtects`, `NoLostWakeup`, `ImplementsFifo`, `Delivered` |
| `pipeline` | 2 numbers | 328 059 | `TypeOK`, `StopNotMissed`, `NothingLost`, `AloneIsExact`, `ImplementsStages`, `Terminates` |
| `pipeline_processed` | same | | refutes `EveryNumberProcessed` |
| `pipeline_values` | same | | refutes `EveryValueRight` |
| `react_server` | 3 clients, 2 slots, backlog 2, 2 unread messages | 129 745 | `TypeOK`, `NoStaleDispatch`, `SlotsMatch`, `FdBound`, `ExitsOnlyAfterDisconnect`, `RefusedOnlyWhenFull`, `NoSenderBlocked`, `EveryClientAnswered` |
| `react_server_stays` | same | | refutes `ClientsStayConnected` |
| `perf_test` | 3 chunks, capacity 2, file names of 2 and 8 characters; every type of test, quiet or not, file of zeros or not | 11 614 | `TypeOK`, `EqualIsTrue`, `TransferWhole`, `FailsOnlyUnframed`, `KilledOnlyWhenCutShort`, `ClientEnds`, `FramedTestCompletes` |
| `perf_test_lost` | same | | refutes `LostMeansLost` |
| `char_device` | 2 processes, 2 words of 2 bytes, keys 0 and two others, 3 calls, any number of loads | 1 850 333 (up to symmetry) | `TypeOK`, `StoredUnderKey`, `NothingLeftBehind` |
| `shell` | 4 programs, 15 lines of every shape, 3 lines typed, pipes of 2 units, 4 entries of `argv` | 321 194 | `TypeOK`, `ReadsItsPredecessor`, `StartsClean`, `HarmlessLineReturns` |
| `chat` | 2 lines of 2 units at each end, 2 clients, both programs | 217 088 | `TypeOK`, `NeverBothWait`, `ImplementsChannels`, `EveryLineShown` |
| `file_tools` | 2 processes, 10 command lines (two of a user who may not read one file), 2 files, buffers of 2 bytes, any write may not fit, any read may fail | 2 690 014 (up to symmetry) | `TypeOK`, `CopyKeepsItsWord`, `CmpVerdict` |

### Where code and text disagree

* `EveryNumberProcessed`. README.md:35 of Assignment 5 says the active objects
  process the numbers and pass them on. A thread ends after the first task it
  completes once it was told to stop (`ActiveObject.hpp:33`), whatever is still
  queued, and `run` stops all of them right after the last `enqueue`.
* `EveryValueRight`. README.md:36 says each prints the number it received. All
  tasks share `num`, which the main thread overwrites.
* `ClientsStayConnected`. README.md:46 of Assignment 4 says a connected client
  can go on sending. When any client leaves, its descriptor is closed but stays
  in `read_fds`; the next `select` fails and the server exits.
* `LostMeansLost`. `stnc.c:583` reports lost packets. Over IPv4 TCP it does so
  of every file, because `receiveFile` returns 0 (821) and writes another file
  than the one whose checksum is taken (791, 573).

Also seen and not made into runs: the README of Assignment 4 promises an unlimited
number of clients, the table has ten entries; `task3` of `StPipeline` enqueues nothing
on `queue4_`; stshell dies at the second Ctrl+C, drops whatever follows the name of a
redirection, cuts a line at nine words, and at the end of its input prompts for ever;
copy says "Success" of a copy that did not fit on the disk or whose source could not be
read to the end, empties without `-f` a target that its user may write and not read and,
with `-f`, empties a file that is copied onto itself; without a third argument it
compares with a null pointer when the target exists.

What the properties of the newer modules leave out is what the code does not
promise: `StartsClean` excepts the line after one that ended in an operator, which
inherits its descriptors; `HarmlessLineReturns` excepts pipelines that wait for an
end the shell itself holds open or write more than a pipe holds, and lines during which
Ctrl+C came, but not the lines after those; `CmpVerdict`
states the one extra character and the byte 0xFF as the code has them, of files that
could be read;
`CopyKeepsItsWord` speaks of copies whose files nobody else touched, says after a failed
read only that the target is a beginning of the source, and without `-f` protects only
targets that can be opened for reading; `EqualIsTrue`
and `FramedTestCompletes` of names that cover the type.

### Bounds, and why they are enough

* `MaxItems`, two producers and two consumers: two sleeping consumers and two
  late notifications at once, the smallest case in which one wake-up can stand
  for two items. Queue's safety is proved without these bounds.
* Two numbers: each may be ahead of, behind or in the same stage as the other,
  and stop tasks fall at every place among them. The two values differ by no sum
  of the stages' increments, so a wrong value is never right by accident.
* Three clients and two slots: the table fills, a client is refused, a slot is
  reused, and two clients are ready in one pass of the loop.
* Three chunks and a capacity of two: the writer blocks, and either end may be
  the one that waits. The length of a field matters only against the limits 20
  and 1023 of `recv`; the code's lengths are used.
* Three lines in the shell: one that leaves descriptors or words behind, one that
  inherits them, and one after it: a line that blocks, the Ctrl+C that ends it, and the
line that must not be blocked by it are among them. A pipe of two units and a program that writes
  three: the smallest that blocks. Four entries of `argv` are filled by a line of
  five words.
* Two lines of two units at each end of a chat: half a line, a whole one, and parts of
  two may arrive at once; two clients: one conversation after another. `MaxSaid`
  bounds an end of partA that has no input left and echoes.
* Files of up to three bytes, buffers of two: shorter than, equal to and longer than a
  buffer; both a write in the middle and the last one may fail.
* Two words: a write of one word, of less, across both, of all. Three calls: two
  that meet and one more before or after.

`CHECK_DEADLOCK FALSE` is said where the system really stops: producers that
have sent `MaxItems` leave consumers asleep; clients that say nothing leave the
server in `select`, and a server that exited does nothing more; both sides of
a performance test may wait for each other for ever (for instance in `open` of
two differently named FIFOs), and a server that returned to `accept` waits for
another client; calls to the device are bounded; the shell may wait for a
command that never ends; chats whose ends are gone, and a copy or cmp that has
ended, do nothing more. `pipeline` keeps the
deadlock check.

### Fairness

Weak fairness of each thread's or process's next step (`FairSpec`): a scheduler
that runs whatever is not blocked. Nothing else is assumed. In `queue` no wait
is obliged to end by itself, and who gets a free mutex is not fair, since
several calls in a row by one thread are bounded by `MaxItems` and by the
queue's emptiness. In `react_server` only the server's thread is fair, clients
do as they please. In `shell` the shell and its command are fair, the user is not; in
`chat` the two programs and the connection are, the users are not. The choice between
terminal and socket is the code's own, and no fairness is assumed about it.
`FramedTestCompletes` has `[]framed` in its premise: the code
does nothing to separate the fields, so that nothing better can be promised.

## 4. What is proved

Eight modules hold theorems, for every value of the constants that the named
assumptions allow (`QueueAssumption`, `PipelineAssumption`, ...: TLC evaluates them
for each instance). They say that a capacity or a size is at least 1 where the code
has an array or a loop of it, that a page is whole words, that sets of threads and
clients are finite; none restricts what the programs do.

| Module | Theorem | States |
|---|---|---|
| `QueueProofs` | `TypeCorrect` | `Spec => []TypeOK` |
| | `MutexCorrect` | `Spec => []MutexProtects` |
| | `WakeupsCorrect` | `Spec => []NoLostWakeup` |
| | `QueueImplementsFifo` | `Spec => ImplementsFifo` |
| `PipelineProofs` | `TypeCorrect` | `Spec => []TypeOK` |
| | `StopIsSeen` | `Spec => []StopNotMissed` |
| | `KeepsNumbers` | `Spec => []NothingLost` |
| | `AloneIsRight` | `Spec => []AloneIsExact` |
| | `Implements` | `Spec => ImplementsStages` |
| | `IsPrimeCorrect` | `isPrime` finds a divisor exactly of the numbers that have one |
| `ReactServerProofs` | `TypeCorrect` | `Spec => []TypeOK` |
| | `NeverStale` | `Spec => []NoStaleDispatch` |
| | `SlotsAgree` | `Spec => []SlotsMatch` |
| | `FdsBounded` | `Spec => []FdBound` |
| | `OnlyDisconnectEnds` | `Spec => []ExitsOnlyAfterDisconnect` |
| | `RefusalJustified` | `Spec => RefusedOnlyWhenFull` |
| `PerfTestProofs` | `TypeCorrect` | `Spec => []TypeOK` |
| | `EqualMeansEqual` | `Spec => []EqualIsTrue` |
| | `TransferKeepsAll` | `Spec => []TransferWhole` |
| | `FailsUnframed` | `Spec => []FailsOnlyUnframed` |
| | `KilledCutShort` | `Spec => []KilledOnlyWhenCutShort` |
| `Assignment6Proofs` | `TypeCorrect` | `Spec => []TypeOK` |
| | `SealedUnderTheKey` | `Spec => []StoredUnderKey` |
| | `LeavesNothing` | `Spec => []NothingLeftBehind` |
| | `SequenceTypeCorrect` | `SequenceSpec => []SequenceTypeOK` |
| | `SequenceLinked` | `SequenceSpec => []Linked` |
| | `SequenceInTurn` | `SequenceSpec => []InTurn` |
| | `SequenceAccounted` | `SequenceSpec => []Accounted` |
| | `SequenceImplementsRotation` | `SequenceSpec => ImplementsRotation` |
| `Assignment2Proofs` | `TypeCorrect` | `Spec => []TypeOK` (of `Shell`) |
| | `PipesConnectNeighbours` | `Spec => []ReadsItsPredecessor` |
| | `LinesStartClean` | `Spec => []StartsClean` |
| | `CodecARoundTrip`, `CodecBRoundTrip` | what `decode` makes of `encode`'s result |
| `ChatProofs` | `TypeCorrect` | `Spec => []TypeOK` |
| | `NotBothWaiting` | `Spec => []NeverBothWait` |
| | `Implements` | `Spec => ImplementsChannels` |
| `FileToolsProofs` | `TypeCorrect` | `Spec => []TypeOK` |
| | `CopyKeepsWord` | `Spec => CopyKeepsItsWord` |
| | `CmpIsRight` | `Spec => CmpVerdict` |

Each safety theorem follows from an inductive invariant, called `IInv` in all but
`QueueProofs` (and `SequenceInv` for the page sequence) and proved in theorem
`Invariance`; TLC checked each of them on its run's instance before it was proved,
except `SequenceInv`, which has no run (see there). `TypeOK` is a part of all of them
and in none of them inductive alone. The rest of this section says what else is in them,
and why.

### Queue

The inductive invariant is `TypeOK`, `MayPush` (a producer inside `enqueue` has
an item left: the bound is tested one step before the push), `MutexProtects` and
`NoLostWakeup`. `TypeOK` is not inductive alone: `received` grows by `item[c]`,
which is an item only because `d_front` ran under the mutex with a queue that was
not empty; so `TypeInv` and `MutexProtects` are proved together. `NoLostWakeup`
counts: `Len(queue_)` is at most the number of producers that still have to
notify plus the number of consumers that are awake. `EPush` adds one to both
sides; `ENotify` takes one signaller and either adds an awake consumer or finds
nobody asleep; `DPop` takes one from both. The case worth reading is `ENotify`
when nobody waits at that moment: the invariant's premise is false, and it can
only become true again by a consumer that found the queue empty. The counting
rests on `CountOneMore` and `CountOneLess` and the library's facts on finite
sets. The refinement maps `EPush` to `Put`, `DPop` to `Take` and all else to a
stutter; that `DPop` gives away the head needs `MutexProtects`.

### Pipeline

Two layers. `Control` says where `run` and the threads can be, and `Flow(s)` is
`NothingLost` with one thing added that makes it inductive: the empty task is in a
queue only after `stop` has put it there, so that there is never a second. Queues
are written as functions of three numbers (`Numbered(a, b)`, `WithStop(a, z, b)`),
and `TasksAppend` and `TasksHead` say what adding and taking a task makes of these;
then each step of a thread is arithmetic on `last`. `Monotone`, that no stage is
ahead of the one in front of it, is a consequence. The refinement of `OrderedStages`
needs no more than this: only `Enqueue`, `Pass` and `Reprint` change `last`, each by one.

The second layer is about the shared cell. `Alone` says of a number that nobody has
overlapped that it is the last one generated, that the last stage has finished all
before it, and what `num` and, in the middle of `num += d`, the register hold at the
stage that has it. That no other thread is inside a task then is what the first layer
gives: `Flow` puts the numbers of all stages between `last[3]` and `last[0]`, and
between those there is one. `AloneIsExact` follows where a thread prints.

### Reactor and server

`IInv` is the properties and four facts that tie the tables together: the clients in
the backlog are those that wait, each once (`BacklogQueued`); only the listening
socket's handler is `acceptClient`, and it is called only while somebody waits
(`ListenerAccepts`); a connected client has exactly one descriptor (`OneFdEach`); and
`read_fds` has open descriptors only as long as nobody was disconnected
(`KnownOpen`), from which `ExitsOnlyAfterDisconnect` follows when `select` fails. Three
steps are counting arguments over the library's theorems on injections and
bijections: that `accept` finds a descriptor (`FdLeft`); that the lowest free one is
at most `ServerFd + MAX_CLIENTS` while a slot is free, since each below it takes a
different slot (`FdLow`, hence `FdBound`); and that slots and connected clients
correspond one to one when no slot is free (`RefusalJustified`, an action property).

### Performance test

Nothing frames the fields, so that the invariant has to say what may be on the wire.
`Stream`: a field is there only after the client has sent it, and its bytes lie
within its length of each other, which makes a `recv` that returns a field alone
return all of it. `Where` says which test brings the two processes where they are.
`Once`: whoever serves a transfer, or is about to, has taken the only type this client
sends, so that a later pass of the server cannot make a second transfer; without it
neither `TransferWhole` nor `EqualIsTrue` is inductive. `Framed`: while every `recv`
has returned one field, all the fields that this pass expects are still to come, or
it is a pass after the first, in which nothing is. `Amounts` and `Named` say how
much of the file is where, and that the shared file found by name is this client's.
`FailsOnlyUnframed` then reads: at the end of the stream all fields have been taken,
hence one of them with another. The steps on the wire (`SendFacts`, `RecvFacts`) are
proved once, for any field and limit.

### Encrypted memory

There is no lock, and the property speaks of bytes that no two calls used at once.
`Meeting` says that two calls in progress have each noted the bytes they share
(`clash`), `Apart` that no byte of a write in progress is sound, and no byte at all
while two processes change the key. Given those, the contents follow the program
counter of the one process that may touch them. `Written`: a writer's own bytes are
open while they are copied, and while `encrypt_memory` runs they are sealed behind the
word it is at and open from there on, under the key that is in force all the while.
`Changed`: a sound byte during a change of key is open or sealed according to the
side of that word it is on and to which of the two loops runs; between the two, all
are open. Between `Load` and `Store` the register holds what memory holds (`InReg`).
`StoredUnderKey` is what remains when nobody changes the key. The arithmetic is in
`WordInside`, `WordsCovered` and `PhaseOf` (byte j of a word meets byte j of the key,
if the write began at a whole word), and a change of key covers the page because
the page is whole words. `NothingLeftBehind` is inductive but for the types: it is
kept by the calls because they need the module loaded.

### Shell

`Clean`: a line that began with the terminal keeps it until its first operator, and
only a line with an operator is in `pipe_wait`; what `strtok` has not yet returned is
part of the line (`LeftOver`), so that a line that met an operator is one that has
one. `Chained`: the descriptor that the next command will read is the terminal or the
*last* pipe, and in that only the command run last has written; `Running`: the
command that runs is the last, writes to the last pipe or to none, and reads another
one, in which only its predecessor has written. So what a command reads is its
predecessor's (`ReadsItsPredecessor`), although the shell closes no pipe and old
ones keep what was not read.

### Chats

`Phase`: a server in `accept` has nothing left of an earlier client, and a reset comes
only from an end that is gone. `Flow`: what an end has printed and what is on its way
to it is what the other has sent. `ReceiveStep` moves a piece from one to the other,
whichever piece it is, and `SendStep` adds to the end; so every step is one of
`Channels` or a stutter; `Connect` maps to its `Reconnect`. For
`NeverBothWait`, `Turns` says that an end of partA whose input has ended has
something in its buffer to send back, unless it is the client before its first line.

### Page sequence

The four conjuncts are inductive together. `Linked` ties `head`, `tail` and `next` to
the order of writing (`pages`), `InTurn` ties `current` to a place in it, and
`Accounted` says that exactly the pages not yet freed are allocated. A write takes an
address that is not live, hence, by `Accounted`, none of the list's, so that the list
keeps no page twice; the loop of `sequence_destroy` follows `next`, which `Linked`
says is the page after, so that each is freed once, while it is live. A read maps to a
`Rotation` step because `next` of the last page, which is `NULL`, sends the reader back
to the head. `NULL` is some value outside the memory, of which there
is one (`NoSetContainsEverything`), so that no assumption is made; TLC cannot evaluate
that choice, which is why the module has no run.

### copy and cmp

Each invocation has an invariant (`Invocation`) of its own two streams and two files,
which holds for as long as nobody else has changed one of the files; what is on the
whole disk, and what the other invocations do, is not part of it. A step of one is
therefore shown twice: that it keeps its own (`CopyOpensInv`, ..., `CmpEndsInv`), and
once and for all that it keeps everybody else's (`Step`, `OthersStay`), since a step
that changes a file marks those who have it in use as disturbed.

For a copy, `InTransit`: a failed read takes nothing, and the bytes taken from the
source are the target followed by the target's buffer, and the source's buffer is what
follows them in the source. A byte that moves from one buffer to the other
(`AppendTransit`) and a buffer that is written whole (`FlushTransit`) keep it; one that
is written in part leaves a strict prefix of the source behind (`WrittenBegins`,
`ShorterPrefix`), which is the copy's last step in either case: `CopyPuts` then says
"General failure", and `CopyCloses`, which comes when no more was to be had from the
source, says "Success" whether the last write fitted or not. That all of the source has
been taken by then follows only when no read has failed (`Unfailing`); otherwise the
target is a prefix of it. Before the target is opened nothing has changed (`AsBefore`),
and a copy that goes on to open it has `-f` or cannot read what is there, which is why a
target that can be read survives without `-f`, whichever way the copy ends
(`UntouchedTruth`).

For a cmp none of whose reads has failed, `Abreast` while the loop runs: as many bytes were taken of either file,
and they agree and hold no 0xFF. It ends in one of the four ways of `Ended`: at the end of the
first file; at a 0xFF in it; at the end of the second, one byte of the first too late;
at a 0xFF in the second. `PlainVerdict` goes through them with the two characters that
`CmpEnds` compares: without a 0xFF two of the ways remain, and they make "equal" mean
the same, or one character more; `EndedAgrees` shows what "equal" still says with one.
That a buffer is what its file held when it was filled, hence still holds while the file is
left alone, is `Reads`; buffers, end of file and `fgetc` are dealt with once
(`FillReads`, `RestReads`, `NextFacts`) for any contents and any size of a block.

### Pure functions

`CodecARoundTrip` and `CodecBRoundTrip` say what `decode` makes of what a caller sees
of `encode`'s result, for every string of characters and every ASCII string, and
`IsPrimeCorrect` that for a number and its truncated root, the loop of
`isPrime` finds a divisor exactly when the number is a product of two numbers above 1.
That `std::sqrt` of an `unsigned int`, truncated, is that root is taken from the
precision of `double`.

### Only model-checked

* Liveness, for which the prover has no rules here: `Delivered`, `Terminates`,
  `NoSenderBlocked`, `EveryClientAnswered`, `ClientEnds`, `FramedTestCompletes`,
  `HarmlessLineReturns`, `EveryLineShown`.

Every safety property that a run checks is proved.

## 5. Not modelled, and why

* `partB.c`, `basic_shell.c`: drafts of `stnc.c` and `stshell.c` that no makefile
  builds. `sysfs_entry.c` refers to a structure that no file declares;
  `keyGenerator.c` is a menu around a library that is not here. `encode.c` and
  `decode.c` load a library, call it and print.
* `copyFileMmap` and `copyFilePipe` of `stnc.c`, `isEmpty`, `active_`,
  `stopReactor`, `waitForReactor`: never called or never reached.
* Lines longer than the buffers of the chats (stnc ends a full read one byte
  behind its buffer), a client of stnc that types while it waits in the backlog.
* The position that `cmp -v` prints, and what the commands of the shell do with
  their files.
* Parsing of command lines, usage messages, wording of output, time measurement.
* Exhaustion of memory, descriptors and threads, except where the code handles
  it as part of its logic (the slot table, loading the module, the disk under copy).
* Calls that reach the kernel module while it has no page, calls that leave the page,
  and a read of an empty page sequence: their effect is not defined.

## 6. Plan

Done: every part that can be built is modelled, and every invariant, every action
property and every refinement that a run checks is proved. Left: liveness stays with
TLC, and two hazards have no property, calls that leave the page and calls between
`cdev_add` and `kmalloc`. Their effect is not defined, so that a model could only say
that they can happen.
