# Formal models of Azure Sphere gallery components

The gallery is a collection of independent samples for Azure Sphere devices.
This directory holds TLA+ models, TLC instances and TLAPS proofs of those parts
that carry logic of their own and run into concurrency or failure. There are
three systems: a file system that stores telemetry on a remote disk, with the
application that forwards it; the socket and the event loop between the two
cores of the chip; and the industrial device controller, which polls devices
over Modbus and keeps a journal and a device twin in the cloud.

Contents: [inventory](#1-inventory), [plan](#2-plan), [modules and
code](#3-modules-and-the-code-they-model), [runs](#4-runs), [fairness](#5-fairness),
[proofs](#6-proofs), [only checked, not modelled](#7-only-checked-and-not-modelled).

## 1. Inventory

### 1.1 Storage: simple file system, disk host, store and forward

| Part | State | Operations | Interaction |
|---|---|---|---|
| Simple file system, `SimpleFileSystem_RemoteDisk/src/HighLevelApp/SimpleFs/sfs.c` | cached root block with directories (`firstBlock`, `head`, `tail`, `dirFull`), `_init`, `_mount` | `FS_Init`, `FS_Mount`, `FS_Format`, `FS_AddDirectory`, `FS_WriteFile`, `FS_DeleteOldestFileInDirectory`, queries and reads | two callbacks that read and write one block of 512 bytes |
| Remote disk, `remoteDiskIO.c` and `PyDiskHost.py` | `diskData`, 4 MiB in the memory of the host | one HTTP request per block | called by the callbacks |
| Store and forward, `AzureIoT_StoreAndForward/src/common/main.c` | `telemetryUploadEnabled`, `isConnected`, the files of directory `data` | a 1-second timer, a button, a twin update, the connection callback | calls the file system and the cloud client |

Hard: a file is written in several block writes and power may be lost between
them; a request or its answer may be lost; the cache and the disk must agree;
equal ring indices mean both empty and full; the order of samples must survive
switching, restarts and full directories.

Correct means: a directory is a bounded FIFO on the disk, at every moment and
not only between calls; the cached root block is the one on the disk; a write
touches no file that is kept; samples reach the cloud in the order they were
taken, at most one repeated per restart, and none leaves the store unsent
unless a newer one takes its place; no unreadable file blocks the queue.

### 1.2 Intercore: socket, RS-485 driver

| Part | State | Operations | Interaction |
|---|---|---|---|
| Socket, `RS485Driver/RTApp/Socket.c` (the same file is in `IndustrialDeviceController` and `LittleFs_SDCard`) | two rings in shared memory with one write and one read index each, a mailbox | `Socket_Open`, `Socket_Negotiate`, `Socket_Write`, `Socket_Read`, `Socket_Reset` | the A7 core writes and reads the other ends; a software interrupt announces each message |
| Driver, `RS485Driver/RTApp/main.c`, `rs485_driver.c`, `ringBuffer.c` | list of callback nodes, receive ring, static message buffer | UART interrupt, socket interrupt, 10-ms timer, three callbacks | UART to the bus, socket to the application |
| High-level driver, `RS485Driver/HLApp/rs485_hl_driver.c` | a file descriptor, a user callback | `Rs485_Init`, `Rs485_Send`, receive handler | socket |

Hard: two cores on one ring without a lock; a block may wrap anywhere; a full
ring must not look empty; interrupts are merged while a node is on the list and
each callback reads one message; buffers overflow at three places; a restarted
application negotiates new rings through a mailbox that the driver resets every
10 ms.

Correct means: one direction is a FIFO channel of whole messages; bytes from the
bus arrive in order whatever was lost; a message goes out once; no message is
forgotten while the driver sleeps.

### 1.3 Industrial device controller

The paths are under `IndustrialDeviceController/Software/HighLevelApp`.

| Part | State | Operations | Interaction |
|---|---|---|---|
| Adapter, `init/adapter.c`, `init/main.c`, `init/watchdog.c` | list of devices with schedules and errors, `provision_epoch`, `driver_state`, `pending_device`, `ready_device`, a notify timer, a pipe | provisioning, result handler, timer, shutdown; a worker thread that queries one device at a time | the two threads share the adapter under a mutex and a condition; the worker calls the driver with the mutex held and writes the epoch to the pipe |
| Modbus driver over TCP, `drivers/modbus/modbus.c`, `modbus_transport_tcp.c` | `opened`, a socket, a transaction id | `modbus_create_driver`, `modbus_open`, `modbus_get_point_list` | a Modbus server at the other end |
| IoT client, `iot/iot.c`, `iot/azure_iot_utilities.c` | one client handle, `inflight_message_size` | set up, send with a quota, report the twin | callbacks of the Azure IoT library: confirmation, connection status |
| Journal, `iot/diag.c` | `events` in memory, a file in mutable storage | log, report, remove on delivery, save before a restart, load | the client; every exit of the process |
| Device twin, `iot/diag.c`, `init/adapter.c` | what was last reported with success | report when it changed, null on provisioning | the client |

Hard: results of a former provisioning are still in the pipe when a new one
frees its devices; notifications share one slot and a condition; the schedule
is a chain that one ignored result could end; the signal at shutdown is not sent
under the mutex; the driver is opened only while a state inferred from errors
says so. An answer may come after its query gave up. A report may be lost,
repeated or confirmed after newer events were logged, the client may be set up
again with messages in flight, and an event that is in flight may still grow.

Correct means: no pointer survives what it points to, every listed device is
polled for ever, shutdown ends, no query goes through a closed driver; an answer is
never taken for that of another request, nor costs a later query; the quota is kept; an
event leaves the journal only delivered or saved, and no occurrence is counted in two
events, but for what a failed write of the file or a signal handler in the middle of a
function may do; a twin that was reported is the one the hub has, but for removed devices
whose removal never got there and for two provisionings within a second.

### 1.4 The rest of the gallery

Listed in `PROJECT.json` with the reason they are not modelled: the littlefs
samples (the file system itself is a submodule), the EAP-TLS client (sequential),
the cloud samples (logic of third-party clients), small libraries, drivers of
peripherals, tools and bindings.

## 2. Plan

Done, in this order: `SimpleFs` with `FifoStore`; `StoreAndForward` on top of it;
`IntercoreRing` with `MessageChannel`; `Rs485Driver`; `Adapter`, `ModbusTcp`,
`IotClient` with `Journal` and `DeviceTwin`, and `MCController` and `MCCloud` over them; proofs of
every safety property and action property that a passing run checks, and that the
directory, alone and under the application, implements `FifoStore`.

Next:

1. An abstract specification of the journal (occurrences that are logged, told once,
   and forgotten or kept), which `Journal` implements, with its proof.
2. The RTU transport of the Modbus driver over the real-time application of the
   controller, which shares `Socket.c` with the RS-485 driver.
3. The EAP-TLS client as a state machine over certificates and networks.

## 3. Modules and the code they model

`PROJECT.json` maps every definition to its lines; this is the outline.

**`SimpleFs`** is `sfs.c`. `disk` is the device, block 0 a record for the root
block, the others header, data or zero. `rootBlock`, `init` and `mount` are the
static variables of the file. A call that writes at most one block is one
action. `FS_WriteFile` is a first action that finds the slot and then one action
per block: `WriteData`, `WriteHeader`, `WriteDirectory`, with `op` in the place
of the local variables. `Crash` may come between any two of them, and so may the
restart of the disk host. A block write has an outcome
`[done, result]`: the instances choose between a reliable disk, one that loses
requests and answers, and one that loses blocks in silence. The contents of a
file are abstracted to its number: a data block holds the number and its index,
so a slot with blocks of two files is told from a file (`Torn`). Names are model
values with their prefix relation, for the two comparisons by prefix, including
the two places where the code finds a directory that was not asked for. The
arithmetic of `FS_AddDirectory` is kept as written, its slips included.

**`FifoStore`** is what a directory promises: a FIFO of bounded capacity. Giving
up the oldest file and adding the new one are two steps, because the code
overwrites the oldest slot before it moves the indices.

**`StoreAndForward`** extends `SimpleFs` with the application, whose one directory and
one size of files are `ApplicationAssumption`; every step of `AppNext` is a step of
the file system, or leaves it alone, joined with what the application does. `pc` runs through `InitializeFileSystem`, then `"run"`; while a file
is written (`"store"`) or deleted (`"delete"`) no other callback runs, because the
application has a single event loop. Samples are numbers in the order they were
taken. The seconds are abstracted to a choice between taking a sample and sending
a stored one. The cloud client either accepts a message or does not. `SendOldest`
ignores the result of the header's read and of the contents' read, as the code does: after
a header that could not be read, the size for `malloc` and the time for `gmtime` are those
of an uninitialised structure, so that the process may end there (`main.c:309-321`) or go on
with garbage, which it sends and deletes. The model is
of the build with assertions (`main.c:289` writes the file inside one).

**`IntercoreRing`** is one ring of `Socket.c`. A write loads the read index,
checks the space, copies unit by unit and publishes the write index; a read
loads the write index, checks size and buffer, copies unit by unit and publishes
the read index. Every copied unit of 16 bytes is a step, so the two cores
interleave there. A unit holds the message it belongs to and its place in it; a
reader that copied units of two messages gets `Mixture`. The interrupt is a step of its own
(`Socket__Signal`); interrupts that come before the handler runs are merged
(`signalled`), and `HandleSignal` is the one read of `handleRecvMsg` for all of them, while
`Socket_Read` is a read at any other time.

**`MessageChannel`** is what a ring promises: messages arrive whole, once, in
order.

**`Rs485Driver`** is the main loop of the driver. Rings of the socket are queues
of messages here, which is what `IntercoreRing` shows them to be. Callbacks run
to the end before the next one, so taking a node off the list and running its
callback are two steps, with interrupts at any point between. Answers to a baud
command are byte 0. `pending` is a negotiation in the mailbox and `linked` says
whether the socket points to the application's rings; after a restart the rings
may be at the same place or elsewhere, since the kernel decides that. A change of the baud
rate closes the UART and may fail to open it again, and what is written then is lost.

**`Adapter`** is `adapter.c` with the start and the end of `main.c`. The mutex is
held exactly while `worker = "querying"`, so every other critical section is one
step and a query is the two steps that begin and end it. `pipe` holds the epochs
of results that the event loop has not read; `timer` is the notify timer.
`device_worker_thread` is split where it takes the mutex (`WorkerLoop`,
`WorkerLock`), because `adapter_deinit` signals in between without it. Schedules
are relative to the present and `Tick` moves it. Error codes come from the
driver and `DriverStateOf` is `infer_driver_state`. A provisioning document is its
epoch, whether it is valid, and its list of devices; one without an epoch leaves the
variable of `adapter_provision` uninitialised, and the model lets it be any
epoch. `saved` is the document in mutable storage after a save that may fail at
either of its writes; an intact one may still fail to load at the start, on a read or an
allocation.

**`ModbusTcp`** is the driver with its TCP transport, the socket and the server.
A query sends `Requests` requests and reads the answer to each in two parts; its
timeout may expire before each. `asked` are the requests the server has not
answered, `inbox` the answers in the socket, each with its id and with
whether it answers the request in progress (`own`, a history variable). A
timeout between the two parts of an answer leaves the socket out of step
(`skewed`): what is read next is not an answer from its beginning, and the
properties except it as the code cannot tell.

**`IotClient`** is the client that `Journal` and `DeviceTwin` extend: messages in
flight are received by the hub and confirmed in order, or fail, and the quota
counts them (`used`, which `QuotaKept` compares with the sum `SizeOf`).

**`Journal`** is the journal of events. An event stands for the set of
its occurrences, numbered in the order of the clock: the time stamp of the code is
the last one, its repetitions their number, and `told` is what the hub got. `file` is what
is in mutable storage: the count in the header and the contents behind it, of which the
count may be wrong. `save_events_to_file` makes two writes and drops both results
(`diag.c:217-222`), so a save is whole (`Saves`) or in part (`SavesInPart`: the old header over
new events, the new header over some old ones, or a file in which nothing is
found), and the memory is emptied either way; `clear_event_file` drops the result of its
write too, so the events of a file that was loaded may be loaded again (`Cleared`). Power may
fail between the two writes (`PowerFailsInSave`). The watchdog's signal handler logs, and
functions other than `log_event_internal` hold no lock against it: `ReportInterrupted` has it between
the message, the copy of the time stamp and the flip (`diag.c:255-272`), `RemovalInterrupted`
and `WatchdogInRemoval` inside the `memmove` of a removal, `LogEvent` and `Watchdog`
between functions. `marred` is a history variable: the occurrences that such a write or such a
handler touched.

**`DeviceTwin`** has `reported` for the copy of the twin that
`device_twin_reported` keeps, and `hub` for the hub's, into which a report is merged
(`Merged`): names that it does not list stay, and only the null of a
provisioning removes the section. `adapter_provision` drops the result of that report
(`adapter.c:1048`), so `orphans` collects the names that were listed when a null was refused by
the client or lost in flight, and those that a restart lists, which sends none. A twin
carries its times in seconds (`diag.c:390`), so `NewStamp` may leave the stamp as it was, which
`shared` says.

**`MCController`** puts the adapter, the TCP driver and the ring into one run, **`MCCloud`** the
journal and the twin. They meet little: the adapter takes any error code from the driver and
relies on queries to end, the ring takes messages of any size, the journal and the twin take
any refusal of the client they share. So each part is checked under what it assumes of
the others, and a behaviour has the steps of the part it chooses at the start (`part`);
their product would multiply the states and add no interaction. What the adapter
assumes, `QueryEnds`, is a property of the driver's part in the same run. The journal counts
its occurrences, so its part may stop at the bound (`AtBound`).

## 4. Runs

| Run | Shows | Instance | States |
|---|---|---|---|
| `SimpleFsFifo` | the directory refines `FifoStore` through every loss of power; cache and disk agree; a returned write is stored | quota 2, files of 0, 1 and 2 data blocks, 5 writes; answers lost, reads that fail | 187 k |
| `SimpleFsFaults` | root block intact, rings well-formed, kept files untouched under every fault | two directories of quota 2 and 3, one ambiguous name, 3 writes | 775 k |
| `SimpleFsOverlap` (violation) | a second directory shares blocks with the first | as above, reliable writes | |
| `SimpleFsWriteFailure` (violation) | a failed data write is not reported | quota 2 | |
| `StoreAndForward` | order, repeats, no early deletion, draining | quota 3, 5 samples, 2 restarts | 59 k |
| `StoreAndForwardFaults` | callbacks do not interleave with a write; nothing blocks the queue | quota 2, 3 samples, silent losses, failing reads, host restarts | 225 k |
| `StoreAndForwardLostBlocks` (violation) | one block lost in silence breaks the order | quota 3, 5 samples | |
| `Rs485Driver` | order of bytes, single sending, nothing left behind | receive ring 4 with flush above 2, payload 2, UART 2, 3 bytes, 3 messages, 1 restart | 3.4 M |
| `Rs485Flush` (violation) | the flush of an overfull ring loses it | ring 6, flush above 4, payload 3 | |
| `IndustrialController` | adapter: no dangling pointer, a live and single chain, no lost wakeup, open driver, polling and shutdown; driver: late answers; ring: channel, full and empty, undisturbed reads, reading one by one; the types of the three | 3 devices in two documents and an invalid one, lateness 1, backlog 2; 5 ids, 2 requests, 2 answers outstanding; 12 units, sizes 0, 8, 60, 100, 1041, buffers 60 and 100, 4 messages | 160 k |
| `Cloud` | client: quota; journal: nothing lost or counted twice; twin: hub agrees; the types | quota 3; one code besides those the code logs itself, 3 events in memory, 2 in the file, 5 occurrences; 1 device name, reports of size 2, 4 stamps | 1.6 M |
| `JournalSavedTwice` (violation) | a second save overwrites the first | quota 4, 3 events in memory and in the file, 6 occurrences | |

Why the bounds are enough. A ring of two slots with five writes goes through
empty, partly filled, full, the wrap of both indices, and overwriting twice; three
slots with five samples have a file behind and before the one that is lost. Files of
zero, one and two data blocks are the cases of the block arithmetic. Twelve units
hold two of the blocks of 2, 6 and 8 units at most, so writes are refused for one
unit short, blocks wrap at several places, and the sizes 0 and 1041 are the two
refused by themselves; the buffer of 60 just fits one message and leaves that of 100 in the ring.
For the driver the order of the real sizes is kept: the UART buffer (32) is
smaller than a payload (1040), which is not larger than the flush level (2000),
which is smaller than the ring (2048); two unread messages of the application and
one restart are what merged interrupts and stale buffers need. For the controller, one document lists two devices and the other one, so lists are
replaced by others of another length; the invalid document withdraws them. Queries
are not counted; `MaxLate` 1 tells a missed schedule
from one that is due, and `MaxBacklog` 2 leaves a result of a former epoch unread behind
another when the next provisioning comes, and lets an epoch come back meanwhile. Five
ids are two more than can be outstanding, so that they wrap without an id as old as
there are ids, which is a guard (`Ageless`; the code has 65536). A quota of
3 with messages of 1 and 2 refuses and admits; three events in memory overflow, the
file takes one less, and five occurrences leave two to be logged while a report of
the first is in flight and one after a restart. Four stamps are the seconds of two provisionings
and two connections, and each second may be shared by more of them; one name is listed, removed,
and listed again. Counters
(`MaxWrites`, `MaxSamples`, `MaxMessages`, `MaxBytes`, `MaxCrashes`, `MaxRestarts`,
`MaxLogs`, `MaxStamps`) only end the run.

What the violations show, in short: the first block of a new directory is computed
from its own size and the number of directories (`sfs.c:194-203`); `FS_WriteFile`
drops the results of all writes but the last (`sfs.c:728`, `:732`) although the README
says it reports them; `WriteBlock` of store and forward always answers 0, so a lost
block makes an old sample overtake; the flush at 2000 bytes exceeds the 1040 bytes
that `Socket_Write` takes; a journal that was saved for a reboot is saved again, over
the first file, by the `SIGTERM` that follows (`diag.c:203-224`). `PROJECT.json`
quotes the lines.

Results that hold only with a condition, which the formulas state:
`OrderPreserved` excepts a restart in the middle of a write into a full directory,
after which the oldest slot holds the newest sample or none; `NoneLeftBehind`
assumes that the application has at most one message under way and that the socket
has its rings. `KeptUntilAccepted` is checked with reads that succeed: a read that
fails at start-up makes `InitializeFileSystem` format the disk. `OneChain` excepts a
provisioning that brings back the epoch of an unread result, which then starts a second
chain. `AnswersAreOwn` and `LateAnswersAreHarmless` except a socket that is read out of
step and ids that have wrapped. `EveryDevicePolled` speaks of devices that stay listed. `SentOneByOneIsRead` assumes a
writer that waits for each message to be read and sends none that is longer than the reader's
buffer; with more than one under way the handler may leave one in the ring until the next
interrupt, and a longer one blocks the ring. `LeavesDeliveredOrSaved` and `ReportsAgree` except
the occurrences that are `marred`, the former also those from before the clock was set.
`TwinFaithful` lets the hub keep devices that are `orphans`, and excepts a twin whose second
stands for two provisionings or connections (`shared`).

Each property of a passing run has a mutant, an operator just before the one it
replaces, with the slip it stands for in its comment; the property fails under it.

## 5. Fairness

Safety runs need none. `StoreAndForward`: the process goes on with start-up, a
write and a deletion it began (one sequential thread), and `SendOldest` is weakly
fair: the timer fires each second, four of five ticks upload, and the client
accepts again and again. Nothing is assumed of the switch, the connection or
restarts; `Drained` and `NeverBlocked` speak of behaviours where the device finally
stays connected with the upload on, and `NeverBlocked` of those where the process does not end,
as it may at an unreadable header. `IndustrialController`: a core finishes a call of the
socket that it began, with its interrupt, and the reader's main loop runs the handler of an
interrupt that is pending, which reads once; nothing else makes it read. The main thread and the worker run (`MainStep`, `WorkerStep`: a query that was begun ends,
which `QueryEnds` justifies), time passes (`Tick`), the watchdog is a timer of the
system that nothing stops, the application is started again, and a query goes on to
its timeout, which the code reads from a clock. The hub, the server, faults,
`SIGTERM` and spurious wakeups owe nothing. `NoneLeftBehind` is a
safety property written with two boxes and needs no fairness.

## 6. Proofs

TLAPS checks all of these with Z3, Zenon and LS4. The assumptions are those of the
modules: the disk has at least one block, a name is a prefix of itself, outcomes
include success; the application asks for one directory and writes files of one size;
the ring's capacity is a positive multiple of 16; intervals are
positive, the devices of a document distinct, and queries may succeed or time out;
quotas, capacities and bounds are natural numbers, the size of a twin is positive.

`SimpleFsProofs`, for every disk, directories, sizes and outcomes:

* `TypeCorrect`: the types of the variables, with block 0 always a root block.
* `RootBlocksWellFormed`: the ring of every directory, in memory and on disk, is in
  range, fits on the device, and a full one has `head = tail`.
* `FilesKeptUntouched`: no step of a write touches a block that its directory keeps.

Types alone are not inductive: that a file is not written over block 0 needs
`firstBlock >= 1`, and that it stays on the device needs the ring in range and
`size <= maxFileSize`. `IInv` therefore joins the types, the well-formedness of both
root blocks and `OpOK`, which ties a write in progress to a directory of the cache.
The third theorem adds that slots do not overlap (`SlotsApart`) and that the
head is not among the slots in use (`HeadNotInUse`).

On a disk that keeps the blocks it is sent (`DiskKeepsBlocks`: requests arrive and the
disk host goes on; answers may be lost and reads may fail):

* `CacheIsOnDisk`: the cached root block of a mounted file system is the one on the disk.
* `DirectoryIsFifo`: if clients ask for one directory only (`OneDirectoryAsked`), it
  implements `FifoStore`, block write by block write and over losses of power.
* `ReturnedIsStored`: a call of `FS_WriteFile` that returned has stored its file, whole,
  as the newest.

Neither hypothesis can be dropped: a block lost in silence lets an old sample overtake
(`StoreAndForwardLostBlocks`), and a second directory may own blocks of the first
(`SimpleFsOverlap`). What `FifoStore` sees of the disk is the file that each slot in use
holds, or `Torn`, so `FifoInv` adds to `IInv`: the cache is the
disk's root block; the directory stands right behind it with the entry asked for
(`OneDirectoryOnDisk`); no block is newer than the newest file (`FileBlocksOK`); and of a
write in progress the blocks up to `next` are written, no block outside its slot has its
number, and the header has it once all data blocks do (`WriteInProgress`). A step of a
write into a full directory then changes the oldest slot only, to torn or to the new file,
and the root block written last adds the new file at the end. Mounting and adding the
directory leave `Stored` as it was because the entry is the one on the disk.

`StoreAndForwardProofs`, for every quota and any number of samples and restarts:

* `AppTypeCorrect`, under every fault: no callback runs while a file is half written, and
  the cloud gets samples that were taken, or garbage. Its invariant is `IInv` with the sizes
  of the directory (`DiskSized`) and the numbers in data blocks (`FilesCounted`).
* `SamplesInOrder`, `SentTwiceByRestartsOnly`, `SamplesKeptUntilAccepted` on a disk that
  keeps its blocks and answers reads (`ReadsAnswered`, since a read that fails at start-up
  is followed by a format).
* `SamplesAreFifo`: under the application too, which numbers samples that it sends at once
  and never stores, the directory implements `FifoStore`.

`AppInv` joins `FifoInv`, how far the process is (`ProcessState`: a format
is reached only with an empty store, for which `RootSigned` is needed), that a file being deleted
was sent last (`SentBeforeDeleted`), and, until a restart interrupts a write, the order:
of the stored samples without the one that a write gives up (`StoreInOrder`), of those sent
(`SentInOrder`: none is newer than a stored one, and only the oldest stored one may
be the last one sent), and of their number (`RepeatsBounded`: a repetition that is still
possible, `SentAgain`, is paid for by a restart already). The steps of the application on
the disk are first reduced to what they do to the sequence `Stored` (`SampleStep`), so that
the argument about the order is about two sequences and not about blocks.

`AdapterProofs`, for every set of devices, intervals, documents and bounds:

* `TypeCorrect`, `DanglesNever`, `ChainNeverEnds`, `WakeupNeverLost`, `OpenedFirst`: the
  types and the four safety invariants of the adapter.
* `NoChainBegins`: the action property `OneChain`.

Each leans on the others. The chain goes on after a result because the device of the result is
still listed, so that there is a next one; `ready` gets a listed device because a
worker that queries has a pending one (`QueryingOne`); the driver is open because a device
with an error other than `INVALID` was queried through it (`QueriedOpen`). They are
proved as one invariant `Inv == TypeOK /\ Scheduled /\ Working /\ Driving`. That
`NextToRun` is a listed device needs the least of a set of numbers, for which the
library's well-foundedness of `<` on `Nat` is cited.

`OneChain` follows step by step: a result that is handled gives way to a timer or a pending
device, a timer to a pending device, a pending device to a result, and a provisioning cancels
the timer and leaves one device pending. The unread results of the present epoch are
counted by the places they have in the pipe; posting adds a place, and reading is a
bijection of the others onto the places one nearer to the head (`PlacesAppend`, `PlacesTail`).

`ModbusTcpProofs`, for any number of ids and of requests above zero:

* `TypeCorrect`: the types, with ids below their number.
* `OwnAnswersOnly`: what a query takes is an answer to a request of its own.
* `LateAnswersCostNothing`: the action property on protocol errors.

The invariant says that an answer that is not to the request in progress has another id
(`Told`, of what is asked and of what is in the socket). It holds when a request
is sent because no id is as old as there are ids (`Ageless`, the guard above).

`JournalProofs`, for any codes, capacities, quota and number of occurrences:

* `CountedOnce`: the hub never counts an occurrence in two events, unless it is marred.
  Up to marred occurrences (`Disjoint`), what was reported or is
  in flight is disjoint from, or equal to, each event of the memory, of the file and of what is
  behind the file's header; only the last event of a list can still grow, and while it
  can, none of its occurrences was reported, since a report marks it. The memory and the
  file share none but marred ones.
* `JournalTypeCorrect`, `JournalQuotaKept`: the types with the capacity of the memory, and that
  `used` is the size of what is in flight (`ClientInv`).
* `LeavesForHubOrFile`: the action property `LeavesDeliveredOrSaved`. `remove_events_upto`
  compares time stamps only, so that `Answered` must say of every report in flight, whatever
  was logged or reported after it, that an event not later than its stamp is one of
  its entries or marred (`Names`), and that the hub has the entries if it received it. An event
  logged later has a later stamp, for which times are the last occurrence, in an order in which
  those from before the clock was set come first; `NoneEmpty` says that there is a last one.

The faults need no case of their own beyond the step that makes them: whatever a failed write
brings back from the file, or a handler leaves in the list, consists of marred occurrences, which
agree with anything. That the contents behind the header say nothing of occurrences to come
(`Past`) is what makes an old file harmless to events that are logged afterwards.

The size in flight is a sum over a sequence, a recursive function. What the proofs need,
that sending adds to it and confirming takes off one summand wherever it stands (`AppendSize`,
`RemoveSize`), is shown without an induction theorem: two sums that
agree at 0 and grow alike would differ first at a least place, and there is none (`NatMin`,
`TotalsAgree`).

`DeviceTwinProofs`, for any number of stamps and sizes, with the client's lemmas of `JournalProofs`:

* `ReportedIsInTheHub`: whatever was sent before the present stamp carries an older one, and so
  does what was reported, unless the stamp is shared; from the first report with it on, all
  that is in flight has it (`InOrder`), and the hub shows the last one it received (`AsReceived`)
  or the one that was confirmed last (`AsReported`), with every device it lists. Every other name
  that the hub has, or is about to merge, is listed, an orphan, or removed by an unread null
  behind it (`NamesInv`).
* `TwinTypeCorrect`, `TwinQuotaKept`: the types, and the quota over reports that a destroyed
  client never calls back.

`Rs485DriverProofs`, for all sizes that the module's assumption admits:

* `TypeCorrect`, with a byte to spare in the ring and no node listed twice.
* `BytesArriveInOrder`: a byte that went on is before every byte that comes later; the
  invariant `Ordered` says so of each neighbour along the path UART, ring,
  socket, application.
* `MessagesGoOutOnce`: messages are numbered along the queue, and until the first restart
  every call of `handleRecvMsg` finds one, so that the static buffer is never stale
  (`Numbered`, `Awaited`).
* `NoMessageIsLeft`: while at most one message is unread, it has its callback on the list
  or taken off it to run (`Announced`).

`IntercoreRingProofs`, for every capacity and all sizes:

* `RingTypeCorrect`: `RingTypeOK`, with no `Mixture` ever received.
* `FullNeverLooksEmpty`: equal indices exactly when everything sent was received.
* `ReadsAreUndisturbed`: the writer stores to no unit of the message being copied.
* `RingIsChannel`: every step is a step of `MessageChannel` or a stutter.

The invariant counts units: `Written` and `Consumed` are the units sent and read so
far, `Used` their difference, less than the ring. A message not yet read stands at
the read index plus the units sent before it that are unread (`Contents`), the
message being written at the write index (`WriterOK`), and what was copied out is a
prefix of the first unread message (`ReaderOK`). Since unread units and those being
written together are less than the ring, no two of them share a place (`WrapApart`).

## 7. Only checked, and not modelled

Model-checked and not proved: the liveness properties (`Drained`, `NeverBlocked`,
`SentOneByOneIsRead`, `EveryDevicePolled`, `ShutdownEnds`, `QueryEnds`), which are out of the
prover's reach. The violations are TLC's counterexamples; where a theorem of section 6 has
a hypothesis, they show what becomes of the property without it.

Not modelled, besides the components of 1.4:

* Storage: the HTTP exchange of a block (its outcomes are); file names and times; the
  reading calls as steps (they change no state; what they would return is `FilesOf`); the
  limit of 15 directories.
* Intercore: the mailbox of the socket word by word; sanity checks on indices in shared
  memory that a faulty peer wrote; transmission on the bus, whose result the driver only
  logs; the real-time application of the controller.
* Drivers: the RTU transport and `init/ipc.c`; the batching and decoding of registers
  (`modbus.c:779`); the telemetry made of the values; a slow connection that leaks its
  socket (`modbus_close` tests `!opened`, `modbus.c:841-854`). A broken connection over TCP is
  reopened only by a provisioning, since `driver_state` does not become
  `DRIVER_STATE_INIT` again after a query; the model has this, and no property says
  otherwise.
* Cloud: the Azure IoT library, taken to confirm messages in order, and the state of the
  network, since a refusal may always happen; diagnostic values, the log upload and the
  LEDs, which are overwritten in place.
* Provisioning documents that share devices, and a clock that is stepped back.
* The events that are found behind a header that was not written, where the new events stand
  across the boundaries of the old ones: the model finds none there. The watchdog's
  signal handler in functions of `diag.c` other than a report and a removal, where its steps are
  those between functions, because the lock of `log_event_internal` is tried.
* Nothing is stated of a message longer than the only buffer of the driver, which blocks those
  behind it: the model of the ring has the refusal.
