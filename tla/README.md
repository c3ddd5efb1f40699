# Verification of the IDG data redistribution programs

The repository is a collection of deployment scripts around one program
system of its own: IDG (`src/idg`), a client/server/storage system in C that
redistributes a set of report items between storage hosts. This directory
models that system in TLA+, model-checks small instances with TLC and proves
theorems about all instances with TLAPS.

## 1. The system

A run of IDG has one **server**, `CLIENT_COUNT` (3) **clients** and
`STORAGE_COUNT` (2) **storages**, each a process on its own host.

1. The server accepts one connection per client, reads the index file, sorts it
   and cuts it into one part per client. An index item says: *move this item
   from storage `index1` to storage `index2`.*
2. One server thread per client sends the part, waits until the client has
   connected to all storages, waits at a barrier for the other threads, and
   tells the client to start.
3. In the data phase a client asks every storage for the items it has to move
   (*read requests*), receives them, and forwards each to its destination.
   It reports its progress to the server.
4. When everything is sent the client closes its connections to the storages,
   sends a last report, and asks for a new task. The server ends when every
   client has finished.

### Inventory

| component | source | state | operations | hard part |
|---|---|---|---|---|
| client, data phase | `idg_client.c` 223-340, 484-620 | per storage: `sockfd`, a `TSendBuffer` (read requests `heads[]`, `buffer_count`, `to_send`, `recv_count`, `send_count`, flags `sending`, `recving`); `recv_running`, `send_running` | receive threads, send threads, monitor loop of `main()`, joining and closing | threads sharing connections through flags; counters updated by one kind of thread and read by others; blocking in the middle of a frame; a connection failing under a thread |
| client, session with the server | `idg_client.c` 88-221, 343-467, 613-638 | `server_socket`, `index_head`, `index_items`, ranges, heads | connect, read the index, connect to the storages, ready, start, reports, last report, retry after 3 s | failing in the middle; what a failed session leaves behind |
| storage, threads | `idg_storage.c` 109-222 | per slot: `sockfd`, `heads[]` (replies to send), flags | receive thread (read requests and data), send thread (replies in chunks of at most `REPORT_MTU_COUNT`) | two receive threads serve all clients; client closes with data in flight |
| storage, connection pool | `idg_storage.c` 225-365 | the slots | accept into a free slot, clear the slot, give up after an hour | slot and descriptor reuse while threads still work on the old connection |
| server, `main()` | `idg_server.c` 112-330, 428-599 | `clients[]`, `sending_count`, index | collect the clients, read and sort the index, start the threads, wait for the initialisation, progress loop | waiting without a timeout; the result is read from a field that threads overwrite |
| server, client threads | `idg_server.c` 333-425 | `clients[i].progress`, `sending_count` | send the part, wait for ready, barrier, start, progress | barrier, `free()` of the shared index, every failure path |
| buffers, flags, block transfer | `idg_common.c` | - | lock flags, counters, heads, send and receive of whole blocks | partial reads and writes, timeouts, ends of file |
| index arithmetic | `idg_server.c` 234-330, `idg_client.c` 133-200, 443-463 | - | sort, cut into parts and ranges, group by destination | boundaries: fewer items than clients, empty ranges, float division |
| host table generator | `load_host.c` | `idg_common.h`, `temp.h` | reads a host file, edits the header into `temp.h`, copies it back | the header is emptied before it is rewritten; a run may be killed anywhere |
| throughput test pair | `test_client.c`, `test_server.c`, `test_common.*` | one connection | streams blocks | as block transfer |
| deployment | `sodero.sh`, `*.yml`, `*.sh` | files on hosts | runs commands on hosts | none of its own |
| vendored and data | `mlnx/`, `agent/`, `osu/`, `ssh/`, `doc/`, `controller.log` | - | - | not code of this project |

What makes them correct, in a sentence each:

- *data phase*: no two threads share a direction of a connection; framing is
  never lost; no item is lost, duplicated or misdirected; a session is called
  complete only when everything was sent; without faults it does complete; with
  faults it still ends.
- *storage*: reads everything sent before a close; gives the slot back.
- *server*: nobody starts before everybody is ready; the index is not used
  after it is freed; errors are not overlooked; the server ends.
- *pool*: one connection per slot, its state belongs to it alone.
- *index arithmetic*: every item belongs to exactly one client and one range (to
  one client, but for item 0 of fewer items than clients).
- *task loop of the client*: a session starts from clean buffers, closes what it
  opened, and the client asks for the next task.
- *block transfer*: a call returns the whole of its block or fails, at both ends,
  and ends in any case.
- *host table*: the header describes the host file and the client starts with it,
  and one whole copy of it exists at any time.

How they interact: TCP connections client-server (one per session) and
client-storage (one per client and storage), and, inside a process, threads
sharing the `TSendBuffer`s under `status_mutex`. Modules for the two kinds of
connection meet at one point: what happens between the start command and the
last report is the data phase.

## 2. The modules

| module | what it is |
|---|---|
| `Wire` | the client-storage connections: streams of frames, ends, resets, faults |
| `ClientRelay` | the client in the data phase: `recv_thread_routine`, `send_thread_routine`, monitor loop and end of `main()` |
| `StorageNode` | the storage's `recv_thread_routine` and `send_thread_routine` |
| `Transfer` | the composition: `Next`, fairness, the type invariant, mutual exclusion, framing |
| `TransferProps` | where the items are (conservation, completion), liveness, and the mapping to `Relay` |
| `Relay` | abstract specification: what a client promises its server |
| `TransferProofs` | proofs about `Transfer` (types, mutual exclusion, framing) and `TransferProps` (conservation, completion, the refinement of `Relay`) |
| `SumsAndLoops` | lemmas about sums over finite sets and about the loops of `IndexLoops` |
| `IdgServer` | server and client sessions: accepting, barrier, progress, result |
| `IdgServerProofs` | proofs about `IdgServer` |
| `StoragePool` | the storage's slots: accept, clear, close, unlock, descriptor numbers, end of the process |
| `StoragePoolProofs` | proofs about `StoragePool` |
| `IndexLoops` | the loops of a client that make ranges and read requests of its part of the index, as functions |
| `IndexMath` | the loops of the server that number the items and cut the index into parts |
| `IndexFlow` | the way of an index from its file to the read requests of the clients |
| `IndexFlowProofs` | proofs about `IndexFlow` and the arithmetic of `IndexMath` |
| `ClientSession` | the task loop of the client, and what a failed session leaves behind |
| `ClientSessionProofs` | proofs about `ClientSession` |
| `BlockIO` | the loops of the send and receive functions, byte by byte |
| `UnitPipe` | abstract specification: units pass as a whole or not at all |
| `BlockIOProofs` | proofs about `BlockIO` |
| `LoadHost` | `load_host.c`: host file to header, killed anywhere |
| `LoadHostProofs` | proofs about `LoadHost` |
| `MCTransfer`, `MCServer`, `MCPool`, `MCIndex`, `MCSession`, `MCBlockIO`, `MCLoadHost` | instances for TLC |

How they hang together: `BlockIO` implements `UnitPipe`, which is what `Wire`
takes for granted of a connection; `Wire`, `ClientRelay` and `StorageNode`
compose to `Transfer`, which implements `Relay`, which is what `IdgServer` takes
for granted of a client at work. `IndexLoops` yields the read requests that
`Transfer` gets as a constant: `MCTransfer` computes those of the empty range
with it; `IndexMath`, `IndexFlow` and `ClientSession` are its users. `StoragePool` refines the
steps that `StorageNode` takes as one.

`PROJECT.json` maps every definition to the lines it models.

### 2.1 The data phase (`Wire`, `ClientRelay`, `StorageNode`, `Transfer`)

*State.* `up[c][s]`, `down[c][s]` are the two directions of the connection of
client `c` and storage `s`, sequences of *units*: a `TReportHead`, or the block
of items a head announces. `cfd`, `sfd` say whether each side's descriptor is
open. `recving`, `sending` are the flags of the `TSendBuffer` on each side;
`heads`, `buffered`, `recvCount`, `sendCount` its counters (`heads`,
`buffer_count`, `recv_count`, `send_count`) and `replies` the heads on the
storage's side. `cr`, `cs`, `sr`, `ss` are the threads: a `pc`, the connection a
thread works on, and the head it has in hand. `mon` is `main()` in its loop.
`delivered` counts the items a storage has read, a count the code prints only.

*Actions.* One action per call that can block or be seen by another thread:
`...Begin` is the pass over the connections up to the flag it takes
(`recv_check_and_lock`, `send_check_and_lock`, `fetch_send_count`,
`fetch_send_head`), `...Head` and `...Items` the calls that move a head and a
block, `ClientRecvCount` the update of `recv_count` after `buffer_count`,
`...Close` and `...Fail` the two error paths (the thread that finds the
connection open closes it and sets `sockfd` to -1; one that finds it closed by a
sibling returns), `...Exit` the end of the loop when `recv_running` or
`send_running` is 0. `MonitorScan` reads one connection per step, as the code
does under `status_mutex`; `MonitorTest` is the loop condition, `MonitorReport`
and `MonitorServerLost` the report, `ClientFinish` the joins, the closes and
the last report.

*Faults.* `ConnReset` (the network, bounded by `MaxFaults`; or a close with
unread data on the way, unbounded as TCP does it) loses a suffix of both
directions; `...Timeout` is `RECV_TIMEOUT`/`SEND_TIMEOUT` in the middle of a
frame; `...SendKilled` is SIGPIPE, which no program handles;
`MonitorServerLost` is a failed report.

*Abstractions.* Items have no content, only counts per route. Streams are
units, not bytes: `recv_data_non_block` and `send_data_non_block` loop until a
block is complete, so another thread can see a block only as begun or done;
`Cap` stands for the socket buffers of both ends. A pass over the connections
visits them in any order (the code's order is one of those). A pass that finds
nothing is a stutter. `close()`, `sockfd = -1` and the unlock of the flag are
one step: within the data phase no descriptor or slot is reused, so the order
can only be seen by a thread that is about to fail on the connection anyway
(`StoragePool` is about the rest). `FD_SET` with a descriptor that
became -1 between test and use is undefined behaviour and is not modelled. A
thread may begin one more frame after `..._running` became 0, as in the code. A
process crash shows as closed connections (no half-open TCP). `ClientFinish`
merges joins, closes and report: nothing of the client moves any more then.

### 2.2 What a client promises (`Relay`)

`Relay` knows only counts: items fetched from a source, held for a destination,
forwarded. `TransferProps` maps `Transfer` to it (`R == INSTANCE Relay WITH
...`): an item is fetched when it is in a buffer (`recv_count` lags one step
behind `buffer_count`), held until the call that sends its chunk returns, and
forwarded when `send_count` says so. Faults of the data phase are steps of
`Relay` too (`Lose`, `Killed`, `ServerLost`), so the refinement is checked with
faults on. The one clause with teeth is `End`: "complete" while the server
listens means that every item was forwarded.

### 2.3 The server and its clients (`IdgServer`)

*State.* `mpc` is `main()` of the server, `tpc[i]` the thread of slot `i`,
`slot`, `progress`, `sendingCount` the variables of the code, `freed` whether
`index_items` was freed, `scan`, `finished`, `hasError` the locals of the
progress loop. A *session* is one connection of a client process; `cpc[x]` is
where its client is, or how it ended. A client that crashed comes back as
another session. `toClient`, `toServer` are the streams, `copen`, `sopen` the two
ends, `backlog` the connections not accepted yet.

*Actions.* `Accept`, `LoadIndex`, `Spawn`, `InitComplete`, `ScanSlot`,
`ScanAgain`, `Finish` are `main()`; `SendHead`, `SendItems`, `AwaitReady`,
`CountDown`, `PassBarrier`, `SendStart`, `ReadProgress` the thread; the client
connects, receives, sets up its storages (or fails to), says ready, starts, works
(`Work` counts items sent), reports, ends, or crashes. The server's calls on a
connection whose client is gone have the outcomes they can have: the data is
taken and lost, the call fails, or SIGPIPE ends the server.

*The data phase here* is `sent`: it grows one by one, `complete` is reached with
everything sent, `error` at any time. That is what `Relay` promises. Everything is
`Asked`: the `Items` of the part and `Extra` more, one for each storage that has
none in it and is asked for one all the same (`idg_client.c:446-462`). The reports
count them (543, 581), the last one has the size of the part (616): the progress
of a client that completes may go back, and `ProgressGrows` says that it does so
only then.

`StartTogether` is about the whole barrier, not the count alone: when one client
is told to start, every slot has a client (which an `accept()` that found nobody
would break), and each has answered or is gone.

`AcceptNothing` is the `accept()` that finds its client gone: it leaves the loop
that collects the clients, so that the remaining slots have no connection.
`ServerGivesUp` is the error path of `main()` before the threads exist.

*Abstractions.* The index has no content; reading and sorting are one step that
may fail. Every session starts afresh (`ClientSession` is about those that do
not). `MaxReports` bounds the reports on their way.

### 2.4 The pool of a storage (`StoragePool`)

*State.* `sockfd`, `recving`, `sending`, `count` are the fields of the slots,
`file` what the kernel knows of a descriptor, `th` the threads (where they are,
their slot, the descriptor they passed to the call they are in), `main` the
accept loop, `running` is `storage_running`. Connections connect, send frames
and leave as they like. `asker` and `raced` are auxiliary: whose request a count
is, and whether an accept has met a thread at work on the slot, or a call on the
number, that it hands out.

*Actions.* Steps as fine as shared memory makes them: `Look` reads `sockfd`
before `Lock` takes the flag; `CloseSlot`, `ResetSlot`, `Unlock` are the three
steps of an error path; `TestCount`, `TakeChunk` read and write a count through
the pointer, without the mutex; `Accept` gets the lowest free number, `ScanSlot`
publishes it in a slot, `ClearSlot` is the `bzero()` after it, mutexes included:
a thread that waits for `status_mutex` then may be lost. `LoopEnds`, `Cleanup`,
`Join` are the end of `main()`.

*What can be said.* The pool is not correct (section 4): a thread may work on a
slot that an accept is setting up. So its safety properties say that this is the
*only* way to go wrong: as long as `raced` is false, a connection has one thread
per direction, replies go to who asked, counts do not wrap and no descriptor
leaks, although slots and numbers are reused all the time. Without the `raced`
premise each of them fails.

*Abstractions.* The `heads` of a slot are one, which a client asks for once;
`sockfd` is read once where the code reads it twice in a row; SIGPIPE is left to
`StorageNode`; a time-out may strike whenever a call waits; what `FD_SET` and
`socket_mutex` do while a slot is cleared is left out.

### 2.5 The index (`IndexLoops`, `IndexMath`, `IndexFlow`)

`IndexLoops` and `IndexMath` have each loop as a function from the number of its
turns to its variables, written after the code (`Ranges` and `Group` of the
client, `Parts` of the server), and the set definitions they are compared with
(`ItemsFrom`, `Requested`). `InOrder` is `qsort()` with `index_item_comp`, by the
rank of each item. `Quotient` is the division by a `float`, rounded to `FloatBits`
bits as IEEE does (24 in the code).
`IndexFlow` takes an index from `gen_index_data()` through the file, the random
order, the cut and the clients' ranges to the read requests. A generation may be
killed, or run out of disk, which leaves a short file; `read_index_data()` reads
it with the memory it did not fill as it was, and a client that is sent such an
item writes past its `storages[]` (`ReceiveJunk`).

### 2.6 The task loop (`ClientSession`)

One client, session after session. `ranges`, `heads`, `toSend` are the buffers
that survive a session, `open` the sockets each storage has of it, `server` the
state of `server_socket`. Every step has its failure, and `Recover` and `Clear`
do of the clean-up what the code does. `init_storages()` has five error paths:
those of `socket()`, `ioctl()` and the connection close every socket opened so far
(`StorageFails`), those of `inet_pton()` and `setsockopt()`
(`idg_client.c:372-386`) all but the last (`SetupFails`). The data phase is one step, which
completes when the requests can fulfil the counts the monitor loop waits for
(`Served`), is cut by a fault, or goes on for ever (`Wait`). `dirty`, `lost` and
`stray` are auxiliary: a session failed half-way, how often in
`wait_for_starting`, and how often in setting up the socket of a storage. A stray
socket was never connected and takes no slot of the storage. That
`init_server_socket()` leaves its own socket open when `inet_pton()` fails
(`idg_client.c:103-107`) is not modelled.

### 2.7 Blocks (`BlockIO`, `UnitPipe`)

A head and several blocks of items as bytes through sockets that take and yield
as many as they like, with `select()` or without (`blocking`, chosen at the
start), with resets, silence, time-outs and the reset that data for a closed
socket causes. A byte is its call and its place, so that `InPlace` can say that
each arrives where it belongs. `Pipe` maps the counts of finished calls and the
results to `UnitPipe`. The time left of a call is what Linux leaves in the
`timeval`.

### 2.8 The host table (`LoadHost`)

The host file is a sequence of section lines, hosts and others, the header one of
macros. `ReadHost`, `EditLine`, `CopyLine` are the three loops, `OpenTemp` and
`OpenHead` the calls that empty a file, `Killed` ends the process with a first
part of what it wrote on the disk.

Addresses have a width, and two places room for so many characters of them.
`fgets(line, 1024)` (`load_host.c:109`) reads of a `STORAGE_ADDRESS` line the first
1023 characters, 996 of which can be addresses, commas and the end of the string
(`LineRoom`; at this limit only the newline is left over, and copied as an empty
line). Of a longer line it gives the rest as a line of its own (`Pieces`, `RestLine`),
which is no `#define` and is copied, while the first part is replaced by the new
line. `Compiles` says that a rest belongs to the line before it. `buffer[1024]` of
`init_client()` (`idg_client.c:53`, `BufferRoom`) gets the first 1024 characters of
`STORAGE_ADDRESS`, and `strtok()` finds the addresses that end within (`Tokens`).
`strays` is auxiliary: how many headers with such a long line were written over.
A rest of several times 1023 characters is taken as one line. Host files are those
the arrays of `load_host` have room for.

## 3. The runs

| run | instance | what is checked |
|---|---|---|
| `transfer_relay` | 1 client with 2 receive threads, 2 storages, 3 items one way and 1 the other, MTU 2, buffers of 2 units, no faults, fair | `Conserved`: requests, replies, frames in flight, buffers and counts always add up to the index. `AllComplete`. `AllDelivered`: the storages read everything although the client closes at once |
| `transfer_threads` | 2 clients, 1 storage, 2 receive threads on both sides, 2 send threads of the storage, 1 item each, 1 fault | `Exclusive`, `Framed` |
| `transfer_faults` | 1 client, 2 storages, MTU 2, one of them with an empty range and asked for an item all the same, 1 fault, fair | `TypeOK`, `CompleteIsSent`, `ImplementsRelay`, `SessionEnds`, `SlotFreed` with faults |
| `server_faults` | 2 clients, 3 sessions, 1 item and 1 of an empty range, 2 faults, fair | `TypeOK`, `StartTogether`, `NoUseAfterFree`, `ErrorReported`, `ProgressGrows`; `ServerCompletes` unless a fault happens, `EndsOnceInitialised` with them |
| `server_hang` | 2 clients, 1 fault, fair | **violated**: `ErrorNoticed` |
| `server_finish` | 2 clients, 1 fault | **violated**: `AllFinished` |
| `pool_threads` | 2 connections, 1 slot, 2 receive threads, 1 send thread | `TypeOK`, `OneThreadEach`, `RepliesToAsker`, `CountInRange`, `NoLeak` |
| `pool_live` | 2 connections, 1 slot, 1 thread of each kind, fair | `SlotGivenBack`, `StorageEnds` |
| `index_flow` | 3 clients, 2 storages, indexes of up to 5 items in every order and of up to 31 as generated, `float` of 5 bits | `TypeOK`, `OnePartEach`, `AsksForItsPart`, `CountsFit` |
| `session_faults` | 2 storages, 4 parts, 4 faults, fair | `TypeOK`, `AsksForIndex`, `SocketsAccounted`, `TasksComplete` |
| `block_select` | 5 items, MTU 2, pieces smaller than blocks, both variants, reset and silence, fair | `TypeOK`, `InPlace`, `ImplementsPipe`, `CallsEnd` |
| `hosts_killed` | 2 runs, host files of up to 3 lines and one with every section, a line with room for 3 characters of addresses and a buffer for 4, killed anywhere | `TypeOK`, `HeaderFits`, `HeaderNotLost`, `ClientStarts` |

*Why the bounds are enough.* The hazards are between two threads of a kind, two
storages, two clients: each instance has two of what its properties are about.
`MTU` 2 with 3 items gives a full chunk, a rest and a second chunk. `Cap` 1 or 2
is less than a frame pair in both directions, so every send can block and the
deadlock of two full buffers would happen if it could. One fault in the data
phase ends it, so a second one only hits threads already on their way out; in
`server_faults` two faults let a client fail while another one is lost. Three
sessions for two clients let one crash and come back, also when it already has
a slot. In the pool two connections for one slot force the reuse of the slot and
of its number; `MTU` 1 and a count of 2 make the count a full chunk and a rest,
`Wrap` 4 stands for 2^32, which it only has to exceed. The rounding of a `float`
shows in the last of its bits, so one of 5 bits and all indexes below 2^5 show
what one of 24 does below 2^24: the property is stated for indexes below
`2 ^ FloatBits`, with divisors that do not divide and some that do (and proved for
every number of bits, section 5). In
`session_faults` the parts differ in their first storage, the empty one and the
destinations, and four faults leave two sessions half-done and fail twice in
the next. In `block_select` a piece is smaller than the head and than a block,
the buffer smaller than a block, and the last block is a rest. Two runs of
`load_host` are what it takes for one to find what an earlier one left, a killed
one or one with a long line. The addresses have one character or two and a comma:
one address fits a line (3), two of one character the buffer (4), but not the
line, and the two of the file with every section (5) neither. In `index_flow`
indexes of one and two items are fewer than the three clients. In `server_faults`
an item beyond the part is enough for the last report to be less than the one
before it.

*Deadlock* is checked in every run. `AtRest` is the state in which all
sessions are over and the storages wait for connections, `Poll` the loops of the
server that wait for `sending_count` for ever, `Wait` a monitor loop that does,
`Gone` a client that has died: stopping there is the code's choice and not a
deadlock of the model. What it means that `Poll` never ends is the business of
`server_hang`.

*Symmetry* is used in the two runs without temporal properties whose actors are
interchangeable: threads of one kind (`transfer_threads`, `pool_threads`) and
connections (`pool_threads`). Neither the actions nor the properties name one of
them or compare two but for equality.

### Fairness

Weak fairness for every thread and `main()`: the operating system schedules
them, and each loops without giving up (`while (recv_running)`, blocking calls).
A thread enabled for good takes its step. Nothing is assumed of faults, of
timeouts, of the loss of the server. In `IdgServer` the client's own steps and
the data phase are fair too (the second is what `SessionEnds` and
`AllComplete` show); crashes, failed initialisations and errors need not
happen. `AllComplete` and `AllDelivered` are stated for a run
without faults, `ServerCompletes` for behaviours without one; `SessionEnds`,
`SlotFreed`, `EndsOnceInitialised` hold with them.

In `StoragePool` threads and `main()` are scheduled; clients need do nothing and
the hour of `select()` need not pass. In `ClientSession` the client's own steps
(`Work`) are fair, faults are not, and `TasksComplete` starts when no more of them
disturb. In `BlockIO` both processes are, and time passes (`Tick`): `CallsEnd`
rests on the time-out and not on the peer. A blocking call on a silent
connection waits for ever, which `CallsEnd` says.

## 4. What was found

With a run that shows it:

1. **The server hangs when a client is lost before the barrier**
   (`server_hang`). `wait_for_computing()` waits for `sending_count` to be 0
   (`idg_server.c:443`), which a thread that failed earlier (349, 356, 363)
   never decrements (368). The other clients wait for the start command, the
   error in `progress` (-2) is never looked at.
2. **The loss of a client counts as its end** (`server_finish`). A failed read
   of the progress stores -1, the mark of a finished client (397, 415): the
   server prints "Data transferring complete!" for a transfer that was not. One
   way there starts earlier: the server takes any message as the answer
   "storages connected" (361), so that a client whose `init_storages()` failed,
   which sends state 2 and closes, counts as initialised, and then as finished.

Met while modelling; the models contain each of them, and the properties of the
runs are stated around them. Of 3 to 5 TLC gave counterexamples to the comments
quoted, each as an invariant of the instance of section 3:

3. *Pool.* `idg_storage.c:316` calls 317-332 a "mutex area", but the threads read
   `sockfd` without the mutex, and `main()` publishes it (322) before it clears the
   slot (323): a thread takes the flag in between, and `bzero()` wipes
   out flag and heads under it. Two threads then share a connection, or a count is
   taken below zero (185). This is `raced`.
4. *Pool.* `close()`, `sockfd = -1` are two steps (135-136, 148-149, 198-199,
   207-208); main() may be given the number for the next connection in between,
   and put it into the slot, where a late `sockfd = -1` of a second thread wipes
   it out: the connection stays open, no thread serves it, and the clean-up
   ("Cleanup all of the sockets that are open", 343) does not see it.
5. *Task loop.* A session that fails in `init_storages()` or after leaves `heads`
   and `to_send` as they are (`idg_client.c:623-638`; the "clear buffer" of 639
   frees the index only). The next session adds to them, waits for more items
   than it asks for, and its monitor loop ends only when a connection does.
   This is `dirty`.
6. *Pool.* `bzero()` clears `status_mutex` while it is held (323); a thread
   waiting for it may never be woken, and `main()` ("wait for threads", 350)
   never ends. `StorageEnds` has this exception.
7. *Index.* A generation that is killed or fills the disk leaves a file with
   fewer items than its count; nobody looks at what `fwrite()` returns, and
   `read_index_data()` (`idg_server.c:265-275`) says "Reading index data
   complete!" over uninitialised items. `ReceiveJunk` is where it ends.
8. *Task loop.* A failure of `wait_for_starting()` closes no socket to a storage
   (206-217): each costs a slot of every storage. This is `lost`. A failure of
   `inet_pton()` or `setsockopt()` in `init_storages()` (372-386) leaves the socket
   it was about open (`stray`), where the other error paths close it.
9. *Blocks.* The `timeval` of `select()` is set once per call
   (`idg_common.c:143-145`, 215-217) and Linux leaves the rest in it, so that
   "select timeout, threshold: %d sec" (169, 249) may be the sum of many short
   waits. `CallsEnd` does not depend on it, on Linux.
10. *Progress.* A client reports the items it has sent, those asked of a storage
   with an empty range included (`idg_client.c:446-462`, 543, 581), but at the end
   the size of its part (616): the server shows more items than there are, and then
   fewer. `ProgressGrows` has this exception.
11. *Index.* With fewer items than clients some are given no part by the loop and
   keep 0..0 (`idg_server.c:306-317`): each of them is sent item 0 too, and moves
   it. `OnePartEach` has this exception.
12. *Host table.* `MAX_STORAGE_COUNT` is 180, but from about 95 storages on the
   `STORAGE_ADDRESS` line is longer than the 1023 characters `fgets()` reads
   (`load_host.c:109`): the next run copies its rest as a line of its own, which
   does not compile and which every later run keeps. From about 100 on the
   addresses are longer than `buffer[1024]` (`idg_client.c:53`), and `init_client()`
   fails. `HeaderFits` and `ClientStarts` say exactly when.
13. *Host table.* The run after one that was killed between 128 and 132 edits a
   header that is cut off (`spoilt`), although `temp.h` had a whole one.

Smaller disagreements met while reading, without a run: the comment on
`TProgress.state` says "0: normal, 1:error" (`idg_common.h:64`), the code uses 1
for normal, 2 for error, 8888 for ready and start; a client whose server is lost
ends with state 1 and not 2 (`idg_client.c:584-587`, 615), since only a lost
storage sets `has_error`; a host without a target counts in `STORAGE_COUNT` but is
no token of `STORAGE_ADDRESS` for `strtok()` (`load_host.c:90`, `idg_client.c:61`).

## 5. The proofs

All proofs are for every value of the constants that satisfies the assumptions
`WireAssumption`, `RelayAssumption`, `StorageAssumption`, `ServerAssumption`,
`PoolAssumption`, `IndexAssumption`, `FlowAssumption`, `SessionAssumption`,
`BlockAssumption` and `HostAssumption`: any number of clients, storages, sessions
and threads of every kind, any index, chunk size and buffer capacity, any width
of a `float`, any number of faults. They use no other
assumption. Seven clauses of these are more than types: the threads of a kind are
finitely many (`idg_common.h:18-22`), since sums are taken over them; a
connection asks for a route at most once (`PoolAssumption`; `init_storages()`
adds each destination once and `send_thread_routine()` takes the head out,
`idg_client.c:442-462`, 243-254); a part is in order and not empty
(`SessionAssumption`; the client sorts what it receives, `idg_client.c:168`, and
an empty part is a failure to receive it, 160-165); the items of an index can be
told apart by a `float`, as can the square of one more than the clients
(`FlowAssumption`; 16 against 2^24 for the 3 clients of `idg_common.h:36`: the code
divides by a `float`, `idg_server.c:211`, 304-305, and says nothing of indexes it
cannot count; the second keeps the last part from being empty); and the header has the lines
that `load_host` rewrites (`HostAssumption`;
`idg_common.h:34-37`), its addresses no longer than a line.

| module | theorem | property |
|---|---|---|
| `TransferProofs` | `TypeCorrect`, `ExclusiveAccess`, `FramingKept`, `ItemsConserved`, `CompleteMeansSent`, `RelayRefined` | `TypeOK`, `Exclusive`, `Framed`, `Conserved`, `CompleteIsSent`, `ImplementsRelay` |
| `IdgServerProofs` | `ServerTypeCorrect`, `StartsTogether`, `IndexNotUsedAfterFree`, `ErrorsReported`, `ProgressOnlyGrows` | `TypeOK`, `StartTogether`, `NoUseAfterFree`, `ErrorReported`, `ProgressGrows` |
| `StoragePoolProofs` | `PoolTyped`, `ThreadsApart`, `RepliesArrive`, `CountsInRange`, `NothingLeaks` | `TypeOK`, `OneThreadEach`, `RepliesToAsker`, `CountInRange`, `NoLeak` |
| `IndexFlowProofs` | `FlowTypeCorrect`, `PartsDisjoint`, `PartAskedFor`, `CountsAgree` | `TypeOK`, `OnePartEach`, `AsksForItsPart`, `CountsFit` |
| `ClientSessionProofs` | `SocketsAccountedFor`, `SessionTyped`, `IndexAskedFor` | `SocketsAccounted`, `TypeOK`, `AsksForIndex` |
| `BlockIOProofs` | `BlockTypeCorrect`, `PipeImplemented`, `BytesInPlace` | `TypeOK`, `ImplementsPipe`, `InPlace` |
| `LoadHostProofs` | `HostTypeCorrect`, `HeaderSurvives`, `HeaderMatchesHosts`, `HeaderStartsClient` | `TypeOK`, `HeaderNotLost`, `HeaderFits`, `ClientStarts` |

### The data phase

The first part of `TransferProofs`:

- `TypeCorrect`. `TypeOK` is inductive as it stands. What it says beyond types
  is that no counter is taken below zero, `replies` (an `unsigned int` in the
  code) in particular: `TakeChunkType` shows that a chunk is never more than the
  head it is taken from.
- `ExclusiveAccess`. `Exclusive` is not inductive: nothing in it keeps a second
  thread off a connection. `Locked` adds that a connection some thread works on
  has its flag set, and that two threads have disjoint sets of connections.
  `Held` states that for one kind of thread on one side, `Turn` the four ways a
  step can change it (nothing, take a free connection, go on, give back), and
  `HeldTurn` that every turn preserves it; one lemma per routine shows that its
  steps are turns (`ClientRecvTurn`, `ClientSendTurn`, `StorageRecvTurn`,
  `StorageSendTurn`) and the frame lemmas that they leave the other kinds alone.
- `FramingKept`, from `FInv == TypeOK /\ Locked /\ Hands /\ Lines`. `Framed` says
  that no reader meets a unit it does not expect; for that the whole stream has to
  be right, which is `Line`: heads and items alternate, beginning with what the
  reader still awaits (`due`) and ending with what the writer still owes (`owed`).
  `Hands` says that the head in the hands of a thread is one such a stream may
  have. The lines hold only because at most one thread is in the middle of a frame
  of a connection, which is `Locked`. A reset cuts a suffix off both streams, after
  which nothing is owed (`live`).

The second part, from `RInv`, nine conjuncts that hold together or not at all:

- `Balanced` is `Conserved` for every client whose session lasts: with all its
  connections intact what is accounted for *equals* `to_send`; with one of them
  lost it is *at most* that (so that nothing is sent twice after a fault either).
  `Sourced` is the same count by source.
- `Once`: a route is asked for once, in the stream or in the reply, so that the
  storage's `replies[..] = count` (an assignment in the code, not an addition)
  overwrites nothing. `Asking`, `Chunks`: what a thread about to ask, and what
  threads and heads carry.
- `Scanned`: what the monitor loop has counted in this pass is so, although the
  counters move under it: `send_count` only grows.
- `Arriving`: what was sent and not read is in the stream; `Ended`: after the
  joins no thread is left. With `Scanned` and `Balanced` they give
  `CompleteIsSent`.

Each step is first reduced to what it does to the numbers: `Flow(c)` says that a
step of client `c` moves an item of a route from one place to the next
(`Shrinks`), fetches, forwards or loses a chunk, ends the session, or kills the
client, and leaves the other clients alone; one lemma per routine
(`StorageRecvFlow`, `StorageSendFlow`, `ClientRecvFlow`, `ClientSendFlow`, ...)
shows it, and `StepFlow` collects them. `BalanceMoves` and the refinement
(`RelayStep`, one lemma per action of `Relay`) are then about numbers only:
`FetchingStep`, `ForwardingStep`, `LosingStep`, `EndStep`. That a fetch never
exceeds the request and that a session which ends complete has forwarded
everything is where `RelayRefined` needs `RInv`.

`SumsAndLoops` has what these need of `SumFunctionOnSet`: one element more or changed,
the tail of a sequence, monotony, subsets. The sum of the community modules is a
fold that picks elements with `CHOOSE`; its lemmas are proved by a least
counterexample (`WFMin` of the library), which takes a set where the induction
theorems take a predicate.

### The server

`IdgServerProofs`:

- `ServerTypeCorrect`, `IndexNotUsedAfterFree` from `IInv`. Its
  key conjunct is `Cardinality(NotYet) <= sendingCount`: the count is at
  least the number of threads that have not counted down, those not created yet
  included. It is an inequality because a thread that fails leaves `NotYet`
  without counting down (the origin of finding 1: safety survives it, progress
  does not). So the count is 0 only when nobody is left in front of the barrier,
  all threads have been created (`Threads` relates `tpc` to `spawned`), and the
  index has no reader. `Slots` says that a thread has a connection.
  `TypeOK` here says that `sendingCount` stays in `0 .. ClientCount`; it needs
  `IInv` (a count down at 0 would leave its type) and is proved with it.
- `StartsTogether` from `Answers` as well: who has counted down has had an answer,
  and while `sending_count` is above 0 it is the number of the threads that have not
  counted down, those that failed included. So at 0 every slot has a client, and each
  of these has answered.
- `ErrorsReported`, `ProgressOnlyGrows` from `RInv`, which adds where a report is:
  a client whose session ended with an error has it in the stream, or in
  `progress` as -2, or its thread has yet to fail (`Errors`); the reports on the
  way are in ascending order and not below `progress` (`Reports`, `Progress`), but
  for an error and the last one of a client that has completed (`Lower`), which is
  the only step by which a progress falls (`Forward`); a connection
  is in one slot (`Places`), and what the pass has seen is still so (`Pass`),
  although threads store -1 and -2 while it runs.

### The pool of a storage

`StoragePoolProofs`, from `PInv == TypeInv /\ (~raced => Core)`. `Core` is what
holds as long as no accept has met a thread at work: a connection is behind one
number and in one slot (`Files`, `Slots`), a thread past `Lock` has the flag
alone (`Flags`, `Alone`), the head of a slot is its own connection's (`Heads`),
and what a thread has *read* of its slot is still so (`Fitting`): the number it
passed to its call is that of the slot or closed, the count it tested has not
become less. The steps that could break the last are those of `main()`, and
each of them sets `raced` just when it does.

### The index

`IndexFlowProofs`, from `FlowInv == TypeOK /\ Read /\ \A c : Prepared(c)`: what the
server has read is an index that a `float` counts, and once cut its parts are those
of the loop (`Read`); what a client has after each of its two steps is what the
loops make of the items it was sent (`Prepared`). The four theorems follow from
what these loops yield for *every* input:

- *The divisor.* `Nearest(A, E, M, n, m)` is all that the proofs use of the rounding:
  the mantissa `M` is within half of the exact one, and has `FloatBits` bits.
  `ExponentFound` shows that an exponent exists (the powers of two are a function
  defined from itself, `Powers`), `DivisorFound` that rounding yields such an `M`, a
  mantissa rounded up to the next power included.
- *The quotients.* `QuotientsOf`: all are in `0 .. m - 1` and none is skipped, which
  is what keeps `clients[new]` inside its array and every part nonempty;
  `LastQuotient`: the last item is the last client's. Here it matters that a
  `float` counts the items: a divisor that is rounded down does not take the last
  quotient to `m` (`EnoughBits`), nor one that is rounded up below `m - 1`. `SectionSize` and `SectionsEven` bound how
  uneven the parts are.
- *The cut.* `PartsRight`: after `k` turns of the loop the parts hold the items
  before `k`, closed but for the last one, and meet (`PartTurnRight`). With fewer
  items than clients no two items have the same quotient (`QuotientsApart`), so that
  each item found is a part of its own and every other client keeps 0..0
  (`PartsFew`, `FewFound`). With `SectionFound` the two (`PartsMany`, `PartsOfFew`) give
  `PartsDisjoint`, for every number of items. There is something to see in its
  statement: with four clients or more and a number of items near the limit of a
  `float` the rounding may add up to an item, and two parts differ by two
  (`Uneven`); the 3 clients of the code stay within one.
- *The order.* `OrderTotal` and `RankGrows` make the rank of an item a bijection
  (`RanksAll`, by counting), so that `InOrder` is in order and has every item of the
  part as often as the part has (`InOrderFound`, `MovedCount`).
- *The requests.* `RangesFound` and `GroupFound` of `SumsAndLoops` (see the task
  loop) find the ranges and the heads of one storage; `FillTurnRight` puts the
  storages together, the sum `to_send` included. They give `PartAskedFor` and
  `CountsAgree`.

`FlowTypeCorrect` needs all of it: that no quotient is beyond the last storage or
client, and that no range has a negative count.

### The task loop

`ClientSessionProofs`, and the second half of `SumsAndLoops`:

- `SocketsAccountedFor` from `Sockets`: of storage `s` the process has open one
  socket for each session that failed in `wait_for_starting()`, one for each that
  could not set up the socket of `s`, and one more if the session that runs has
  opened it (`Mine`).
- `SessionTyped`: `TypeOK` itself is inductive with `Sockets`, but only because of
  what the loops of `read_index_data()` and `init_storages()` yield. `IndexLoops`
  writes a loop as a function that is defined from its own previous turn;
  `LoopRuns` shows that such a function exists for every loop whose turn maps
  states to states, `LoopKeeps` that what every turn keeps holds after the last.
  `RangesType` and `GroupType` follow for every part and every range that lies in
  it, including the dirty ranges of a failed session.
- `IndexAskedFor` from `Clean`: until a failed session leaves something behind,
  the buffers are `Fresh` outside a session and `Filled` within, storage by
  storage. What the loops find is proved turn by turn. `RangesRight`: after `m`
  items a storage has the range of its items so far or none, and the one the loop
  is at has its begin (`RangesFound`). `GroupRight`: the destinations passed have
  their heads, and the count in hand is that of the current one (`GroupFound`).
  Both need the part in order, so that a storage or a destination once left does
  not come back (`NextTurnRight`, `GroupTurnRight`). `RangeOfPart` puts the two
  together, the empty range included. The conjunct of `AsksForIndex` that holds
  after failed sessions too, that no more is asked for than is waited for, is
  inductive by itself (`Backed`): what a turn of the loop adds to a head it adds to
  `to_send`, and what is cleared is cleared of both.

### Blocks

`BlockIOProofs`, from `IInv`, for all sizes of head, item, piece, block and
buffer:

- `BlockTypeCorrect`, `PipeImplemented` (the refinement of
  `UnitPipe`). `Base(c)` is where call `c` begins in the stream; the invariant
  `Counted` says that the receiver's place plus what is on the wire is no more
  than the sender's place. So a receiver that finishes a call has a sender that
  has finished it, and the calls of the two ends agree because `Base` is the same
  function for both. The facts about the division into calls (`TurnFacts`,
  `ItemsStep`, `SizeStep`) carry the arithmetic.
- `BytesInPlace` adds what the bytes *are*: those on the wire are the next ones of
  the stream, in order (`Ordered`, `Whole`), and those stored are at their place
  (`Stored`). `SpotUnique`: a place of the stream belongs to one byte of one call.

### The host table

`LoadHostProofs`:

- All from `HInv == TypeOK /\ Here /\ Scanned /\ Written /\ Files`. `Files` says which of
  the two files is whole at each place of the program, how far the other is
  written, and that the lines of both are those of the header with the rests of
  long lines after the addresses (`Laid`, `Stretched`); it gives `HeaderSurvives`.
- `HeaderMatchesHosts`, `HeaderStartsClient`: the counts, the addresses and their
  size read so far are those of the sections of the first `i` lines (`Here`,
  `Scanned`), whose last section a line changes or not; the lines written are the
  edited ones (`Written`). `WrittenCompiles` finds when the header that is written
  has a rest that stands alone: just if an earlier run has left one. `TokensAll` says
  that `strtok()` finds all the addresses just if none is empty and the buffer
  holds them.

Every inductive invariant was checked by TLC on the instances of section 3 before
it was proved.

*Only model-checked*: everything with fairness (`AllComplete`, `AllDelivered`,
`SessionEnds`, `SlotFreed`, `ServerCompletes`, `EndsOnceInitialised`,
`SlotGivenBack`, `StorageEnds`, `TasksComplete`, `CallsEnd`), which TLAPS cannot
treat. Every other property that a run finds to hold is proved. The two violations
(`ErrorNoticed`, `AllFinished`) are counterexamples of TLC.

## 6. Plan

1. *done*: data phase with faults, refinement of `Relay`; server and sessions;
   pool; index; task loop; blocks; host table.
2. *done*: proofs of framing, conservation, completion and the refinement of the
   data phase; of the pool; of the reports of the server; of the bytes of a
   block; of the header; of the sockets, the types and the requests of the
   task loop.
3. *done*: proofs of the way of the index: the division by a `float`, the cut, the
   order, the ranges and the requests.
4. The throughput test pair as a whole: one process per connection.

### Not modelled

The fork of the throughput test pair and its timing output (its transfer loops
are those of `BlockIO`); the deployment scripts and playbooks (they run commands
on hosts and keep no state of their own); vendored installers, binaries, keys
and logs. Time itself is not modelled but for the time left of a call in
`BlockIO`: elsewhere a timeout may strike at any moment a call waits. The failures
of calls that set a socket up are told apart from that of the connection where
they clean up differently (`idg_client.c:372-386`); that of `ioctl()` is not. Not
modelled are those of the storage's `accept` loop, which end the storage process at
once (`idg_storage.c:306-314`; `StoragePool` ends only by way of the clean-up), and the
socket to the server that `init_server_socket()` leaves open
(`idg_client.c:103-107`).
