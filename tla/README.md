# Verification of linux-tcp-servers

TLA+ models of the TCP servers in this repository, TLC configurations that
check them on small instances, and proofs, checked by TLAPS, that hold for every
value of the constants.

- [The system](#the-system)
- [Modules](#modules)
- [How state and actions correspond to the code](#how-state-and-actions-correspond-to-the-code)
- [Runs](#runs)
- [Findings](#findings)
- [Fairness](#fairness)
- [Proofs](#proofs)
- [What is not modelled](#what-is-not-modelled)
- [Plan](#plan)

## The system

The repository is a collection of server designs for one protocol: a client
connects over TCP, sends bytes, and gets them back, except from the servers built
on `epoll_event_loop()`, which only read. The designs differ in how they use processes,
threads and readiness notification. `src/src/servers/` holds the servers,
`src/src/utilities/` what they share, `src/src/clients/` two test clients. There
are no tests; what is promised is in comments and log messages.

| Component | Source (under `src/src/`) | State | Operations |
|---|---|---|---|
| Worker event loop of `MultiWorkerIoMultiplexingTCPServer` | `servers/multi_worker_nonblocking_io_multiplexing_server.h`, classes `ConnectionData`, `ConnectionDataManager`, `Worker` | per connection: `conn_fd_`, `buffer_`, `read_index_`, `write_index_`, `ready_for_write_`; the map `data_`; the epoll registrations; per worker: `events_`, the event in hand | `epoll_wait()` and dispatch, `acceptConnections()`, `handleConnectionEvent()`, `rearmEpoll()`, `closeConnection()`, `insert()`, `remove()`, `reset()` |
| `start()` and `setupServerTcpSocket()` of the same class | same file, `servers/server_main.cpp` | `server_sfd_`, the loop over workers, the walk along the address list, the threads | set up a listening socket, watch it, create a thread; shared and reuse-port mode |
| `select()` server | `servers/nonblocking_io_multiplexing_select_server.cpp` | `read_fd_backup_set`, `read_fd_set`, `max_sfd`, `sfd_ready_no`, `buffer` | `select()`, the scan, accept, read and echo, close |
| `epoll_event_loop()` and the edge-triggered epoll server | `utilities/server_utility.cpp`, `servers/nonblocking_io_multiplexing_edge_trigger_epoll_server.cpp` | `events`, the registrations | `epoll_wait()`, dispatch, accept until EAGAIN, read until EAGAIN, rearm, close |
| Reuse-port multi-process server | `servers/multi_worker_reuseport_…_server.{h,cpp}`, `servers/test_server.cpp` | a process per worker, each with its own socket and epoll instance | fork loop, `setup_server_tcp_socket()`, registration; a copy of `epoll_event_loop()` |
| Fork-per-connection server | `servers/fork_process_per_connection_server.cpp` | the processes and the copies of descriptors each has, `buffer` | accept, fork, blocking echo, exit |
| Single-client server | `servers/single_client_blocking_io_server.cpp` | one connection | accept, blocking echo |
| Clients | `clients/echo_client.cpp`, `clients/multi_client.cpp` | one socket; one socket per process | connect, write/read turns; connect, write, close |
| Helpers | `utilities/print_utility.h`, `utilities/constants.cpp`, `utilities/server_utility.h`, `utilities/file_descriptor.h`, `include/constants.h` | none | logging, default values, wrappers of `close()` and `fcntl()` |
| Sockets, epoll, the network, peers | the kernel and the clients (external) | receive queue, FIN/RST, pending error, send buffer; readiness | `read`, `write`, `accept4`, `select`, `epoll_*` |

**Interactions.** All communication between servers and clients goes through the
kernel. Inside the multi-worker server, the worker threads share one epoll
instance, the map `data_` (under a mutex), and the `ConnectionData` objects
*without* a lock: the one-shot registrations (`EPOLLONESHOT`) are what is
supposed to give each object to one worker at a time. The main thread hands
each worker its listening socket through the member `server_sfd_`, which the
thread reads when it first runs. In the event loops, the batch that
`epoll_wait()` returned names objects (by pointer) or connections (by descriptor
number) that earlier events of the batch, or other threads, may have closed.

**What is hard.** Interleavings of workers on one object between `rearmEpoll()`
and the end of the handler; recycled descriptor numbers and recycled heap
blocks; the FIN or RST that arrives between `epoll_wait()` and `read()`; partial
reads and writes with indices that live longer than one event; edges and
one-shot registrations that are lost for good if nobody rearms them; failing
calls halfway through set-up. `PROJECT.json` lists 40 such hazards at their
lines, with the properties aimed at them.

**What makes each component correct.**

- *Worker loop*: one worker at a time per object; no event outlives the object
  or the descriptor number it is for; the echo is a prefix of what was sent; the
  buffer's bounds; no registration forgotten; every byte echoed in the end.
- *start()*: every worker takes a socket that listens, in shared mode the one its
  epoll instance watches; failed attempts leave no socket behind; whatever call fails, it
  never stops halfway through the workers; every client is accepted.
- *select() server*: the hand-kept set is that of the open descriptors; the
  hand-kept maximum is its maximum; the counter that ends the scan never ends it
  early; no connection is forgotten behind others; the echo is exact (it is not: finding
  `drop`; what comes back is at least in order).
- *fork and single-client servers*: the echo is exact however `write()` is cut; a
  client can end its own handler only (not so in the single-client server); nobody
  waits in the queue for ever.
- *clients*: no program hangs, whatever becomes of its connection.
- *reuse-port processes*: only the master forks; a client queued at one worker is
  accepted by it or reset with it, if the peers whose connections it reads pause.
- *all echo servers*: they implement one abstract service (`EchoService`).
- *epoll_event_loop()*: no event of a batch is stale; no edge of the listening
  socket is lost; every open connection has an event to come; all that are queued are
  accepted, and what a peer sends is read while it keeps its connection open.

## Modules

| Module | What it is |
|---|---|
| `TcpSocket` | External. What `read(2)`, `write(2)` and `epoll(7)` return for each state of an accepted socket. Used by all server models. |
| `TcpPeer` | External. The clients: connect, send, consume the echo, half-close, reset, in any order. Composed with `SelectServer` and `EpollLoop`, which extend it. |
| `MultiWorkerServer` | The worker event loop in shared-epoll mode, with `ConnectionData`, its manager and the heap blocks behind them; safety and liveness properties. Its peers stop with the process, so it has its own copies of the peer actions. |
| `MultiWorkerServerInv` | The inductive invariant `OwnershipInv` and the type invariant `TypeInv` behind the theorems, in named parts. |
| `MultiWorkerServerProofs` | Theorems about `MultiWorkerServer`: types, and who owns a `ConnectionData` object. |
| `MultiWorkerServerEcho` | Theorems about what its clients see, and the proof that it implements `EchoService`. |
| `MCMultiWorkerServer` | Symmetry set for TLC. |
| `ServerStart` | `start()` and `setupServerTcpSocket()` with the worker threads and clients. |
| `ServerStartProofs` | Theorems about `ServerStart`. |
| `MCServerStart` | The address lists of two kinds of host, for TLC. |
| `EchoService` | Abstract: what all the echo servers promise their clients. Implemented by `MultiWorkerServer` and `BlockingServer`; by `SelectServer` only if `Lossy`. |
| `SelectServer` | The `select()` server. |
| `SelectServerProofs` | Theorems about `SelectServer`, and the proof that what comes back is in order (the lossy `EchoService`). |
| `Clients` | `echo_client.cpp` and `multi_client.cpp`, as actions that a server module composes with its own. |
| `BlockingServer` | The fork-per-connection server and the single-client server, composed with `Clients`. |
| `BlockingServerProofs` | Theorems about `BlockingServer`, and the proof that it implements `EchoService`. |
| `MCBlockingServer` | The set of connections the clients make, for TLC. |
| `ReusePortServer` | The multi-process server: fork loop, `setup_server_tcp_socket()`, and each worker's event loop, which accepts and reads in turn. |
| `ReusePortServerProofs` | Theorems about `ReusePortServer`. |
| `MCReusePortServer` | The address list, for TLC. |
| `EpollLoop` | `epoll_event_loop()` in both its copies (constant `AtEof`). |
| `EpollLoopProofs` | Theorems about `EpollLoop`. |
| `TcpSocketProofs` | Lemmas about the socket operators, and about the bytes on their way from one peer's `write()` to its echo; used by the other proofs. |

Operators whose comment begins with "Mutant:" are not part of the models. Each is
a definition changed in the way a plausible bug would change the code, and is
listed in `PROJECT.json` with the property that then fails.

## How state and actions correspond to the code

`PROJECT.json` maps each definition to its lines. Line numbers below are those
of the file the section is about.

### Sockets (`TcpSocket`)

A socket is a record of what the peer has done (`sent`, `fin`, `rst`), the
receive queue `rq`, the pending error `err`, and what the server has written
(`out`) and the peer consumed (`got`). The n-th byte of connection c is `<<c, n>>`,
so that loss, reordering, repetition and mix-ups between connections are
visible. `ReadsData`, `ReadsEof`, `ReadsError` and `ReadsAgain` are the four
outcomes of `read()`; the `Writes…` operators those of `write()`. Kernel
behaviour that matters to the code is kept: a read of 0 bytes returns 0; a RST
leaves ECONNRESET pending, or EPIPE if the FIN had come first; the error is
reported once; writing to a dead socket raises SIGPIPE, which no server handles;
`PollMask` gives IN, OUT, RDHUP, ERR and HUP as Linux computes them.

### Worker event loop (`MultiWorkerServer`)

The grain is one system call, or one call of the locked `ConnectionDataManager`,
with the assignments the code makes before the next one; between two such steps
any other worker or peer may act.

| Code | Model |
|---|---|
| `conn_fd_`, `buffer_[0..read_index_)`, `write_index_`, `ready_for_write_` of an object | `cfd`, `buf`, `wix`, `rfw`, by heap block (`Cells`) |
| `data_` | `data`: descriptor to block |
| `events_[i..nfds)` | `batch[w]`: a set, because epoll promises no order |
| `event_.data.ptr` / `conn_data`, `conn_fd` in `acceptConnections()`, `isRead` of the pending rearm | `ptr[w]`, `newfd[w]`, `arm[w]` |
| `Worker::start()` (lines 205-248) | `EpollWait`, `EpollWaitFails`, `DispatchListener`, `DispatchClose`, `DispatchHangup`, `DispatchHandler`, `DispatchNull` |
| `acceptConnections()` | `AcceptNone`, `AcceptConn`, `InsertNew`, `InsertCollides`, `EpollAdd`, `EpollAddFails` |
| `handleConnectionEvent()` | `ReadData`, `ReadEof`, `ReadAgain`, `ReadError`, `WriteData`, `WriteAgain`, `WriteError`, `WriteSigpipe`, `RearmEpoll`, `Reset` |
| `closeConnection()` | `Remove`, `EpollDel`, `CloseFd`, `AssignFd` |

`closeConnection(int epoll_fd, int &conn_fd)` is called with a reference into
the object that `data_manager_.remove()` frees. The last three steps of the
function therefore read, and the last one writes, freed memory. What they find
depends on the allocator, so the block is state: `cache[p]` is the worker whose
allocator cache holds the freed block p. With `SharedHeap = FALSE` a freed block
goes only to a later `insert()` of the same worker, which cannot happen before
the function ends (the per-thread caches of the usual allocators); with
`SharedHeap = TRUE` any worker may be given it at once.

The file's `setupServerTcpSocket()`, the thread creation and the reuse-port mode
are `ServerStart`'s subject. In reuse-port mode each worker runs this loop on an
epoll instance of its own.

### Start-up (`ServerStart`)

`Socket`, `Bind`, `BindFails`, `NoAddress`, `Listen` and `ListenFails` are the
steps of `setupServerTcpSocket()`; `EpollAdd`, `EpollFails`, `Spawn` and `SpawnFails` (the
constructor of `std::thread` throws) those of `start()`'s loops; `Exit` is the exception
handler that ends the process. `ListenFails` closes the socket before it throws (line
461), and `socks` then keeps what set-up has left open, so that `NoLeakedSocket` needs no
exception for a process that ends.
`WorkerRuns` is the moment the new thread constructs its `Worker`, reading
`server_sfd_` *then*. `WorkerAccepts` and `WorkerMistakes` are what a worker does
when its listening socket has a connection: the comparison at line 220 sends it to
`acceptConnections()`, or, if it holds another descriptor, to the handler of
connections. `InUse` says which addresses exclude each other at `bind()`: on a host
with the default `bindv6only = 0`, the IPv6 wildcard excludes the IPv4 one. `reuse_port` is
a variable, so one run covers both modes; where the second `bind()` succeeds (an IPv6-only
wildcard), a worker may copy the socket of a *later* worker, and `TakesListener`
states exactly how far that goes. The
test `server_sfd == 0` at line 438 is modelled as it is: descriptor 0 is taken
for a failure, -1 for a success that `bind()` then rejects.

### `select()` server (`SelectServer`)

`watched` is `read_fd_backup_set`, `ready` is `read_fd_set`, `left` is
`sfd_ready_no`, `i` the scan's index. `ScanTo` goes to the next reported
descriptor, skipping those that are not set, and stops (`ScanEnds`) by the
condition of line 82, which reads `max_sfd` anew on every turn. A write that is
cut short, or refused with EAGAIN, drops what it leaves (`WriteData`,
`WriteAgain`), as the code does. The class `file_descriptor` this server uses is
not in the repository at this commit (`file_descriptor.h` holds free functions
only, so the older servers do not compile); it is taken to be a handle that only
`close_fd()` closes, the only meaning under which the code works.

Linux looks for a free descriptor before it looks at the accept queue, so with a
full table `accept4()` fails with EMFILE even if nobody is left to accept
(`AcceptFails`); `AcceptNone` (EAGAIN) needs a free one. `EpollLoop` does the same.

### `epoll_event_loop()` (`EpollLoop`)

`reg[f]` is the one-shot registration of a connection: `"armed"`, `"spent"` once
delivered, `"none"`. `edge` says whether the edge-triggered listening socket is on
the ready list. Events name connections by descriptor number, hence `NoStaleEvent`.
`AtEof = "goes on"` is the copy in
`multi_worker_reuseport_nonblocking_io_multiplexing_server.h`, whose read loop
has no `break` at end of file.

### Blocking servers and clients (`BlockingServer`, `Clients`)

`forks` says which of the two servers runs; their accept loops and echo loops
are the same text but for `fork()`. The child for connection c is process c.
`holds[p]` is the set of connections of which process p has a descriptor: `Fork`
copies the parent's, and `Settled` closes a connection when its last holder is gone.
A child's descriptors include those of all earlier connections, since the parent
never closes any. The listening socket is open as long as any process is (`up`), so
clients are still queued after the parent has exited, and reset when the last
orphan ends.

`handler[c]` is the echo loop's next call. `write()` blocks: `WriteData` takes what
there is room for and goes on from `"wait"`; a RST in the middle makes it return a
short count, which the code does not test (`WriteCut`). Of the errors of `accept()` only
EMFILE is modelled (`AcceptFails`); any other would end the accept loop as well, so
`MainEnds` is to be read as "leaving other errors of `accept()` aside". `Exit` is the path of the
exception to the handler around `main()`'s loop, and death by SIGPIPE: in a child it
ends the child, in the single-client server the server.

`Clients` follows the two programs call by call. `cpc[c]` is the next call on
connection c; a connection of echo_client is `<<e, 1>>`, the r-th of a multi_client
thread is `<<t, r>>`, made when the one before is done (`ItsTurn`). A `write()` is a
byte at a time, as the kernel may deliver it. `read()` returns any part of what has
come. `Leave` is what the kernel does at `close()` or `exit()`: a FIN, or a RST if
something is unread; `Refuse` is the RST that answers a later echo. `FinishAlone` and
`Fail` are the two ways a program can go on after the server has closed its
connection (nothing blocks any more), and `Fail` ends the whole process: all threads of
multi_client with it. Clients send 560 or 110 bytes in all, far less than a
receive buffer, so their `write()` never blocks.

### Multi-process server (`ReusePortServer`)

Each process has its own `pc`, loop variable `i` (copied by `fork()`, which is why a
worker that returned from its handler would go on forking), position `rp` in the
address list, and socket. `Socket`, `Bind`, `Listen` and their failures are
`setup_server_tcp_socket()`; `EpollAdd` is `epoll_create1()` and `EPOLL_CTL_ADD`, which
counts as an edge what is queued by then. The event loop is there as far as one
thread doing everything matters: `AcceptAll` for the listening socket, `DispatchRead`,
`ReadData`, `ReadAgain`, `ReadEof` and `ReadError` for a connection, `DispatchClose` for
EPOLLRDHUP. While a worker is in the read branch it does not accept, and here a peer may
`Send` again as often as it likes: what is unread is not counted but a set (`Inputs`), so
the state space stays finite. `QueuedServed` therefore has a premise: it holds if the
peers pause. Without the premise TLC finds a peer that keeps its worker in the read loop for
ever, and with `AtEof = "goes on"`, the copy in the header, an end of file does the same
(finding `spin`); the run is about `main()`, which calls the loop of `server_utility.cpp`.
Batches and descriptor numbers are `EpollLoop`'s subject. `taken` is where other programs have the port. All workers'
sockets have SO_REUSEPORT (the option is given as `SO_REUSEADDR | SO_REUSEPORT`, which
on Linux is the number of SO_REUSEPORT), so they do not exclude each other.

### The abstract service (`EchoService`) and the refinements

Per connection: `phase`, the number of bytes `sent`, whether the client has `ended` it,
and the bytes in `echo`. `Echo` gives back the next bytes in order (any part of them;
with `Lossy`, some may be left out); `End` is of a set of connections, since the exit of a
client program ends all it has; `Stop` closes connections their clients have
ended, or loses those of a process that dies. Each server maps its state by
`Service == INSTANCE EchoService WITH ...`: `phase` is `st`, with "lost" once the process
is gone; `ended` is "FIN or RST arrived"; `echo` is what was written. Everything
else, workers, processes, objects and descriptor numbers, is invisible: the
property `EchoesAsPromised` says that every step of the server is a step of the
service or none. `SelectServer` does not satisfy it (finding `drop`); its `EchoesInOrder` is
the same with `Lossy = TRUE`, and says what is left of the promise.

## Runs

`tlc -config <run>.cfg <module>`. Distinct states are after symmetry.

| Run | Instance | States | Question |
|---|---|---|---|
| `live` | `MCMultiWorkerServer_live.cfg`: 2 workers, 2 connections on 2 descriptors and 2 blocks, 2 bytes, buffer 2, send buffer 1 | 221 k | With numbers and blocks recycled, are object, event, registration and number ever mixed up? Is `OwnershipInv` an invariant? With partial writes and EPOLLOUT, is the echo exact, never empty, never forgotten, an echo service, and complete in the end? |
| `heap` | `…_heap.cfg`: 2 workers, 3 connections, 2 descriptors, 2 blocks, `SharedHeap`, buffer 1, 3 bytes, faults | 1.56 M | With use after free allowed to hit other workers, do `WriteModeIsTransient`, `OverrunAtMostOne` and `ReadsOneBuffer` still hold? |
| `fin` | `…_fin.cfg` | violated | Is data echoed to a peer that half-closes after sending? |
| `uaf` | `…_uaf.cfg` | violated | `ExclusiveAccess` with `SharedHeap`. |
| `start` | `MCServerStart_start.cfg`: both modes, 2 workers, IPv6-only wildcard, descriptor 0 free, faults | 1.6 k | What does a worker take for its listening socket; do failed attempts leave sockets behind; does it ever stop halfway? |
| `reuseport` | `MCServerStart_reuseport.cfg`: reuse-port mode, dual-stack host | violated | Do the workers of the program `server_main.cpp` starts all run? |
| `serve` | `SelectServer_serve.cfg`: 3 connections, 3 descriptors, 2 bytes, faults | 60 k | Are set, maximum and counter right; do the bytes that come back keep their order; is nobody forgotten? |
| `drop` | `SelectServer_drop.cfg` | violated | Is the echo of the `select()` server exact? |
| `loop` | `EpollLoop_loop.cfg`: 3 connections, 3 descriptors, buffer 1, 2 bytes, faults | 46 k | Stale events, lost edges, lost connections, liveness. |
| `spin` | `EpollLoop_spin.cfg` | violated | The copy without `break`: is the queue accepted? |
| `block` | `MCBlockingServer_block.cfg`: both designs; echo_client with 2 turns of 2 bytes, a multi_client thread with 2 rounds of 2 bytes; 2 descriptors, buffer 2, send buffer 1, failing `fork()` | 88 k | What ends the accept loop, is the echo exact, does everyone finish? |
| `reuse` | `MCReusePortServer_reuse.cfg`: 2 workers, 3 process numbers, 2 addresses, 2 clients that may send for ever, faults | 245 k | Who forks; is a queued client ever forgotten by a worker that also reads? |

**Why the bounds are enough for the interesting cases.**

- *Two workers.* The ownership argument is about pairs; the theorems below cover
  any number.
- *Two or three connections.* A number is recycled as soon as one connection is closed
  and another accepted (the lowest free number is given), while the first one's events
  and block may still be in somebody's hands. Three connections on two descriptors (`heap`)
  make it happen twice and fill the table. In `serve` and `loop`, where the scan and the
  batch hold several entries, there are three descriptors, since a full table ends those
  servers.
- *`BufSize` 1 or 2, `MaxBytes` up to 3, `SndBuf` 1.* `MaxBytes > BufSize + 1` (run
  `heap`) reaches the full buffer, the
  overrun by one and the read of 0 bytes. `SndBuf = 1` cuts every echo of two bytes
  short and sends it through EPOLLOUT.
- *`Senders`.* Only these connections' peers send bytes or a FIN; the others connect
  and reset. Runs that are about recycling need the reset, which is the only way
  to have a descriptor closed in the multi-worker server (theorem
  `ClosesOnlyResetConnections`).
- *`block`*: `MaxFds = 2` fills the parent's table with the second of three
  connections, so that orphaned children and late clients occur; two bytes per message and a
  send buffer of 1 make every echo blocking and every read partial. Two rounds
  of one thread are enough for a connection after a failed one; a second thread
  would only be a third client process.
- *`reuse`*: a third process number leaves room for the worker that must not be
  forked (the mutant of `OnlyMasterForks` uses it).
- *`CHECK_DEADLOCK FALSE`* in all runs: the peers may stop, and the process may
  have ended.
- *Failing `epoll_wait()` and EPOLL_CTL_ADD* of the worker loop are in `heap`; `live` has
  none, to stay small. Its safety properties are theorems for every value of the
  constants with `~SharedHeap`, faults and a single descriptor included.

**What `NoLostConnection` leaves out.** In both modules that have one, it names the cases in
which the code gives a connection up without closing it: a FIN or RST that meets
`read()` (or, in the worker loop, EPOLLHUP alone), and a full buffer. It is about lost
rearms and says nothing of those cases; `fin`, `ReadsOneBuffer` and the notes in `PROJECT.json` do.

## Findings

Each is a counterexample of a run marked "violated"; `PROJECT.json` quotes the lines.

1. `uaf`: `closeConnection()` goes on using `conn_fd`, a reference into the
   freed object (lines 377-380). If the block has been handed to another worker's
   `insert()`, two workers use one object, and the new connection's descriptor is
   closed and its `conn_fd_` set to -1. How far this can go is a question of the
   allocator; that memory is used after it is freed is not.
2. `fin`: `read()` returning 0 (line 309) leaves the handler before the echo of what
   was read just before; nothing is written back, rearmed or closed.
3. `reuseport`: in reuse-port mode the workers' sockets are set up without
   `SO_REUSEPORT` (line 72), so the second one cannot be bound and the process ends.
   `server_main.cpp` starts this mode.
4. `drop`: the `select()` server tests the result of `write()` (line 128) for errors only.
   What a full send buffer does not take, or the whole buffer on EAGAIN, is never sent, although
   line 127 says "Echo the data back to the client"; the trace has a client that
   gets back its third byte after the first.
5. `spin`: in `linux_concurrent_server` the read loop does not stop at end of file
   and spins for ever when a FIN arrives after `epoll_wait()`.

Two limits are stated as properties that hold. `ReadsOneBuffer` (run `heap`): the
indices are never set back after an echo, so a connection is read for at most
`buffer_.size() + 1` bytes in its life; then `read()` is called with count 0, returns 0,
and is taken for end of file. `MainEnds` (run `block`): the fork server ends when its table
of descriptors is full of connections it never closed, and the single-client server when a
client resets its connection, which multi_client does when it closes without reading its echo.

Two more disagreements with the text of the code have no run of their own; the models contain
the steps, and no property promises the contrary.

- `server_utility.cpp:196` says "client socket; read as much data as we can". EPOLLRDHUP is looked at
  first (line 151), and closes the connection of a peer that sends and closes at once with
  its data unread (`DispatchClose`). `DataRead` is about peers that keep their connection open.
- `fork_process_per_connection_server.cpp:92` says "Connection closed", and line 93
  calls `close_fd()` in the child. The parent never closes its copy (line 79), so the
  connection stays open, and the client sees no end of file, until the parent and the children forked after it
  have ended (`CopiesInv` in `BlockingServerProofs`, a part of the invariant behind `MainEnds`).

## Fairness

- *Workers, main thread, server process*: weak fairness of `WorkerStep(w)`,
  `MainStep`, `ServerStep`, `LoopStep`, `AcceptLoop`, `EchoLoop(c)` and, per process, `Step(p)`
  of the multi-process server. Each is a thread in a loop of system calls
  that the kernel schedules; a blocked thread is not enabled. Interruption of
  `epoll_wait()` or `select()` is outside the fair part: nothing forces it.
- *Batch order*: the events of a batch are handled in an arbitrary order, but a batch
  is finite and finished before the next `epoll_wait()`, so weak fairness of the
  whole step is enough.
- *Client programs*: in `block` the clients are the repository's own programs, and
  `WF_vars(Client(c))` says that they are scheduled too, and that the kernel answers what
  is sent to a closed socket. `QueueServed` and `ClientsFinish` need it: the single-client
  server waits for one client at a time. Connecting is a step of the program like the
  others. Neither `fork()` nor any other call is required to fail or to succeed.
- *Peers*: nothing is assumed, with one exception. `EchoDelivered` in run `live`
  needs weak fairness of `PeerRead(c)`: a peer that never reads its echo keeps the
  send buffer full, and no server could finish. The violated run `fin`
  uses the same assumption, so its counterexample is not a peer that stops
  reading.
- *How much peers send*: `NobodyForgotten` and `QueuedServed` have the premise that no peer
  sends for ever, because the servers read from one connection until EAGAIN.
  In `loop` and `serve` the bound `MaxBytes` on each peer has the same effect, so
  `QueueAccepted` and `DataRead` are relative to finitely many bytes per peer. Starvation by
  a peer that never pauses is what the code does, not something these runs exclude.
- Every liveness property is relative to the process being up, since SIGPIPE, EMFILE
  and interrupted calls end it.

## Proofs

`tlapm` checks every leaf; no fact is assumed but the named assumptions on
constants (`SndBufAssumption`, `ConstantsAssumption`, `PeerAssumption`,
`StartAssumption`, `SelectAssumption`, `LoopAssumption`, `ClientsAssumption`, `BlockingAssumption`,
`ReusePortAssumption`), which TLC evaluates in the runs.

| Theorem | Module | States | Extra assumption |
|---|---|---|---|
| `TypeCorrect` | `MultiWorkerServerProofs` | `[]TypeOK` | |
| `BoundedOverrun` | | `[]OverrunAtMostOne` | |
| `WriteModeCorrect` | | `[]WriteModeIsTransient` | |
| `ObjectsAreOwned` | | `[]OwnershipInv` | `~SharedHeap` |
| `ExclusiveObjects` | | `[]ExclusiveAccess` | `~SharedHeap` |
| `NoDangling` | | `[]NoDanglingEvent` | `~SharedHeap` |
| `ClosesOnlyResetConnections` | | `ClosesOnlyReset` | `~SharedHeap` |
| `EchoIsExact` | `MultiWorkerServerEcho` | `[]EchoPrefix` | `~SharedHeap` |
| `WritesSomething` | | `[]WriteHasData` | `~SharedHeap` |
| `OneBufferPerConnection` | | `[]ReadsOneBuffer` | `~SharedHeap` |
| `ResetAloneIsSafe` | | `[]SigpipeNeedsFin` | `~SharedHeap` |
| `NoConnectionLost` | | `[]NoLostConnection` | `~SharedHeap` |
| `MultiWorkerServerServes` | | `EchoesAsPromised` | `~SharedHeap` |
| `StartTypeCorrect` | `ServerStartProofs` | `[]TypeOK` | |
| `FailedAttemptsClosed` | | `[]NoLeakedSocket` | |
| `ListenerTaken` | | `[]TakesListener` | |
| `SelectTypeCorrect` | `SelectServerProofs` | `[]TypeOK` | |
| `SetIsOpenFds` | | `[]WatchesOpenFds` | |
| `MaximumIsHighest` | | `[]HighestWatched` | |
| `ScanIsComplete` | | `[]ScanCoversReady` | |
| `SelectEchoesInOrder` | | `EchoesInOrder` | |
| `LoopTypeCorrect` | `EpollLoopProofs` | `[]TypeOK` | |
| `EventsNeverStale` | | `[]NoStaleEvent` | |
| `EdgeNeverLost` | | `[]NoLostEdge` | |
| `ConnectionNeverLost` | | `[]NoLostConnection` | |
| `BlockingTypeCorrect` | `BlockingServerProofs` | `[]TypeOK` | |
| `AcceptLoopEnds` | | `[]MainEnds` | |
| `BlockingServerServes` | | `EchoesAsPromised` | |
| `ReusePortTypeCorrect` | `ReusePortServerProofs` | `[]TypeOK` | |
| `MasterAloneForks` | | `[]OnlyMasterForks` | |

The extra assumption is necessary: run `uaf` refutes `ExclusiveAccess` under
`SharedHeap`, and the theorems after it rest on ownership. The theorems of `ServerStartProofs` hold in both modes: `NoLeakedSocket` leaves
out descriptor 0, which line 438 leaks, and `TakesListener` promises less of reuse-port
mode, where a worker may copy `server_sfd_` after the main thread has assigned a later
worker's socket to it.

**Ownership (`OwnershipInv`).** `ExclusiveAccess` is not inductive: that two
workers do not touch one object now says nothing about who will be handed it next.
The invariant adds the *token* argument. For each object exactly one of these may
hold it: an armed registration, one pending event in one worker's batch, one worker
in the middle of a handler (`TokenInv`). Delivery of an event turns the first into
the second, dispatch the second into the third, `rearmEpoll()` the third into the
first. Around it: the map and the descriptor table agree (`DataInv`, `RegInv`);
an event's object is live (`EventInv`); what a worker touches is live until
`remove()`, and from then on in its own allocator cache (`HoldInv`); a descriptor
that `data_` does not map is known to one worker only (`ClaimInv`), which is why
`insert()` never collides; a connection being closed was reset (`CloseInv`).

`ResetInv` is the subtle part. At lines 320-321 the registration is armed *before*
`reset()`, so a second worker may hold the object's next event while the first still
has to clear the object. It is safe only because of what the event can be: after a
read error the socket is dead and its error consumed, so the event has EPOLLHUP
without EPOLLERR, which the dispatch at line 234 logs and skips.

`TypeInv` and `WriteModeIsTransient` are proved for any allocator, ownership for
`~SharedHeap` only.

**What the clients of the workers see (`EchoInv`, module `MultiWorkerServerEcho`).** Ownership
says that a live object has one descriptor, the descriptor one connection, and that only
the object's worker changes its buffer and takes from its socket (lemmas `HandlerSteps`,
`ObjectStep`). On top of `Inv` four parts are inductive together:

- `FlowInv`: the buffer of a mapped object, then the receive queue, are the bytes its own
  peer has sent, in order from the first (`DataFlow`), and `write_index_` is how many of them are
  written. `NewInv` says that nothing is read of a connection before it has an object.
  Only `reset()` breaks the relation, on a connection that is `Dead`: reset, with
  nothing left to read. `ErrorInv` is why `reset()` meets no other. `EchoPrefix` and
  `ReadsOneBuffer` follow.
- `WorkInv`: a worker is sent to an object only if there is something to read, an end, or
  something to write (`Something`); an EPOLLOUT registration has bytes waiting. So when
  `read()` returns EAGAIN there is something to write (`WriteHasData`): a second event for
  bytes that the first has consumed does not occur, because of EPOLLONESHOT.
- `SignalInv`: a worker that reads or writes has not taken the error of a RST yet
  (`ResetUnseen`); it finds ECONNRESET, which leads to rearm and never to another write. SIGPIPE
  needs EPIPE, which needs the FIN first (`SigpipeNeedsFin`).
- `LostInv`: a registration that is spent has a worker or an event that holds its object
  (`NoLostConnection`). A registration is that of the mapped object until `remove()`,
  which only meets reset connections.

`MultiWorkerServerServes` then maps each step: `WriteData` to `Echo` by `FlowInv`, `CloseFd` to
`Stop` by `CloseInv`, what ends the process to `Stop` of all that are open or
queued; every other step of a worker but `AcceptConn` is invisible.

**Start-up (`StartInv`, `CopyInv`).** `StartInv` relates the main thread's
position to the loop variable and the address list. `CopyInv` has three parts: what
`server_sfd_` and the watched sockets are listens (`ListenInv`); in shared mode no thread
exists while `server_sfd_` can still change, and afterwards the member, the watched
socket and every worker's copy are one (`SharedInv`); in reuse-port mode the sockets
of earlier workers differ from the one the member names (`ReuseInv`).

**`select()` server (`ScanInv`, `EchoInv`).** `ScanInv` is the three run properties with what they
need of one another: `WatchesOpenFds`, `HighestWatched`, `ScanCoversReady`, where the
server is in its scan (`PosInv`), and that a descriptor has one open connection (`FdInv`).
The count of unhandled descriptors goes down by one per handled one (`RestOfScan`), and
what was readable stays readable until its turn, since only the scan closes and reads
(`Goes`). Here the echo loses bytes, so `EchoInv` is weaker than the `FlowInv` of the
others: the receive queue, and before it what is left in the buffer, are consecutive bytes that
come after the last one echoed (`LossyFlow`). That is enough for each `WriteData` to be
an `Echo` of the lossy service: in order, never twice, never to another client.

**Event loop (`LoopInv`).** Type correctness and `NoStaleEvent` need each other
(an event's descriptor is open because its registration is spent); `NoLostEdge` and
`NoLostConnection` are then inductive relative to them. `EndedForGood` in
`TcpSocketProofs` supplies that a FIN or RST is never taken back.

**Blocking servers (`BlockInv`).** `MainEnds` and `CopiesInv` follow from what
the accepting process holds (`MainInv`): while it runs, exactly the open connections, at
most `MaxFds` of them. So a child's exit closes nothing before its parent's, and `accept()`
fails only with the table full of connections. Without `fork()` there is at most
one of them, and it is the one being served (`SingleInv`), so a table can never fill
and only that client's reset can end the loop. `LifeInv` ties the calls of the client to the
life of its connection, and a pending error to a RST.

**Blocking servers are echo services (`SimInv`).** Each step is mapped to one of
`EchoService` or to none: a client's `Connect`, `Write` and its ends to `Connect`, `Send` and
`End`; `Accept` to `Accept`; `WriteData` to `Echo`; end of file, exits and a failed
`fork()` to `Stop`; everything else is invisible. Two facts beside `BlockInv` carry the proof.
`FlowInv`: as long as there is no RST, the echo, the rest of the buffer and the receive queue, put
one after the other, are the bytes sent; so what `write()` takes is always the next
of the echo. `RunInv`: a connection that its client has not ended is held by the parent
about to fork or by its own child, and so no exit of any other process closes it.

**Fork loop (`ForkInv`).** The number of workers is the master's loop variable (`LoopInv`)
and no worker is at the fork loop; `OnlyMasterForks` follows. `AddressInv` says where in
the address list a process that binds is. `TypeOK` includes that a worker reads only from
an open connection of its own whose registration is spent, and that queued and accepted
clients are at processes whose sockets are open.

**Model-checked only.** All liveness (`EchoDelivered`, `ClientsAccepted`,
`AllWorkersOrExit`, `NobodyForgotten`, `DataRead`, `QueueAccepted`, `QueueServed`,
`ClientsFinish`, `QueuedServed`), which is out of the prover's reach. Every invariant and
every action property that a passing run checks has a theorem, and so has each of the three
refinements; but with a shared heap `ReadsOneBuffer` is only checked (run `heap`), since its
proof needs the ownership that `SharedHeap` destroys.

## What is not modelled

- *What orphans of the fork server do to a restarted one*: they keep the listening
  socket; a new instance is another program at the port.
- *`wait()` and zombies, argument parsing, process names*: no modelled state depends on
  them. (The `wait()` at the end of the reuse-port worker is never reached.)
- *`std::cout << buffer`* of bytes that `read()` does not terminate: output only.
- *Segments, timers, TCP state machine, backlog limits*: the kernel's business; the
  servers see only what `TcpSocket` returns. `EPOLLEXCLUSIVE` only limits how many
  workers wake up; that any subset may is already in the model, where every worker
  may be reported the listening socket.
- *Descriptor numbers from FD_SETSIZE up*: `FD_SET()` past the set is outside
  `SelectServer`.
- *`ready_for_write_` in a shared block*: `WriteData` and `ReadEof` of `MultiWorkerServer` treat
  the flag as the handler's own. With `SharedHeap`, where another worker may hold
  the same block, this is a simplification; no property of run `heap` or `uaf` turns on it.
- *Errors of `accept()` and `accept4()` other than EAGAIN and EMFILE*: they end the
  `select()` server and the blocking ones in the way EMFILE does.
- *Memory order*: each worker's step is atomic. The unsynchronised read of
  `server_sfd_` in `ServerStart` is modelled as the value the member has at that
  moment; a value torn within an `int` is not.
- *Logging, `getaddrinfo()` failures, argument parsing*: output and set-up that
  no other state depends on.

## Plan

Done, in this order: `TcpSocket`, `MultiWorkerServer` (the core, with its invariant
and proofs), `ServerStart`, `SelectServer`, `EpollLoop`, the theorems about them,
`EchoService` with its refinements, `Clients` with `BlockingServer`, `ReusePortServer`, the
theorems about the last two, the theorems about `SelectServer`, those about the echo of
`MultiWorkerServer`, and the proofs that the servers implement `EchoService` (the `select()`
server its lossy form), the read branch of `ReusePortServer`.
Every component that keeps state is modelled, and every safety property the runs check is
proved.

Next, in this order:

1. How much of the echo survives `SharedHeap`: whether `ReadsOneBuffer` holds there for
   any number of workers and blocks is open, and needs an invariant weaker than ownership.
2. The safety half of the liveness properties, as invariants of their own: for
   `NobodyForgotten`, that a queued client keeps the listening descriptor readable;
   for `QueuedServed`, that some worker's socket still has the edge to come.
3. A refinement of `EpollLoop`, whose handler is a parameter, by a service that
   promises to read everything.
