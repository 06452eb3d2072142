# TLA+ models of the messaging programs of practice_project

The repository (`src/c/old_practice`) holds three generations of a small
client/server messaging program in C (`work_srcs/socket_tcp`, then
`work_srcs/socket_udp`, then `work_srcs/socket`, which speaks both protocols), the
libraries they use (`lib_srcs`), and a few sorting exercises
(`practice_srcs/sort_algo`). There are no automated tests of the concurrent
parts; the models here say what those parts promise and check it.

Paths below are relative to `src/c/old_practice`.

## 1. Inventory

### work_srcs/socket: the newest programs

| Part | State | Operations | Talks to |
|---|---|---|---|
| Thread pool (`common/thread_pool`) | mutex, condition variable, task list, `cur_tasks_cnt`, `cur_threads_cnt`, argument copies | create, add a task with or without a copy of its argument, the loop of each pool thread | every other part submits to it |
| Server event loop (`server/server_epoll`) | epoll set, events of one `epoll_wait`, descriptors | `epoll_wait`, dispatch by descriptor, `accept`, read standard input | submits handlers to the pool |
| Handlers (`server/server_socket`) | locals of the pool threads | receive over TCP/UDP, register, acknowledge, tear down, forward, broadcast | registry, message queue, sockets |
| Client registry (`server/cli_sqlite3`) | table `CliInfo` under a mutex | insert or update, delete by descriptor, look up, send to all | called by the handlers |
| Message queue (`common/sock_msg/msg_queue`, `server/server_msgqueue`) | a list behind a lazily created pointer, a mutex | put in, take out | pool threads put in, one thread takes out and submits a task |
| Client (`client/*`) | link type, two descriptors, the flag `init_cli_info`, a receiving thread | switch links, register with retries, send, receive, close on end-of-file | the server, over either link; its own pool |

Hard here: pool threads that handle two events of one edge-triggered blocking
socket at once; descriptor numbers reused by `accept` or `socket` while another
thread still holds them; a registration, a teardown and a message of one client
handled by three threads in any order; the unlocked first use of the queue; a
client that closes a descriptor on which its other thread is blocked.

### work_srcs/socket_udp

The same server with UDP only. Its pool (`common/thread_pool`) signals one thread
after the unlock and retries failed thread creations; its registry is a list to
whose head every registration is added (`server/clientinfo_list`); its client
(`client/*`) registers with five tries and then opens a menu. Hard here: datagrams
that are lost, late or share an edge; one signal per task; buffers filled again
while pool threads still have to send what was in them; an acknowledgement that
races the last look at the flag.

### work_srcs/socket_tcp

The oldest server and client: one thread per stage, connected by the list queue of
`lib_srcs/lib_queue/link`, which has no lock.

| Part | State | Operations | Talks to |
|---|---|---|---|
| Server, thread SrvEp (`server/server_epoll`, `server/server_socket`) | epoll set, `epEventsArr` | `epoll_wait`, accept, broadcast what is typed, receive, register, tear down, put into the queue | the list of clients, the queue, sockets |
| Server, thread SrvProMsg (`server/server_socket`) | its copy of a message, two node pointers | take out of the queue, look sender and receiver up, display, forward | the same list, the same queue |
| List of clients (`server/client_info`) | `cliInfoManager` | add, save an id, delete by descriptor, look up | both threads, without a lock |
| Client, threads CliRecv, CliProMsg, CliUI (`client/*`) | `RX_BUF`, `TX_BUF`, `initCliInfo`, the queue | register, receive and put in; take out and show; menu, read a line, send | the server; each other, through the buffers and the queue |
| List queue (`lib_queue/link`) | `front`, `rear`, nodes | put in, take out | one thread at each end |

Hard here: everything is shared and nothing is locked. One thread frees a queue node
while the other looks at it; SrvProMsg walks a list from which SrvEp unlinks and frees
nodes; CliUI reads the user's line into the buffer CliRecv receives into; events of
sockets are merged, and a blocking call for an event that has nothing would stop the
server.

### Libraries and exercises

`lib_srcs/lib_queue/seq`: an array ring that keeps one slot free.
`lib_srcs/lib_dbgout`,
`socket/libsrcs/logout`: formatting and writing of log lines.
`practice_srcs/sort_algo`: six sorting functions.

### What makes each part correct

* Pool: a task entered runs exactly once and in order, no thread sleeps on a queued
  task, argument copies are freed exactly once after their handler.
* Servers: no pool thread blocks for ever; the end of one connection never touches
  another; an acknowledged registration holds; a message reaches its addressee and
  nobody else, at most once, and in the end.
* Clients: one open link, a flag that does not outlive its link, a switch ends, what was typed is
  what is sent, buffers have one owner.
* Queues: contents, order and capacity; nothing lost at first use, nor between two
  threads without a lock.
* Sorting functions: the elements of the input in order, indices inside the arrays.

The list of everything that is hard to test, with the line where it bites and the
properties about it, is `hazards` in `PROJECT.json`.

## 2. Modules

| Module | Models | Uses |
|---|---|---|
| `TaskPool` | abstract: what a thread pool promises (enter once, start in order, finish once) | |
| `ThreadPool` | `socket/common/thread_pool`, one action per step between lock, wait, unlock, handler and free | implements `TaskPool` |
| `ThreadPoolProofs` | theorems about it | `ThreadPool` |
| `SocketServer` | epoll thread, handlers, registry, queue, message thread of `socket/server` | the pool as `TaskPool` promises it |
| `SocketServerProofs` | theorems about it and about the message queue | `SocketServer`, `MsgQueue` |
| `SocketClient` | `socket/client` | the same |
| `SocketClientProofs` | theorems about it | `SocketClient` |
| `MsgQueue` | the lazily created message queue of `socket` | |
| `UdpThreadPool` | `socket_udp/common/thread_pool` | implements `TaskPool` |
| `UdpThreadPoolProofs` | theorems about it, and in a section of their own about the ring queue | `UdpThreadPool`, `SeqQueue` |
| `UdpServer` | `socket_udp/server` | the pool as `TaskPool` promises it |
| `UdpServerProofs` | theorems about it | `UdpServer` |
| `UdpClient` | `socket_udp/client` | the same |
| `UdpClientProofs` | theorems about it | `UdpClient` |
| `BoundedFifo` | abstract: a bounded queue | |
| `SeqQueue` | `lib_queue/seq` | implements `BoundedFifo` |
| `LinkFifo` | abstract: what the list queue promises one producer and one consumer | |
| `LinkQueue` | `lib_queue/link`, one action per step between shared accesses | implements `LinkFifo` |
| `TcpClient` | `socket_tcp/client` | extends `LinkQueue` |
| `TcpClientProofs` | theorems about the list queue and about the client that uses it | `TcpClient` |
| `TcpServer` | `socket_tcp/server` | extends `LinkFifo`: the queue as it is promised |
| `TcpServerProofs` | theorems about it | `TcpServer` |
| `SortAlgos` | `practice_srcs/sort_algo` | |
| `MCStandalone` | runs one of `SeqQueue`, `MsgQueue` and `SortAlgos` | these three |
| `MC...` | model values, symmetry and instances of the module after `MC` | |

The two pools are shown to implement `TaskPool`, and the servers and clients use
exactly that: submitting is one step that appends to `taskq`, and an idle pool thread
takes its head. In the same way `TcpClient` runs with the list queue step by step, where
it is shown to implement `LinkFifo`, and `TcpServer` uses `LinkFifo`. Variables have the names of the C variables where these exist;
variables marked *history* in the modules do not exist in the code and only serve the
properties. Operators whose name is that of an action with a word added, and whose
comment begins with "Mutant", are the same action with a plausible slip; no
specification uses them, and each makes the property it is listed with fail.

### Granularity

An action is the code one thread runs between two points where another thread could
notice. What runs under a mutex is one step, except in `ThreadPool`, where the mutex
itself is part of the question. A system call is a step of its own when another
thread may act before or after it. Sleeps let any time pass.

### What is external

The kernel (descriptor numbers lowest first, blocking sockets, edge-triggered epoll
that merges edges not yet reported, end-of-file, reset, SIGPIPE, a blocked `recv`
that outlives a `close` by another thread), SQLite, the network (datagrams lost and
reordered) and the user are modelled from how the code uses them. These definitions
are marked external in `PROJECT.json`.

One external behaviour decides a result: on Linux, `close` of a descriptor does not
wake a thread blocked in `recv` or `recvfrom` on it. `SocketClient` follows this
(operator `Alive`).

## 3. The modules and the code

**ThreadPool.** `pcW` and `pcS` follow `pool_task_process_thread` and
`add_task_to_pool_*`: lock, `en_queue`/`de_queue`, broadcast or wait, unlock,
handler, free. `pthread_create` may fail in any round (`CreateThreadError`), and
`pthread_cond_wait` may return unsignalled. `destroy_thread_pool` is never called.

**SocketServer.** `fdt` is the descriptor table, `row` the table `CliInfo`, `rx` what
the kernel holds per socket, `ready` the sockets with an edge, `events` what is left of
the array of one `epoll_wait` (in any order: the code does not depend on it), `wk` the
pool threads with their locals. `peer` is what the kernels know of a connection: its
client is there (`open`), has finished it (`fin`) or reset it (`rst`, an error the server
still has to see, then `gone`), or answered a late write by a reset (`reset`). A `recv`
is one of three actions, for its three results. A connection's teardown is the
code's three steps in the code's order (`EpollDel`, `DelTcpCliByFd`, `CloseFd`), a
registration two (row, then acknowledgement), forwarding two (look up, send). The
broadcast holds the registry's mutex from the first row to the last. The `UPDATE` of
a UDP registration names a column the table does not have, so it changes nothing.

**SocketClient.** The interface thread and the receiving thread each run
`try_destroy_client_*` in the steps check, reset flag, load, close, zero;
`SwitchSocketType`, `InitSocket`, `Connect` and `InitClientInfo` (two registrations,
four looks at the flag) follow. A pool thread loads the descriptor in one step and
uses it in the next. What a socket holds is dropped at the first `close()` after
which nobody can read it. An acknowledgement sets the flag whatever link it is of, as in the
code. Two history variables say whose flag it is: `flagBy` is the socket of the
acknowledgement that set it and whether its link had been left by then, `lingering` the
sockets of which an acknowledgement was under way inside the client when the flag was
last cleared.

**MsgQueue.** Both unlocked looks at the pointer (`Called`, `InitSrvMsgQueue`), the
creation, and `list_add`/`next` under the mutex.

**UdpThreadPool.** The creation loop with both bounds, `AddTaskToPool` up to the
unlock, and the signal as a step of its own.

**UdpServer.** `infoList` is the list with the newest node first. A handler receives,
adds the node, acknowledges, or puts the message into the queue; the message thread
copies it into a task; the task shows it, or looks the node up and sends. Looking up
a client without a node crashes the server (the result is copied without a test). A
registration is an address and the number of the try: the client repeats it, so that
repeats of an old address may be handled before, between and after those of the new one.
`newest` is history: for each message the address its addressee had registered last when
it was sent, and those registered since.

**UdpClient.** `mem` is the heap: allocated buffers and their contents. A
registration's buffer is handed to its task; a line's is copied; both are freed by
the task. `TxBuf` lives while the user types.

**SeqQueue.** Indices, the array and the `%` of every step.

**LinkQueue.** `en` and `de` are the two threads inside `EnLinkQueue` and
`DeLinkQueue`. The test at `link_queue.c:63` is two steps, the load of `front` and the
look at its data, between which the other thread may clear and free the node; what is
then found is left open. An element not copied for that reason is `Junk`. `LinkFifo`
keeps exactly this: a put that begins while a node is being cleared, or that sees one
cleared before it copies, may leave `Junk`; no element is lost, repeated or out of
order. Nodes get fresh numbers, which loses nothing: the only address a thread keeps
across the other's steps is the producer's `front`, between two of its own `malloc()`s.

**TcpClient.** Of each buffer the model keeps what the properties tell apart: the header
received last, who wrote the body last and whether something else's end follows it. The
history variable `met` records the buffers in which the two threads overlapped. Messages
are numbered by the server, so that the order of display is visible. The connection may
be refused (the program goes on) or closed at any time.

**TcpServer.** SrvEp's handlers are one step each up to the queue, as no other thread
touches sockets' input, epoll set or the links of the list. SrvProMsg's walks are one
step per node. A read of a freed node makes the program `undefined`, of NULL `crashed`,
and neither is followed further. `early`, `stale` and `merged` are history: a message
for a client not registered, a descriptor closed between its load and the `send()`, and
sources of which one edge stood for two items. A `write()` to standard output that fails
(`server_socket.c:182-187`) is left out, and a client sends after it has registered. The branch "no rules this fd" is left
out: `RegistryExact` shows that every event is that of a node.

**SortAlgos.** One step per round of the outer loop, for the quick sorts per round of the
partition loop; `Sift` is the inner loop of both insertion and shell sort. Indices are
C's, and reading outside an array is an error of the evaluation.

## 4. Runs

Sizes are small because every hazard listed needs two threads or clients, or three at
most: a third pool thread adds the case that one holds a stale local while two others
finish a connection and reuse its number.

| Run | Instance | Checks |
|---|---|---|
| `pool` | 3 pool threads, 2 submitters, 3 tasks of which 2 copy their argument | exact count, no lost wake-up, exact argument memory, `TaskPool`; every task is handled, if one thread exists |
| `server` | 3 pool threads, 3 connections on 2 descriptors, a UDP address, 2 messages, a line to broadcast; any 5 items, edges shared | no blocked thread, no connection taken down by another, registrations kept, no misrouting, a message in one place |
| `server_live` | 2 pool threads, 2 connections, a message, items spaced | messages are delivered, unless the addressee is not registered or leaving; descriptors of finished connections given back |
| `server_udp_reregistration` | a client goes from TCP to UDP | violation, finding 1 |
| `client` | 2 pool threads, 2 switches, or a switch and a typed message | one open link; the flag is the present link's, or was set late by an acknowledgement that was under way; no SIGPIPE (in `OneLink`) |
| `client_live` | 1 switch, a message of the server (on either link), links the server ends | a switch returns, an acknowledgement is heard unless the receiving thread still waits on the old link, an ended link is closed |
| `udp_pool` | 3 threads of 5 rounds, 2 submitters, 4 tasks | the pool fills, wake-ups suffice, `TaskPool` |
| `udp_server` | a client with 2 addresses, 2 tries to register the first, a message to it and one to the server, 2 pool threads, shared edges | no blocked thread, known clients served (the address registered last or since, no crash, a message in one place), which copies are allocated; messages settled unless edges were shared |
| `udp_client` | 2 tries, 2 lines, 2 ends, a message from another client | buffer ownership, lines as typed, the menu only for the registered; an acknowledgement in time opens the menu |
| `tcp_client` | 2 messages of the server, a line and a "!!quit" to either end | `LinkFifo`, messages shown in order with their bodies, lines sent as typed; every message shown in the end |
| `tcp_server` | 3 connections on 2 descriptors, 2 messages from a client to another and one to the server, a line; any 6 acts of clients and terminal | list, epoll set and descriptors agree, no call blocks, delivery, no NULL while registered clients stay; messages delivered and connections given back unless edges were merged |
| `standalone` | ring of length 4 with 3 values; 2 producers, the message thread, 3 messages; arrays of up to 6 elements with 3 values | `BoundedFifo` through every wrap-around, nothing replaced or lost after the first use, every function sorts (bubble sort up to its missing pass) |

Each module's `TypeOK` is checked as a conjunct of the invariant that says where things
are: `NoMisroute` and `KnownClientsServed` (through `MessageOnce`), `OneLink`,
`PoolFull`, `BuffersOwned`, `ShownAsReceived`, `RegistryExact`. Every `TypeOK`
is also proved (section 6).

Six acts are what `tcp_server` needs: two clients that connect and register, a message,
and an end, a reset, a third connection or a line that meets it on its way. The two
messages of the client and the "!!quit" are what `tcp_client` needs for a put to overlap
the clean-up of the element before, and for the menu to be left and entered again.
Two tries for the old address of `udp_server` are what it takes for a repeat to be
handled after the new address has been added and acknowledged; more tries, and the code
makes up to five of each, alternate the two addresses further; the proof is for any number.
`standalone` exercises one of its three parts in a behaviour.

Bounds are constants: `Task`, `Data`, `Line`, `Note`, `Msg`, `Conn`, `UdpAddr`,
`Addr`, `Lines`, `MaxSwitch`, `MaxData`, `MaxMsg`, `Tries`, and `MaxActs`, which caps
the sum of the environment's acts where each alone would be too weak a bound: the
items that arrive at the server's sockets (five are a connection with its registration,
a message, an end-of-file and the next connection on the same number), and the
switches and messages of the client. Two bounds cut more than a number:

* `Spaced = TRUE` lets an item arrive at a socket of `SocketServer` only when the
  previous edge has been reported. `server_live` uses it, because without it the code
  does stall: two items that share an edge make one event, an event reads once, and the
  second waits for a third. `server` has `Spaced = FALSE`. `UdpServer` has the same
  stall; there the history variable `merged` says whether it can have happened, and
  `MessagesSettled` excuses it.
* A behaviour of `SocketClient` ends at the first irregular step (below), one of
  `TcpServer` where the program is no longer up.

Deadlock is not checked where everything may rightly come to rest: all tasks done,
users and clients silent.

### What the properties assume

The code leaves windows open that no property can close. They are stated in the
models as `Regular` and the properties hold up to them; TLC finds counterexamples in
`server` and `client` when `Regular` is replaced by TRUE.

* `SocketServer`: a pool thread uses a descriptor number after another one has closed
  the connection it stood for (a message or an acknowledgement then goes to the next
  owner of the number, or a row names a free one); and a write to a connection whose
  client has closed it, which brings a reset and so a second event, so that two
  threads tear the connection down, the second hitting whoever has the number by
  then. After the reset `recv` fails and the handler returns without closing anything;
  a second write raises SIGPIPE, which the server does not handle.
* `SocketClient`: both threads in `try_destroy_client_tcp` at once (the second `close`
  hits standard input, or the new socket), a descriptor number used after the
  variable it came from has changed, and a message that is sent when the link it was
  for has been left. An acknowledgement that is noted after its link was left is not
  assumed away: `FlagTruthful` says where it can come from.
* `UdpServer`: `NoCrash` is about messages to clients that were acknowledged when the
  message was sent. A message to anybody else ends the server. `DeliveredToNewest`
  takes the order in which registrations are handled for the order of the client's
  moves, as the code does.
* `TcpServer`: `StaysUp` is about clients that stay and register before they send (the
  client's interface thread does not wait for that), and messages to registered clients:
  when a connection ends while SrvProMsg walks the list, it may read a freed node, and
  a message from or to somebody who is not in the list ends the server.
  `DeliveredInOrder` is about sends on descriptors still open.
* `TcpClient`: what a message's body, or a line, is when both threads were busy with the
  same buffer is left open; headers and order hold even then. A message for which the
  queue's copy was skipped is displayed as whatever the memory held.
* The queue and the buffers of `socket_tcp` are created by their first user without a
  lock, as the queue in `MsgQueue` is; `TcpClient` and `TcpServer` begin after that.

## 5. Fairness

Every liveness property uses weak fairness of the steps of each of the program's own
threads: the operating system runs a thread that can run, and `epoll_wait` reports
what is ready. Nothing is assumed of users, clients, the network or the server a
client talks to, and nothing makes a thread wake unsignalled. `ThreadPool` needs
strong fairness of taking the mutex for a submitter (`SubmitLock`): threads that wake
for nothing may take it again and again, and a waiter must not be passed over for ever
while it keeps becoming free. The number of tasks is finite, so pool threads need only
weak fairness.

## 6. What is proved

With TLAPS, for every value of the constants: any threads, clients, connections,
messages and descriptors, any lengths and counts. Every module has a theorem
`Invariance` (for the list `LinkInvariant`) that says `Spec => []IndInv` for its inductive
invariant, from which the others follow; for the message queue it is
`QueueInvariance`, and the ring's type invariant (`RingTypes`) is inductive by itself.

| Module | Theorems (the property a run checks) |
|---|---|
| `ThreadPoolProofs` | `TypeCorrect`, `TaskCount` (`TaskCountExact`), `Wakeup` (`NoLostWakeup`), `ArgMemory` (`ArgMemoryExact`), `Refinement` (`ImplementsTaskPool`) |
| `UdpThreadPoolProofs` | `Full` (`PoolFull`), `Wakeups` (`WakeupsSuffice`), `Refinement` (`ImplementsTaskPool`) |
| `SocketServerProofs` | `Unblocked` (`NoBlockedWorker`), `OthersServed` (`LiveConnServed`), `RegistrationsHold` (`RegistrationKept`), `Routing` (`NoMisroute`) |
| `SocketServerProofs`, on the message queue | `QueueSettles` (`SettledForGood`) |
| `SocketClientProofs` | `OneLinkOpen` (`OneLink`, with `TypeOK` and `NoSigpipe`), `FlagIsTrue` (`FlagTruthful`) |
| `UdpServerProofs` | `HandlersHaveDatagrams` (`NoBlockedWorker`), `ServesKnownClients` (`KnownClientsServed`), `CopiesAccounted` (`CopiesExact`) |
| `UdpClientProofs` | `BuffersAccounted` (`BuffersOwned`), `LinesSentAsTyped` (`LinesAsTyped`), `MenuOnlyRegistered` (`MenuMeansRegistered`) |
| `TcpServerProofs` | `RegistryAgrees` (`RegistryExact`), `NeverBlocks` (`EventsBacked`), `InOrder` (`DeliveredInOrder`), `ServerStaysUp` (`StaysUp`) |
| `TcpClientProofs` | `LinkRefines`, `QueueInClient` (both `ImplementsLinkFifo`), `InOrderShown` (`ShownAsReceived`), `SentAsTyped` (`LinesAsTyped`) |
| `UdpThreadPoolProofs`, on the ring | `RingTypes` (indices stay inside the array), `RingRefines` (`ImplementsFifo`) |

*Assumptions.* Each module names its own, and TLC evaluates them in the runs. They say
what the program tells apart by type, address or number (`ThreadsDistinct`,
`TasksAssumption`, `NoTaskAssumption`, `NoneAssumption`, `NamesAssumption`,
`DataAssumption`, `TcpServerAssumption`), who is at the other end of a link and where a
message goes (`LinksAssumption`, `NamesAssumption` of `UdpServer`), how often it registers
(`TriesAssumption`), that a program has
finitely many threads, descriptors and connections (`BoundsAssumption` and the others
that say `IsFiniteSet`: the proofs count them), and that the values in the client's list
are its messages (`ElementsAssumption`). `initThreadsCnt` is at most the number of
threads there are to make (`CountsAssumption`). The ring has a length and an element
for `calloc()` to leave (`QueueLenAssumption`, `ZeroAssumption`); the message queue needs
no assumption at all.

### The arguments

*ThreadPool.* None of the properties is inductive alone. The count is exact
only because `de_queue` and `cur_tasks_cnt--` happen under one mutex, so `MutexInv`
says who is between lock and unlock, and who holds the mutex. The memory is exact only
because a task is in one place: `PlaceInv` says that a thread's local task, a
submitter's and the queue's are all different and that each task's stage names its
place. `NoLostWakeup` needs `MutexInv` again: a thread decides to sleep while it holds
the mutex and finds the queue empty, and a submitter fills the queue under it. The
proof of `NextInd` has one step per action and under it one per conjunct. The
refinement maps `fresh` and `submitting` to `new`; enqueueing is `Submit`, dequeueing
`Start`, the handler's return `Finish`, and every other step stutters.

*UdpThreadPool.* The creation loop is a count: threads made are rounds minus failures
(`CreateInv`). `WakeupsSuffice` is inductive once threads and signals are counted: a
signal wakes one sleeper if there is one, and a thread sleeps only on an empty queue.

*SocketServer.* The hard property is `NoBlockedWorker`, because any number of events of
one socket may be on their way. `BackedInv` counts: for each descriptor the threads that
will read from it or are closing it, the tasks, the event and the edge together are at
most as many as the items that have arrived. It needs `TearInv` and `AddInv` (a
connection enters the epoll set once, after which its descriptor has no user yet; who
tears it down has seen its end, which is the last item, so that nobody else is there),
and these give `ServedInv`. Without a reset an end-of-file is one item, hence the
teardown is done by one thread (`Ends`); this is where `Regular` comes in. Rows name
open connections because a teardown deletes them before it closes (`RowInv`), so a
number that is reused is in no row; `AckInv` and `RouteInv` follow. That a message is in
one place (`OnceInv`) counts its places and does not need `Regular`, nor do the types and
the tables (`TableInv`, `ItemsInv`).

*The message queue.* `MqInv` ties the pointer to the newest list and has every message
put in be taken out or in one of the lists. Once `Settled` no thread is on its way to
create another list, and none sets out, because each looks at the pointer first: the old
lists, and what is lost in them, are never touched again.

*SocketClient.* Every step of the program needs `Regular`, so a state that is not is
the last but for what the network still does, and `IndInv` claims of it only types,
counts, that standard input is open, and `NoSigpipe`. The rest is `LinkInv`. Only one of
the two variables names a descriptor, that of the present type or, during a switch, that
of the type being left (`FdInv`); only one thread destroys a link, and between its `close()` and its assignment
of zero the number it holds is free (`DestroyInv`); so the table holds the newest socket,
under that number, or nothing (`TableInv`). This is why 0 is never closed and a number
never belongs to another socket. `FlagTruthful` follows from the order in
`try_destroy_client_*`: the flag goes before the link, so one that was set in time is
that of the present link (`FlagInv`). One that is set late needs `VouchInv`: whatever
acknowledgement is in the pool's hands, and whatever socket `recv()` waits on, is of the
present link or was there when the flag was last cleared, in which case `lingering` has
it. The receiving thread can come to wait on a socket that is being left only if it was
on its way when the flag was cleared, as the number it has is compared with the variable
by `Regular`. That the acknowledgement was read at all is in `TasksInv`.
`TasksInv` also says that nothing is sent on a new TCP
socket before `connect()` has returned, which with `ConnInv` gives `NoSigpipe`.

*UdpServer.* `EventInv` is the same count for the one socket, and `OnceInv` counts the
places of a message. That an address left before is not used is a fact about the list:
its first node of a client is always in `newest` of that client's messages (`OrderInv`),
because the node added last is put at the head; from the look-up to the send
`DeliveryInv` keeps the address, as `newest` of a message that was sent only grows. An
acknowledged address is in the list already (`KnownInv`), hence `NoCrash`.

*UdpClient.* Each buffer is the argument of one task (`UniqueInv`), so that a pool thread
frees its own; the count of allocated buffers is that of the tasks (`OwnedInv`). What a
buffer holds can be told from its name (`ContentInv`): it is not written again after its
task was made. `RegInv` follows a registration from its buffer to its acknowledgement.

*TcpServer.* `TableInv` ties list, epoll set and descriptor table to each other.
`BackedInv` has an item for every event and every edge. Order of delivery is the relation
`Leads`, which says of two messages which is further on; `OrderInv` says that of one
sender's it is the earlier. `StayInv` is what holds while clients stay: nodes stay, a
sender is registered before its message is handled, and a walk is never behind the node
it looks for (`Ahead`), so that it finds it.

*The list, and TcpClient.* The refinement is not inductive alone. The consumer's `tmp` is
the node after `front` only because every node before `rear` is linked to the next
(`ListInv`), which the producer completes before it publishes the node (`RearInv`); the
two threads never write the same node's data because exactly the nodes from `front` to
`rear` are allocated (`NodesInv`). `LoadedInv` is what makes the unlocked test harmless
but for one case: the `front` the producer has loaded is the present one or a freed node,
so it finds no data only if a clean-up has begun since the put did, or was under way then.
The load of `front` is `BeginPut`, the copy `Fill`, the new `rear` `EndPut`, the copy out
`Get`, the two assignments of NULL `Clear`, the new `front` `EndGet`; the rest stutters.
`LinkRefines` is about the queue by itself (`LinkSpec`), `QueueInClient` about the whole
client. In the client node n of the list holds message n or `Junk`, and the socket holds
the messages that follow: with that the order of display is a fact about one number.

*The ring.* The abstract contents are the slots from `front` to `rear`, around the
end; the proof shows that each operation changes them as `BoundedFifo` says, with the
cases of wrapped and unwrapped contents apart.

### Only model-checked

* All liveness (`TasksServed`, `MessagesSettled`, `FinishedConnReclaimed` and the others):
  fairness and ENABLED are out of the prover's reach.
* `Sorts`: what a loop computes for every array needs an induction over data.

## 7. Findings

1. `server/cli_sqlite3/cli_sqlite3.c:147` (socket): a known client that registers over
   UDP is acknowledged but keeps its old row, because the statement names the column
   `addr` and the table has `ipaddr`.

Met while modelling, and stated as what the code does:

* `client/client_socket/client_tcp.c:81` (socket): after a switch the receiving thread
  is still blocked on the old socket; unless a message arrives there, the
  acknowledgement of the new link is never read and the client reports a link error
  although the server has registered it (`Deaf`, which `AckHeard` excuses).
* `client/client_socket/client_socket.c:168-177` (socket): an acknowledgement that is noted
  after its link was left sets the flag for the new link, which is then not registered if it
  comes before the first look
  (`flagBy.late` in `FlagTruthful`).
* `common/sock_msg/msg_queue/msg_queue.c:25` (socket): the message queue is a stack. `common/list.h:70` says of `list_add`, which it uses, "This is good
  for implementing stacks."
* `server/clientinfo_list/clientinfo_list.c:60` (socket_udp): a repeat of an old
  registration that is handled after the client's new one puts the old address back at
  the head of the list, and messages go there (`newest` counts it as a move back).
* `server/server_udp/server_udp.c:137` (socket_udp): the copy of each message to the
  server itself is never freed (`CopiesExact` counts it among the allocated).
* `client/client_interface/client_interface.c:38` (socket_udp): the flag is read for
  the last time before the error loop; an acknowledgement after that is never noticed
  (`AckInTimeOpens` is about the earlier ones).
* `lib_queue/link/link_queue.c:63`: whether the value is copied is decided by the data
  of the front node, which the other thread may be clearing: the element is then
  uninitialised memory (`Junk` in `LinkFifo`).
* `client/client_socket/client_socket.c:68` (socket_tcp): the user's line is read into
  the buffer of the receiving thread (`met` in `TcpClient`).
* `server/server_socket/server_socket.c:147, 150, 194` (socket_tcp): results of look-ups
  are dereferenced without a test.
* `sort_algo/bubble_sort.c:10`: one pass too few, so that the two largest elements may be
  the wrong way round (`Sorts` leaves them open).

## 8. Plan

Done: the two pools, the servers and clients of all three generations, the message
queue, both queues of `lib_queue`, the sorting functions, the proofs of section 6.

Next: the unlocked first use of the registry (`cli_sqlite3.c:31`), where the second
creator removes the first one's file.

Not planned: logging and printing, message packing and the checksum (no receiver
compares it), the Linux `list.h`, start-up errors, and the destroy functions, which no
execution reaches because `main` never leaves its loop.
