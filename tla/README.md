# A TLA+ model of nbstftp

nbstftp is a single-threaded TFTP daemon (RFC 783, options of RFC 2347, 2348,
2349). This directory holds TLA+ modules of its core, the TLC configurations
that check them, and TLAPS proofs. Paths like `process.c` are under `src/src/`.

Contents: 1 inventory, 2 modules and their correspondence to the code,
3 what is checked, 4 what is proved, 5 what the runs found, 6 abstractions,
7 plan.

## 1. The system

```
main.c   loop:  CheckClients ──► ProcessSockets (multiplexer)
                    │                 │  epoll_wait, one event after another
                    │                 ├─ error/hangup ─► DestroySocket
                    │                 ├─ writable ────► SendPackets (all clients)
                    │                 └─ readable ────► ReceivePackets
                    │                                     FindOrAllocateClient
                    ▼                                     ProcessPacket
              QueuePacket ◄──── SendData / Acknowledge / Error / OptionAcknowledge
                    └─ SetSocketStatus: asks for EPOLLOUT
```

| Component | State it keeps | Operations | What makes it correct |
|---|---|---|---|
| packets (`packet.c`) | none; fills and queues packets | SendData, Acknowledge, Error, OptionAcknowledge | a DATA packet carries the block its number names; what is kept for retransmission is the newest packet; an error ends the client |
| packet processing (`process.c`) | the client record | one branch per opcode of ProcessPacket, options, early returns | a transfer has a file; block numbers wrap like the true count; every transfer ends; files are closed |
| client pool (`client.c`) | `clientpool` | FindOrAllocateClient, AddClient, RemoveClient, FindClient, CheckClients | at most one client per descriptor and port; clients marked `destroy` are reaped |
| sockets (`socket.c`) | `socketpool`, packet queues | InitializeSockets, AddSocket, FindSocket, DestroySocket, QueuePacket, SendPackets, ReceivePackets, ShutdownSockets | socket entries and clients stay in step; an event finds the listener's entry; every queued packet is sent |
| epoll multiplexer (`multiplexers/multiplexer_epoll.c`) | write interest per descriptor, the events vector | AddToMultiplexer, RemoveFromMultiplexer, SetSocketStatus, ProcessSockets | every open listener is heard; a queued packet has write interest behind it; no event is handled with a dead socket |
| event loop (`main.c`) | `running` | start-up, loop, clean-up | each round checks the clients and then waits |
| peers and network | outside the repository | requests, ACK, DATA, retries; loss, duplication | what arrives is the file |
| other multiplexers | poll: a vector of descriptors; select: two sets and `maxfd`; kqueue: filters and a list of changes | as epoll's | the same, for each of them |
| vectors (`vec.c`, `vec.h`) | elements, length, capacity, memory block | push, pop, splice, insert, swap, reverse, truncate, clear, reserve, compact | the elements are within the block |
| configuration (`config.c`, `parser.y`, `scanner.l`) | `config` | parse, defaults, exchange on SIGHUP | readers never see a freed configuration |
| process life cycle (`main.c`, `misc.c`, `signalhandler.c`) | PID file, user, group, `running` | WritePID, SwitchUserAndGroup, Daemonize, handlers, shutdown | order of privileges, PID of the daemon |
| modules (`module.c`) | the table of loaded shared objects | LoadModule, UnloadModule, FindModule, InitializeModules, CallEvent | a module in the table is open; an event reaches every module; what is configured is loaded |
| file system helpers (`filesystem.c`) | none | FileExists, FixPath, SetFilePermissions | |
| command line (`commandline.c`) | `nofork`, `configfile` | HandleArguments | |

Components share state freely: `clientpool` is iterated by CheckClients and
SendPackets, whose bodies remove from it; write interest belongs to a
descriptor, while packets belong to clients that share the descriptor; a
client holds a copy of its listener's `socket_t`, and entries are matched by
descriptor and address text.

What is hard here: the order in which epoll reports events, datagrams that
come lost, twice, late or unasked; a sendto that fails in the middle of a
queue; 16 bit block numbers and ports; the state left behind by a request that
fails half-way; removal during iteration, of clients, of poll's descriptors and
of modules; flags kept per client for a registration that is per descriptor; a
signal handler that reads a configuration file. `PROJECT.json` lists these under
`hazards`, each at its line.

## 2. Modules

| Module | Models | Role |
|---|---|---|
| `Packets` | `packet.h`, the constants of the protocol, the builders of `packet.c` | vocabulary: datagrams in and out, chunks of files |
| `Server` | `main.c` loop, `client.c`, `socket.c`, `process.c`, `multiplexer_epoll.c` | the event loop against arbitrary datagrams and socket failures |
| `Session` | the RFCs under `src/doc/`, from how `src/src/` uses the peers and the network | `Server` composed with peers that follow the protocol and a network that may lose and duplicate |
| `Transfer` | what a server promises a peer | abstract specification, refined by `Session` |
| `Lifecycle` | `main.c`, `misc.c`, `signalhandler.c`, `config.c`, `parser.y` | processes from start to end: configuration, PID file, user and group, fork, signals |
| `Multiplexer` | `multiplexer_epoll.c`, `multiplexer_poll.c`, `multiplexer_select.c`, `multiplexer_kqueue.c`, and the part of `socket.c` that deals in descriptors | batches of events, registration and the buffers of a `socket_t`, with each of the four |
| `Vec` | `vec.h`, `vec.c` | vectors as elements, capacity and block |
| `Modules` | `module.c`, the dispatch in `signalhandler.c` | the table of modules, a `Vec`, and the events sent through it |
| `MCServer`, `MCSession`, `MCLifecycle`, `MCMultiplexer`, `MCModules` | | instances for TLC |
| `SeqLemmas` | | lemmas about positions in sequences and their number |
| `ClientProofs` | | proofs about identifiers and about the handlers of one client |
| `ServerProofs` | | the inductive invariants of `Server` and their consequences |
| `SessionProofs` | | `Server`'s invariants in sessions, and readers that negotiate |
| `LockstepProofs` | | transfers over a network without faults: the lock step of server and peer, and the refinement of `Transfer` |
| `LifecycleProofs` | | processes, their address and their PID files |
| `MultiplexerProofs` | | the four multiplexers |
| `ModulesProofs` | | proofs about vectors and about the table of modules |

### Server

A client record has the fields of `client_t`: `fd` and `src` for its socket
and address, `tid`, `currentblockno` (uint16_t) and `actualblockno`,
`waiting`, `sendingfile`, `destroy`, `lastpacket`, the packet `queue`, the
FILE `f` (with its position, or with what was written), `blksize`, and `blk`,
the allocated size of the block buffer.

The loop runs one client at a time where its body may remove the client it
stands on:

| Action | Code |
|---|---|
| `CheckClient(due)`, `CheckedClients` | an iteration, and the end, of the loop in CheckClients |
| `EpollTimeout`, `EpollEvent`, `EpollError` | the outcomes of epoll_wait in ProcessSockets |
| `SendClient`, `ReapClient` | an iteration of SendPackets: up to the last sendto, or to the end of it for a client that stays; fflush, fclose and RemoveClient for one that goes |
| `SendFail(k)`, `SentPackets` | its early return when the sendto of packet k+1 fails, with the DestroySocket it causes; its end |
| `Receive(src, p)`, `ReceiveNothing`, `ReceiveError` | ReceivePackets with a datagram (FindOrAllocateClient, the whole of ProcessPacket and every QueuePacket of it), with EAGAIN, with an error |
| `Dead` | the process has died |

ProcessPacket is a function from client and datagram to client, one operator
per opcode (`OnRrq`, `OnWrq`, `OnData`, `OnAck`, `OnError`), in the order of
the code's tests. Three effects on the rest of the state are beside it:
`OpensFile` (a FILE overwritten in `c->f` leaks), truncation of a file opened
for writing, and `Survival`, to which `Aborts` belongs: the assertion on the
length of an ERROR, which a refusal that quotes a long name or number fails.
`LongName` and `LongValue` are the names and numbers for which it does.

Between the last sendto of a client and its fclose is a step boundary (label
`reap`), because the peer can have its ACK by then. `DiskFaults` says whether
the disk may refuse: what it keeps of a FILE is then any part of its blocks
(`Remains`), and, as in the code, nobody looks.

Undefined behaviour is a choice of outcomes, not an error of the model: use of
a NULL FILE kills the process; an overrun of the block buffer, a second free
of a packet, a readable event handled with a freed `socket_t`, and printing
the uninitialized option pointer may or may not. For the last one the constant
`StrayRead` is the set of outcomes of the build.

### Session and Transfer

Each peer makes the one request of its `Plan`, acknowledges the blocks it
expects, confirms an OACK with ACK 0, ignores what it does not expect, gives up
on an ERROR and repeats its last packet when its timer fires. Datagrams to a
descriptor wait in its socket buffer in order. `Casts` says which sets of peers
may take part together, so one run covers many scenarios.

`Transfer` knows only how many bytes of each file have arrived: one block at a
time, exactly once each, ending with the block that is shorter than the block
size, or refused before the first byte, and an accepted transfer ends. The
refinement mapping counts the bytes at the receiving side: at a reader what it
kept, at the server what it wrote.

### Lifecycle

A process of `Lifecycle` goes through main step by step; the event loop is one
label of it, since its inside is `Server`'s. The parent of a fork has a label of
its own, `leave`, as it still has the socket until it exits. WritePID takes four steps (look,
remove a stale file, open, write), because another process may come in between;
the number of the file's inode tells a file from a later one of the same name.

| Action | Code |
|---|---|
| `Start`, `StartParse` | main up to ParseConfig, with HandleArguments |
| `CheckPid`, `RemoveStale`, `OpenPid`, `WritePid` | WritePID |
| `InitializeSockets`, `SwitchUserAndGroup` | the functions of that name, and main's reaction to their failure: die, or clean up |
| `StayForeground`, `Fork`, `ParentExits`, `ForkFails` | Daemonize, and the parent's exit as a step of its own |
| `LeaveLoop`, `ShutdownSockets`, `UnlinkPid` | the end of main |
| `SigTerm`, `SigHup`, `SigKill`, `UseFreed` | SignalHandler; a kill; the use of a configuration that a rehash has freed |

`TargetGroup` is the shortcut of SwitchUserAndGroup: a group that has the user's
name is not looked up, the group of the password entry (`PrimaryGroup`) is set.
`Running` is kill(pid, 0), which fails for a process of another user.

A configuration file is the order of its blocks and the settings that steps
depend on. `Rehashed` follows the handler: a file that cannot be opened changes
nothing; a syntax error exits; a server block makes a new object, whose lists
DeallocateConfig then empties; a file without one extends the old object, which
is then freed. A command line is a sequence of words; the options that print
something and exit, and the unknown ones, are one word. A name given with `-c`
is another configuration file or none at all.

### Multiplexer

`Server` knows epoll, one event at a time, and everything about packets. In
`Multiplexer` a packet is only queued or not, and what counts is which
descriptors are open and registered, which `socket_t` an event finds, and whose
buffers are still allocated. `backend` is the multiplexer the build has chosen.

| Action | Code |
|---|---|
| `Wait`, `BatchDone` | the system call and the end of the loop over its events |
| `SkipEntry`, `UnknownFd`, `ErrorEvent`, `BeginEvent` | one entry of the batch: nothing reported; a descriptor that is in no pool entry; an error; the copy of the `socket_t` is made |
| `SendClient`, `SendFail`, `SentPackets` | SendPackets, and the destruction of the event's socket when it fails |
| `Receive`, `ReceiveNothing`, `ReceiveError` | ReceivePackets |
| `Arrive` | a datagram comes |
| `Shutdown` | ShutdownSockets and ShutdownMultiplexer |

The four differ in three operators. `Status`: epoll and poll replace what is
registered, select and kqueue apply the difference to the flags of the caller's
own copy of the `socket_t`, and select clears the write set whichever flag is
lost. `Events`: epoll reports a descriptor once; kqueue each filter by itself,
and since EVFILT_READ is -1 and EVFILT_WRITE -2 both bit tests are true for
both; poll goes by index through a vector that DestroySocket shortens, with a
pointer into it (`ReadableAfter`); select goes through the socket pool, the
clients' entries included. `RemoveFromMultiplexer`: select lowers `maxfd` by
one. `cur.freed` says that the buffers of the loop's copy have been freed; what
using them does is left open (`Outcome`).

### Vec and Modules

A vector is its elements, the capacity it believes to have and the size of the
block behind it. The two differ once an allocation was refused: `capacity` is
set first. `ok` says what the allocator does, `enomem` what errno said before.

`Modules` keeps its table in such a vector. `stack` holds the calls of CallEvent
that are in progress: a hook may load or unload a module, which sends events of
its own, and a signal sends one at any time. Which hooks do is said by
`Meddlers`, a set of types of events; the hooks of the others only return. A
hook may unload any module it can know of (`Held`): each one of the table, the
second of a name too, and the one its event is about, even when that has left
the table. `misused` remembers that an unload was asked for that FindModule
would not have led to, or in the middle of an unload of the same name
(`Unloadable`); then UnloadModule takes one entry out, closes the object of
another, and may read or free what is gone.

| Action | Code |
|---|---|
| `InitializeNext`, `InitializeModulesDone` | an iteration, and the end, of the loop in InitializeModules |
| `OtherEvent`, `Signal` | CallEvent from the event loop; SignalHandler, with the configuration's list of modules gone after a rehash |
| `CallHook`, `HookReturns`, `EventDone` | CallEvent, module by module |
| `HookLoads`, `HookUnloads`, `UnloadModule` | what a hook does: LoadModule; UnloadModule, whose event comes before the rest of it |

## 3. What TLC checks

| Run | Instance | Shows |
|---|---|---|
| `server_inputs` | 1 client, 20 kinds of datagram, 2 ports, queue of 3 | under any order of datagrams and failures: types, a client to be destroyed has a packet (`DestroyHasPacket`), a transfer has a file (`SendingHasFile`), block numbers agree (`BlockCounter`), the packet kept is the newest (`LastIsNewest`) |
| `server_pool` | 3 clients, 2 listeners, 3 kinds | `PoolKeyed`, `FindsListener`, `SocketPerClient`, `FreedOnlyAfterFailure`: the two pools stay in step as clients come and go and sockets fail |
| `session_transfers` | each of 17 peers alone and 5 pairs, perfect network, fair | blocks, files and answers do not mix (`ReceivedInOrder`, `BlocksLabelled`); the last ACK of a write means that the file is saved or is what the server closes next (`AckedIsSaved`), and it is saved in the end (`SavedInTheEnd`); FILEs are released (`FilesReleased`); nobody dies (`StaysAlive`); the whole refines `Transfer` (`ImplementsTransfer`); as long as SendPackets passes over no client, transfers end (`AllOverIfServed`) and those that can go on do, which is `Transfer`'s fairness (`TransferProgress`) |
| `session_faults` | readers with blksize; 1 loss, 2 duplicates, 1 retry | what a reader kept is a prefix of the file, queued blocks carry the right number, the process survives |
| `lifecycle` | 2 starts, by root or not, 4 command lines, 1 fork, 7 configuration files, fair | a process in the loop alone holds the socket, but for a parent about to exit (`ServesAlone`), and runs as configured, with the exception for a user and group of one name (`ServesAsConfigured`); only a running process keeps another out (`RefusedMeansRunning`); SIGTERM ends a process (`TermEnds`) |
| `multiplexer` | 4 multiplexers, 2 listeners, 2 clients, fair | open listeners are heard (`ListenersHeard`; with select until a first socket is destroyed), closed ones are not registered (`ClosedUnwatched`), ReceivePackets has live buffers as long as no socket failed (`BuffersLive`, not with select), ShutdownSockets leaves nothing open (`ShutdownCloses`), queueing a packet arms its descriptor (`QueueArms`), a datagram is received (`DatagramReceived`) |
| `modules` | 5 paths, 2 of them with one name, 3 configurations, 3 loads, 1 signal at a time, hooks of unloads and of other events meddle | objects are open as often as they are in the table, until an unload is misused (`HandlesOpen`), CallEvent reaches every module unless one was unloaded meanwhile (`EveryModuleCalled`), the configured modules are loaded in order unless a SIGHUP interferes (`ConfiguredLoaded`), the table is within its memory as long as its capacity is real (`TableWithin`) |
| `session_lost_wakeup`, `session_repeated_request`, `session_lost_block`, `lifecycle_pid`, `multiplexer_select` | expected violations | section 5 |

In the passing session runs with `StaysAlive` the process does not die; in the
server runs it may, and the properties hold of every state up to and including
that one.

### Bounds

- `Modulus` stands for 65536. With 2 or 3 a transfer of three blocks already
  wraps; `BlockCounter`, `BlocksLabelled` and the refinement then meet the
  wrap. `session_faults` keeps 65536: with a modulus of 3 and duplicates a late
  ACK or DATA could be mistaken for one three blocks on, an ambiguity of the
  protocol that needs 65536 blocks in flight in reality.
- `MaxClients` = 3 is the least for which a removal leaves one client in front
  of, and one behind, the place; 2 suffice to skip one.
- `MaxQueue` = 3: a read request queues at most three packets (an OACK and two
  ERRORs); longer queues repeat the same cases.
- `MaxBlock` caps the growth of `actualblockno`: beyond `Modulus` so that it
  wraps; in the session runs beyond the last block of the longest file.
- `MaxLeak` caps the count of leaked FILEs.
- `MaxLoss`, `MaxDup`, `MaxRetry` bound the faults; `MaxInFlight` is derived
  from them and only limits which place of a buffer a fault can strike.
- Files: empty, shorter than a block, exactly one block, several blocks; a
  directory, a missing name, one that may not be opened, one too long to be
  quoted. Block sizes: below the minimum, at the minimum, below and above 512,
  and one out of strtol's range, for which 1000000000 stands. `DiskFaults` is
  TRUE in `server_inputs`; in sessions it would break `AckedIsSaved`, see section
  5. No cast of a run has the peers whose refusal is too long (`LongWinded`).
- Ports: 32768, whose negation fits no short, and 40000, which becomes negative
  as a short. The session runs use ports below 32768.

- `StartPids`, `ForkPids`: two starts race for the PID file and the address, and
  one of them may become a daemon. `SignalAt` = {loop}: SIGHUP and SIGKILL
  strike while the process serves. With all labels `RefusedMeansRunning` does
  not hold, see section 5; SIGTERM arrives anywhere. The user `tftp` has the
  primary group `users`, and there is a group `tftp`. Deadlock is not checked:
  once both processes have ended nothing more happens.
- `multiplexer`: two listeners, so that one can fail while the other goes on, and
  two clients, so that two can share a descriptor or have one each. `MaxClients`
  makes a datagram of a third client wait; in such a state the only way on is a
  receive error, which is one of the outcomes the code has to face anyway. A
  process that was shut down or has died does nothing more, so deadlock is not
  checked.
- `modules`: `MinCapacity` is 2 for the code's 4, so that three loads make the
  table grow; `MaxLoads` also keeps a hook from loading for ever. `MaxSignals`
  is the depth to which handlers interrupt each other, `MaxDepth` that beyond
  which no hook begins an unload: at 3 an unload can interrupt an unload that
  interrupts another event. `Meddlers` are unloads and the events of the loop:
  hooks of loads and signals may change the table while InitializeModules fills
  it, which `ConfiguredLoaded` does not survive; the other theorems hold with
  them as well. Hooks that unload from every unload without end are thereby left
  out, in the code they exhaust its stack; the theorems are about any depth. A
  process that an assertion has ended does nothing more, so deadlock is not
  checked.

The guards that hold `MaxQueue`, `MaxBlock` and `MaxLeak` make a datagram wait
in the model where the code would take it. The fair runs are dimensioned so
that they never do: a transfer that met such a bound could not end and would
break `AllOverIfServed`.

### Fairness

`Fairness` asks weak fairness of the server's steps together, of each peer's
request, of its handling of arrived datagrams and of its timer. The first is
that a process is scheduled: epoll_wait reports a readable descriptor
(level-triggered), and its timeout occurs in `Session` only when nothing is
ready. The others are what a peer that follows the RFCs does. No fairness is
asked of the network's faults, and none of one outcome of epoll_wait over
another. `PeerTimeout` is enabled only when none of the transfer's datagrams is
under way: the peer's timer is long against a round trip.

`SavedInTheEnd` needs the server's fairness only: after `reap` comes fclose.

`LSpec` asks weak fairness of each process's own steps and none of signals:
processes are scheduled, and epoll_wait returns after `readtimeout`, which
ParseConfig makes at least 2 seconds.

`MSpec` asks weak fairness of the loop as a whole: the process runs, and the
wait returns when it has something to report. Which event comes first, whether
a send succeeds and when datagrams arrive is left open.

## 4. What TLAPS proves

The theorems hold for every value of the constants that satisfies the
assumptions of the modules: any listeners (`ListenersAssumption`: at least one
descriptor, no two equal), ports 1..65535 (`PortAssumption`), file systems
(`FileAssumption`), sets of datagrams (`InboundAssumption`), a modulus above 1
and any bounds (`BoundsAssumption`); any peers with addresses of their own
(`PlanAssumption`); any tables and configurations (`MinCapacityAssumption`,
`ModulesAssumption`); processes, accounts, command lines and configuration files
(`LifecycleAssumption`); listeners in the order in which they were opened
(`MultiplexerAssumption`). TLC evaluates each of them on the runs.

| Theorem | States |
|---|---|
| `TidMatches` | the comparison in FindClient, in mixed short and int, is equality of ports, except that port 32768 never matches |
| `TypeCorrect`, `ClientsKeyed`, `DestroyedAreReaped`, `TransfersHaveFile`, `CountersAgree`, `ResendsNewest`, `ListenerIsFound` | `Spec =>` always `TypeOK`, `PoolKeyed`, `DestroyHasPacket`, `SendingHasFile`, `BlockCounter`, `LastIsNewest`, `FindsListener` |
| `PoolsAgree`, `FreedAfterFailure` | `Spec =>` always `SocketPerClient`, `FreedOnlyAfterFailure` |
| `SessionsTypeCorrect` | `SSpec => []STypeOK` |
| `SessionsKeepPromises` | all of `Server`'s invariants hold in sessions as well |
| `NumbersTellBlocks` | if `Negotiating`: `SSpec => []BlocksLabelled` |
| `ServerSurvives` | if `Negotiating`, `AllOpen` and `AllFit`: `SSpec => []StaysAlive` |
| `ReadersReceiveInOrder` | if `Negotiating` and `MaxBlock < Modulus`: `SSpec => []ReceivedInOrder` |
| `ServerImplementsTransfer` | if `Reliable` and `Separate`: `SSpec => ImplementsTransfer`, the refinement of `Transfer` |
| `AcknowledgedIsSaved`, `TransfersReleaseFiles`, `TransfersInOrder`, `TransfersLabelBlocks` | if `Reliable` and `Separate`: `SSpec =>` always `AckedIsSaved`, `FilesReleased`, `ReceivedInOrder`, `BlocksLabelled` |
| `TransfersSurvive` | if also `AllFit` and `StrayRead = {TRUE}`: `SSpec => []StaysAlive` |
| `LifeTypeCorrect`, `ServersAreAlone`, `ServersAreConfigured` | `LSpec =>` always `LTypeOK`, `ServesAlone`, `ServesAsConfigured` |
| `RefusalIsJustified` | if `SignalAt` has no label of a process that is starting: `LSpec => RefusedMeansRunning` |
| `MultiplexersTypeCorrect`, `ListenersStayHeard`, `BuffersStayLive`, `ClosedStayUnwatched`, `ShutdownIsComplete` | `MSpec =>` always `MTypeOK`, `ListenersHeard`, `BuffersLive`, `ClosedUnwatched`, `ShutdownCloses` |
| `QueueAlwaysArms` | `MSpec => QueueArms` |
| `ModulesTypeCorrect`, `ObjectsStayOpen`, `DispatchReachesAll`, `TableSafe` | `ModSpec =>` always `ModTypeOK`, `HandlesOpen`, `EveryModuleCalled`, `TableWithin` |
| `ConfiguredAreLoaded` | if hooks of load and signal events do not meddle: `ModSpec => ConfiguredLoaded` |
| `VectorsStayHonest` | while no allocation is refused, each operation of `vec.h` keeps the elements within a capacity that is really allocated (`Honest`) |

The inductive invariants were checked with TLC before they were proved.

### Server

`ClientProofs` shows that each handler of ProcessPacket takes a `Good` client to
a `Good` client of the same socket and address; the handlers are composed of few
operators (QueuePacket, NextBlock, marking for destruction, another FILE, a
start), each with a lemma. `ServerProofs` then shows that each action keeps
`IInv`: the state is well typed, every client of the pool is `Good`, and no two
clients share descriptor and port. None of the properties is inductive alone.
`Good` adds what they lean on:

- `waiting = 0`: nothing sets it, so CheckClients never resends. Without it a
  resent `lastpacket` could be the empty one of a new client.
- `tid = Tid(src.port)`: FindClient looks at `tid`, `PoolKeyed` speaks of ports.
- The position of a FILE lies within the file: otherwise the length of a read
  would not be a natural number and the packet no packet.
- `lastpacket` is the last of the queue, which SendFail keeps because it frees
  a proper prefix only.

`FindsListener` needs `LInv`: in front of the first entry of an open descriptor
that belongs to its listener there is no other entry of that descriptor. Adding
appends; ForgetSocket removes an entry whose text is a port, never the
listener's; a listener's entry goes only together with its descriptor.

`PInv` adds that the pools agree, counted as positions
(`SeqLemmas`: what appending and removing do to the number of positions of a
kind); that a descriptor is open while its event is served (`ServesOpen`), since
destroying a listener takes one entry by its text and must not be done twice;
and that queues are `Fresh`, without freed packets, while all listeners are
open, as only a failed send frees packets that stay queued.

### Session

The steps of a session are steps of `Server` with datagrams that come from
channels, so `SInv` is `PInv` and `NetInv`: the channels hold letters of peers
to the descriptor they are for, an active peer has a last packet to repeat, and
every listener stays open, since a session has no socket failures.

`NInv` is about readers that negotiate a block size. Every client is `Serving`
some reader: its FILE stands where its count of blocks says
(`Upto(q, actualblockno)`), its buffer is of the negotiated size and the packets
in its queue are `Exact`, as are those on their way to the reader; the letters
to the server are the reader's request or ACKs. From that `BlocksLabelled` and
`StaysAlive` follow in any order of losses, duplicates and repeats. `KInv` says
that the reader kept the file's first blocks and that more is to come while it
goes on; it turns labels into blocks, which needs that a number names one block.

The hypotheses are needed. Without `Negotiating` `session_repeated_request` is a
counterexample: a plain reader's repeated request moves the FILE and not the
number. Without `AllOpen` the ACK that follows an OACK for a file that cannot be
opened reads from a NULL FILE. Without `AllFit` a refusal fails the assertion in
Error (section 5). With a number that wraps, a late packet may be
taken for one `Modulus` blocks on. `MCSession` lets TLC evaluate that the
instance of `session_faults` satisfies all of them (`NegotiatorsQualify`).

### Lock step

`LockstepProofs` is about all kinds of request, plain, negotiating, writing and
refused ones, and any number of them at once, over a network that neither loses
nor duplicates and with a disk that takes what it is given (`Reliable`). Nothing that `session_transfers` checks is inductive
there: that a reader keeps block 7 depends on the ACK of block 6 having been the
only datagram of its transfer. `LockInv` therefore says where a transfer is as a
whole. A phase is a predicate of the peer's state, its mail to the server, its
clients in the pool, what is on its way to it and the file on disk:

| Phase | Where the one packet is |
|---|---|
| `Out`, `Asked` | the request is not made; it is in the socket's buffer |
| `Queued(k)` | the server's packet of round k (DATA, ACK or OACK) is in the client's queue |
| `Sent(k)` | it is on its way; a client that ended with it is gone, its file closed and on disk |
| `Replied(k)` | the peer's answer is in the socket's buffer |
| `Through(k)` | the peer is done; a reader's last ACK may still be met by an empty DATA packet or by a new, idle client |
| `Turned` | the request is not granted: an ERROR is queued, on its way or received; or it is a tsize request, which gets an OACK and nothing else |

In the rounds the phase fixes the client's count of blocks, the position of its
FILE or what it has written, and what the peer has. Besides, one cast is on the
stage, every client belongs to a peer of it, a peer has at most one datagram in
the socket's buffer, and no FILE was leaked. The proof goes action by action:
PeerRequest and PeerStep change a phase to the next at the peer (`PeerFrame`:
the others do not notice), Deliver does at the server, by a lemma per handler
and phase, and SendClient from `Queued` to `Sent`. A timer fires only when an OACK
was confirmed and nothing follows (tsize): in every other phase something is
under way. That SendPackets
skips a client is no harm to `LockInv`: its packet stays queued.

While SendPackets stands between the last sendto of a client and its removal the
client is over as far as its transfer goes. The phases therefore speak of the
pool without it and of the disk as fclose will leave it (`Pool`, `Disk`): seen
like that SendClient does all of the step and ReapClient none. `AckedIsSaved`
says the same in the server's own terms, and the proof of `BlocksLabelled`
carries the property over that one label.

For the refinement, `Tally` reads from the peer's state and mail how many blocks
were received; `ReceivedTally` shows that they are the file's first ones. So the
number of bytes needs no sum: all blocks but the last are full (`Bytes`). A step
that raises the tally is `Arrive`, one to `refused` is `Refuse`, and every other
leaves bytes and status as they were.

`Separate` is what the code needs: FindClient compares descriptor and port, so
peers of one descriptor need ports of their own; one at port 32768 is never
found again (`TidMatches`), which gives each of its datagrams a new client; and
two clients that write one file overwrite each other. `Reliable` is needed by
sections 5.2, 5.3, by writers on a full disk and by the writer whose DATA packet arrives twice.
`StrayRead = {TRUE}` excludes builds in which logging the unset option pointer of
a plain request ends the process, `AllFit` the refusals that fail Error's assertion. The number of retries, the modulus, files,
block sizes and casts are arbitrary. TLC evaluates that `session_transfers`
satisfies all four (`TransfersQualify`).

### Lifecycle

`LifeInv`: at most one process holds the address, not counting the parent of a
fork that is about to exit; those from InitializeSockets to the loop do hold it, and a process that has gone through SwitchUserAndGroup
is who its configuration says (`AsConfigured`, with the user's primary group
where the group has the user's name), unless a rehash replaced it; a fork hands all of
it on. The PID file plays no part in the argument.

`PidInv` adds what the PID files say: an empty one is open at a process that is
about to write it, and a number in one is that of a process that has written it.
So what keeps a process out is a live one: the number's owner, or the writer of
a file that reads as 0. A process killed between opening and writing leaves an
empty file for good (section 5), which is why the theorem asks that SIGHUP and
SIGKILL spare the start; `lifecycle` is an instance of that.

### Multiplexer

`MInv` has four parts. `KernelOK`: open listeners are registered for input,
closed ones not at all. `PoolOK`: each open listener has its entry, and it is
the first of its descriptor as long as none was destroyed, so that the event's
copy is the listener's and not a client's. `ClientsOK`: the flags of a client
without a packet do not claim write interest; that makes select and kqueue,
which apply differences, arm the descriptor. `EventOK`: the copy in use has its
buffers (`Intact`). Each multiplexer's rule of registration is a case of
`StatusKeepsKernel`.

### Modules and Vec

`TableWithin` is not inductive: it says nothing of the capacity of a table whose
block is too small, and such a table may grow again. `TableInv` adds that the
elements never exceed the capacity the vector believes to have, which
vec_expand_ keeps whether or not it gets its memory (`ExpandMakesRoom`), and
which vec_splice keeps because the position UnloadModule's search finds is one of
the table.

`ModInv` describes the stack of dispatches, in which hooks of any event may have
begun loads and unloads. As long as nothing was misused, the module each unload
is about stays the first of its name (`StillFirst`), and no two unloads are of
one name (`UnloadsFind`): an unload in progress is not disturbed by one of
another name above it, and one of its own name would be a misuse. Hence the
entry that is spliced is that of the object that is closed, and the counts stay
equal (`Counted`). After a misuse only the types, the table's capacity and the
progress of the dispatches remain. A dispatch during which the table only grew
has called what it has passed (`Progress`).

`ConfiguredLoaded` says where in the table each block's module is: behind as many
as there are loadable blocks before it, which Cardinality counts and no recursion
does. `InitInv` is that for the blocks passed so far; it needs `OnlyLoads`, that
until InitializeModules returns only loads and signals are dispatched, and the
theorem's hypothesis that their hooks leave the table alone.

### Only model-checked

- Liveness (`SavedInTheEnd`, `AllOverIfServed`, `TransferProgress`, `TermEnds`,
  `DatagramReceived`): outside the prover's reach.
- `Parsed` and `HandleArguments` are closed forms of a loop over blocks and
  words. `MCLifecycle` has the loops as folds, and TLC evaluates that they agree
  on all lists of up to five (`ParsedAgrees`, `ArgumentsAgree`).

## 5. Disagreements the runs show

1. `session_lost_wakeup`: SendPackets removes a finished client while it
   iterates over the pool; the next client is skipped, and its packets remain
   queued after write interest was cleared (`socket.c:344`).
2. `session_repeated_request`: a duplicated plain read request reopens the file
   and leaves the block number as it is; the next block carries the wrong
   number (`process.c:417`).
3. `session_lost_block`: a lost DATA packet is never sent again, because
   `waiting` is never set (`socket.c:292`), and a repeated request is not
   answered; the transfer never ends.
4. `lifecycle_pid`: the PID file is written before the fork, so it names the
   parent, which exits, and not the daemon it is meant to stop (`main.c:97`).
5. `multiplexer_select`: with select, destroying a socket lowers `maxfd` by one
   whichever descriptor it was; a listener with the highest number is never
   looked at again (`multiplexer_select.c:57`).

Met while modelling, without a run of their own:

- Error asserts that its text fits a packet; a read request for a missing file
  with a long name, or with a blksize of hundreds of digits, is refused with a
  text that does not, and the process aborts (`packet.c:108`, `process.c:343` and
  `379`). A Release build, in which assertions are compiled out, sends
  the long ERROR instead. The model has it (`Aborts`): `server_inputs` goes
  through both cases, and in `session_transfers` with `LongWinded` for its casts
  `StaysAlive` fails. Hence `AllFit` in two theorems.
- The results of fwrite, fflush and fclose are not looked at and every block is
  acknowledged, so on a full disk a writer is told that its file was taken when
  it was not (`process.c:95`, `socket.c:340`), though `rfc783.txt:200` counts a
  full disk among the errors that end a connection. With `DiskFaults` = TRUE
  `AckedIsSaved` fails in `session_transfers`; hence it is part of `Reliable`.
- With a user and a group of one name the server runs under the user's primary
  group, whatever its name (`misc.c:136-144`), though `nbstftp.8:56` lets the
  group be what is named. `ServesAsConfigured` states the exception.
- UnloadModule looks for the name of the module it was given, and takes out the
  first entry that has it, but closes the handle it was given
  (`module.c:73-83`). Given the second module of a name, or when a hook of
  EV_MODUNLOAD has unloaded the module already, it takes out one entry and
  closes another's object, whose entry then calls into nothing. FindModule, the
  program's only way to a module, never leads to the second of a name; hence
  `misused` in `HandlesOpen`.
- A DATA datagram shorter than its header makes `len - sizeof(packet_t)` wrap
  (`process.c:95`, `105`), and fwrite is asked for more than there is. Such
  datagrams are left out of the model.
- When poll reports a descriptor that is in no pool entry, RemoveFromMultiplexer
  moves the next entry up before `ev->fd` is closed (`multiplexer_poll.c:139`),
  so another descriptor would be closed. The model closes the right one; every
  registered descriptor has its entry (`PoolOK`), so neither happens.
- The kqueue descriptor is made before Daemonize forks (`main.c:106`, `120`), and
  a child does not inherit it. With kqueue `Multiplexer` is a process that stays
  in the foreground.

- A read request with tsize is answered with an OACK, and no data follows the
  peer's ACK 0: the file is closed again, and neither `c->f` nor `sendingfile`
  is set (`process.c:408`). A peer of that kind never ends.
- A DATA packet is written whatever its block number (`process.c:95`), so one
  that arrives twice is in the file twice: `ReceivedInOrder` holds of writers
  over a perfect network only, though `rfc783.txt:562` has the number
  "discriminate  between  new packets and duplicates".
- A process that ends between opening and writing its PID file leaves it empty,
  and no other can start until it is removed (`main.c:55`). A daemon that root
  starts with both a user and a group configured cleans up and ends, as it gives
  up root before it sets the group (`misc.c:129`). A rehash with a syntax error
  ends the daemon (`config.c:136`), one without a server block leaves it with a
  freed configuration (`signalhandler.c:40`).
- The sockets do not block, so a full buffer makes sendto fail with EAGAIN,
  which SendPackets treats like any error: the listener is destroyed
  (`socket.c:320`).
- A client that SendPackets has skipped keeps its flags; with select and kqueue
  a packet queued for it then changes nothing in the registration
  (`socket.c:296`). `QueueArms` therefore speaks of clients that had no packet.
- With select, ReceivePackets gets the clients' own entries of the socket pool,
  whose buffers SendPackets may have freed a moment before; and a closed
  descriptor that a client's status change puts back into the sets makes every
  later select fail (`multiplexer_select.c:66`). Hence the exceptions in
  `BuffersLive` and `ClosedUnwatched`.
- `multiplexer_kqueue.c:175` names a field that `struct kevent` does not have;
  the model takes `ident`.
- A read request raises EV_NEWWRITEREQUEST (`process.c:429`); nothing raises
  EV_NEWREADREQUEST.
- `-c` makes every later word that is not an option the configuration file, the
  last one counting (`commandline.c:129`).

`session_faults` leaves out plain readers (case 2). `session_transfers` speaks
of transfers that end under the proviso that no client is passed over (case 1);
its disk has room and its refusals fit their packets.

## 6. Abstractions

- Payload is (file, offset, length). Message texts, log output and
  `bytestransferred` are left out; hooks of loaded modules are in `Modules` and
  leave the rest of the program alone.
- A request is its opcode, file, mode and one option with a number. Splitting
  the datagram into strings (GetNext) is not modelled; a value that is no number
  is 0, as strtol makes it. netascii is octet on Linux. The timeout option is
  recognised and has no effect, as in the code.
- The OACK carries an empty value, as OptionAcknowledge produces it; the peers
  accept it.
- `RUNT` is any datagram that ProcessPacket drops without an effect on the
  client: too long, or of an unknown opcode.
- In `Server` epoll_wait returns one event at a time; batches are in
  `Multiplexer`.
- kqueue's changes take effect at once, not with the next kevent, and a
  descriptor's number is not used again by a FILE while events for it are in the
  batch.
- A module has one hook per event. Copies of a `module_t` that a hook keeps for
  later are left out, but for the one its event is about. A signal strikes
  between steps, not in the middle of a vector's operation.
- What a name denotes does not change. A file being written reaches `disk` at
  fclose, and is empty from fopen on; two clients on one file are not modelled.
  `disk` is what the kernel has accepted. A disk that refuses loses whole blocks.
- Allocation does not fail (nmalloc exits), and `errno` is not modelled.
- The text of a client's socket entry is reduced to its port.
- An assertion ends the process, as in the default build.
- setpgid of a child just forked cannot fail, and after a failed fork the process
  dies whether setpgid fails or not.
- In `Lifecycle` all configurations listen on the same address, process ids are
  not reused, and signals arrive between steps.
- Started without a terminal the program does what it does with `-f`.

## 7. Not modelled, and the plan

Not modelled: logging and message texts; the scanner (generated), the splitting
of a request into strings (GetNext), FixPath and the size formatting, which are
functions on text without state; vec_sort and vec_extend, which nothing uses;
DeallocateClients, which frees memory after the loop has ended; the ENOMEM
branches, as nmalloc exits.

Done: `Packets`, `Server`, `Session`, `Transfer`, `Lifecycle`, `Multiplexer`,
`Vec`, `Modules`, and the proofs of section 4, the lock step and the refinement
of `Transfer` included. What could follow:

1. `NInv` and `LockInv` in one: a transfer that negotiates over a faulty network
   refines `Transfer` as well, as long as no block number wraps.
2. A second address with the same port, which FindClient takes for the first.
