---------------------------- MODULE Multiplexer -----------------------------
(***************************************************************************)
(* ProcessSockets as each of the four multiplexers implements it: epoll,   *)
(* poll, select and kqueue, with the socket pool and as much of SendPackets*)
(* and ReceivePackets as bears on descriptors, their registration and the  *)
(* buffers of a socket_t.  Server has one event at a time and the packets; *)
(* here a wait returns a batch of events, and a packet is just queued.     *)
(*                                                                         *)
(* pc says where the process is:                                           *)
(*   "wait"  in the system call            "next"  at the top of the loop  *)
(*   "send"  in SendPackets, at clients[cidx]                              *)
(*   "recv"  about to call ReceivePackets                                  *)
(*   "down"  after ShutdownSockets         "dead"  killed by a memory error*)
(***************************************************************************)
EXTENDS Integers, FiniteSets, SequencesExt

CONSTANTS
    Backends,       \* the multiplexers the build may have chosen
    Listeners,      \* the bound descriptors, in the order they were opened
    Peers,          \* what tells the clients of one descriptor apart
    MaxClients      \* bound of the exploration

Fd == Range(Listeners)
LISTEN == 0

\* The kernel hands out the least unused number, so the order is increasing.
ASSUME MultiplexerAssumption ==
    /\ Backends \subseteq {"epoll", "poll", "select", "kqueue"}
    /\ Listeners \in Seq(Nat) /\ Len(Listeners) > 0
    /\ \A i, j \in 1..Len(Listeners) : i < j => Listeners[i] < Listeners[j]
    /\ LISTEN \notin Peers /\ MaxClients \in Nat

VARIABLES
    backend,        \* the multiplexer of this process
    clients,        \* clientpool: [fd, bind, flags, queued, destroy, live]
    socketpool,     \* sequence of [fd, bind]; a listener's flags are READABLE,
                    \* those of a client's entry are 0, its own are in clients
    open, pending,  \* open descriptors; those with a datagram to read
    watch,          \* [Fd -> SUBSET {"in", "out"}]: the epoll registration, the
                    \* entry of poll's vector, select's sets, kqueue's filters
    maxfd,          \* of select
    ready, idx,     \* the batch: what was reported, position in poll's vector
                    \* or (select) in socketpool
    cur,            \* socket_t s of ProcessSockets: [fd, bind, in, freed]
    cidx, pc

batch == <<ready, idx>>
vars == <<backend, clients, socketpool, open, pending, watch, maxfd, batch, cur, cidx, pc>>

\* SF_READABLE and SF_WRITABLE.
READABLE == {"in"}
WRITABLE == {"out"}

-----------------------------------------------------------------------------
(***************************************************************************)
(* The four versions of SetSocketStatus, AddToMultiplexer and              *)
(* RemoveFromMultiplexer.  epoll and poll replace what is registered for   *)
(* the descriptor.  select and kqueue apply the difference between the new *)
(* status and the flags of the caller's own socket_t; select clears the    *)
(* write set whichever flag is lost, and does not notice that a descriptor *)
(* is closed.  kqueue's changes take effect with the next kevent.          *)
(***************************************************************************)
Status(fd, flags, status) ==
    CASE backend \in {"epoll", "poll"} -> IF fd \in open THEN status ELSE watch[fd]
      [] backend = "kqueue" ->
           IF fd \in open THEN (watch[fd] \ (flags \ status)) \union (status \ flags)
           ELSE watch[fd]
      [] backend = "select" ->
           (watch[fd] \ IF flags \subseteq status THEN {} ELSE WRITABLE)
               \union (status \ flags)

SetSocketStatus(fd, flags, status) == watch' = [watch EXCEPT ![fd] = Status(fd, flags, status)]

\* The status QueuePacket asks for; its mutant.
QueueStatusWriteOnly == WRITABLE
QueueStatus == WRITABLE \union READABLE

\* Mutant: the registration stays.
RemoveFromMultiplexerNot(fd) == UNCHANGED <<watch, maxfd>>

\* Closing a descriptor, which follows, drops kqueue's filters.
RemoveFromMultiplexer(fd) ==
    /\ watch' = [watch EXCEPT ![fd] = {}]
    /\ maxfd' = IF backend = "select" THEN maxfd - 1 ELSE maxfd

\* The descriptor at position i of poll's vector, if there is one: vec_splice
\* keeps the order in which they were added.
TableAt(i) == {fd \in open : Cardinality({g \in open : g <= fd}) = i}

-----------------------------------------------------------------------------
(***************************************************************************)
(* The socket pool.                                                        *)
(***************************************************************************)
SocketEntry(fd, bind) == [fd |-> fd, bind |-> bind]
NoSocket(fd) == SocketEntry(fd, -1)

\* Mutant: the newest entry is found.
FindSocketLast(fd) ==
    LET same == {i \in 1..Len(socketpool) : socketpool[i].fd = fd}
    IN  IF same = {} THEN NoSocket(fd)
        ELSE socketpool[CHOOSE i \in same : \A j \in same : j <= i]

FindSocket(fd) ==
    LET same == {i \in 1..Len(socketpool) : socketpool[i].fd = fd}
    IN  IF same = {} THEN NoSocket(fd) ELSE socketpool[Min(same)]

\* Mutant: neither is the bind text compared nor does the search stop.
WithoutDescriptor(s) == SelectSeq(socketpool, LAMBDA e : e.fd # s.fd)

\* The pool after vec_splice of the first entry equal to s.
Without(s) ==
    LET same == {i \in 1..Len(socketpool) : socketpool[i] = SocketEntry(s.fd, s.bind)}
    IN  IF same = {} THEN socketpool ELSE RemoveAt(socketpool, Min(same))

\* Is c->s a copy of s, with the same buffers?
Shares(c, s) == c.fd = s.fd /\ c.bind = s.bind

\* DestroySocket with closefd.  Clients keep a copy of their socket_t, whose
\* buffers are then gone.
DestroySocket(s) ==
    /\ RemoveFromMultiplexer(s.fd)
    /\ socketpool' = Without(s)
    /\ open' = open \ {s.fd} /\ pending' = pending \ {s.fd}
    /\ clients' = [i \in 1..Len(clients) |->
                      IF Shares(clients[i], s) THEN [clients[i] EXCEPT !.live = FALSE]
                      ELSE clients[i]]

\* What using or freeing freed memory may do.
Outcome(stray, label) == IF stray THEN {label, "dead"} ELSE {label}

\* s and the index of SendPackets are local: no value outlives the iteration.
Idle == [fd |-> Listeners[1], bind |-> LISTEN, in |-> FALSE, freed |-> FALSE]
Continue(stray) == pc' \in Outcome(stray, "next") /\ cur' = Idle /\ cidx' = 1

-----------------------------------------------------------------------------
(***************************************************************************)
(* The batch of events.                                                    *)
(***************************************************************************)
\* Does the kernel look at the descriptor?  select refuses to work as long as
\* a closed descriptor is in its sets.
Heard(fd) ==
    /\ fd \in open /\ "in" \in watch[fd]
    /\ backend = "select" =>
         /\ fd <= maxfd
         /\ \A g \in Fd : g <= maxfd /\ watch[g] # {} => g \in open

\* What the wait may report of a descriptor: readable exactly if there is a
\* datagram, writable if asked for and there is room, an error at any time.
Reports(fd) ==
    IF ~Heard(fd) THEN {{}}
    ELSE {r \in SUBSET {"in", "out", "err"} :
            /\ "in" \in r <=> fd \in pending
            /\ "out" \in r => "out" \in watch[fd]}

Batches == {r \in [Fd -> SUBSET {"in", "out", "err"}] : \A fd \in Fd : r[fd] \in Reports(fd)}

None == [fd \in Fd |-> {}]

Event(s, ev, rest, next) == [s |-> s, ev |-> ev, rest |-> rest, next |-> next]

\* epoll reports a descriptor once, in any order.
EpollEvents ==
    {Event(FindSocket(fd), ready[fd], [ready EXCEPT ![fd] = {}], idx) :
        fd \in {fd \in Fd : ready[fd] # {}}}

\* kqueue reports every filter by itself.  EVFILT_READ and EVFILT_WRITE are -1
\* and -2: both tests of the filter are true for both.
KqueueEvents ==
    UNION {{Event(FindSocket(fd), IF e = "err" THEN {"err"} ELSE {"in", "out"},
                  [ready EXCEPT ![fd] = @ \ {e}], idx) : e \in ready[fd]} : fd \in Fd}

\* Mutant: the loop over poll's vector starts behind its first entry.
PollEventsLate ==
    {Event(FindSocket(fd), ready[fd], ready, idx + 2) : fd \in TableAt(idx + 1)}

\* poll reports in its vector, which is gone through by index while
\* DestroySocket shortens it.
PollEvents ==
    {Event(FindSocket(fd), ready[fd], ready, idx + 1) : fd \in TableAt(idx)}

\* select looks at every entry of the socket pool, the clients' included.
SelectEvents ==
    {Event(socketpool[i], ready[socketpool[i].fd], ready, i + 1) :
        i \in {idx} \intersect 1..Len(socketpool)}

Events ==
    CASE backend = "epoll"  -> EpollEvents
      [] backend = "kqueue" -> KqueueEvents
      [] backend = "poll"   -> PollEvents
      [] backend = "select" -> SelectEvents

Take(e) == ready' = e.rest /\ idx' = e.next

-----------------------------------------------------------------------------
(***************************************************************************)
(* The process.                                                            *)
(***************************************************************************)
\* InitializeSockets: AddToMultiplexer was called for each listener in turn.
MInit ==
    /\ backend \in Backends
    /\ clients = <<>>
    /\ socketpool = [i \in 1..Len(Listeners) |-> SocketEntry(Listeners[i], LISTEN)]
    /\ open = Fd /\ pending = {}
    /\ watch = [fd \in Fd |-> READABLE]
    /\ maxfd = IF backend = "select" THEN Last(Listeners) ELSE 0
    /\ ready = None /\ idx = 1
    /\ cur = Idle /\ cidx = 1 /\ pc = "wait"

\* A wait that times out, is interrupted or fails changes nothing.
Wait ==
    /\ pc = "wait"
    /\ ready' \in Batches \ {None}
    /\ idx' = 1 /\ pc' = "next"
    /\ UNCHANGED <<backend, clients, socketpool, open, pending, watch, maxfd, cur, cidx>>

BatchDone ==
    /\ pc = "next" /\ Events = {}
    /\ ready' = None /\ idx' = 1 /\ pc' = "wait"
    /\ UNCHANGED <<backend, clients, socketpool, open, pending, watch, maxfd, cur, cidx>>

\* Nothing was reported for this entry.
SkipEntry(e) ==
    /\ pc = "next" /\ e.ev = {}
    /\ Take(e)
    /\ UNCHANGED <<backend, clients, socketpool, open, pending, watch, maxfd, cur, cidx, pc>>

\* The descriptor is in no pool entry: it is removed and closed (again).
UnknownFd(e) ==
    /\ pc = "next" /\ e.s = NoSocket(e.s.fd) /\ e.ev # {}
    /\ RemoveFromMultiplexer(e.s.fd)
    /\ open' = open \ {e.s.fd} /\ pending' = pending \ {e.s.fd}
    /\ Take(e)
    /\ UNCHANGED <<backend, clients, socketpool, cur, cidx, pc>>

ErrorEvent(e) ==
    /\ pc = "next" /\ "err" \in e.ev /\ e.s # NoSocket(e.s.fd)
    /\ DestroySocket(e.s)
    /\ Take(e)
    /\ pc' \in Outcome(\E i \in 1..Len(clients) : Shares(clients[i], e.s) /\ ~clients[i].live, "next")
    /\ UNCHANGED <<backend, cur, cidx>>

\* Mutant: the result of FindSocket is not looked at.
BeginEventUnchecked(e) ==
    /\ pc = "next" /\ e.ev # {} /\ "err" \notin e.ev
    /\ cur' = [fd |-> e.s.fd, bind |-> e.s.bind, in |-> "in" \in e.ev, freed |-> FALSE]
    /\ cidx' = 1
    /\ pc' = IF "out" \in e.ev THEN "send" ELSE "recv"
    /\ Take(e)
    /\ UNCHANGED <<backend, clients, socketpool, open, pending, watch, maxfd>>

\* s is the copy FindSocket or vec_foreach made.
BeginEvent(e) ==
    /\ pc = "next" /\ e.ev # {} /\ "err" \notin e.ev /\ e.s # NoSocket(e.s.fd)
    /\ cur' = [fd |-> e.s.fd, bind |-> e.s.bind, in |-> "in" \in e.ev, freed |->
                  \E i \in 1..Len(clients) : Shares(clients[i], e.s) /\ ~clients[i].live]
    /\ cidx' = 1
    /\ pc' = IF "out" \in e.ev THEN "send" ELSE "recv"
    /\ Take(e)
    /\ UNCHANGED <<backend, clients, socketpool, open, pending, watch, maxfd>>

\* Mutant: SetSocketStatus leaves the flags of the socket_t alone.
ServedStaleFlags(c) == [c EXCEPT !.queued = FALSE]

\* A client that SendPackets has served.
Served(c) == [c EXCEPT !.queued = FALSE, !.flags = READABLE]

\* One client of SendPackets, every sendto succeeding.
SendClient ==
    /\ pc = "send" /\ cidx <= Len(clients)
    /\ LET c == clients[cidx]
       IN  /\ c.queued => c.fd \in open
           /\ SetSocketStatus(c.fd, c.flags, READABLE)
           /\ IF c.destroy
              THEN /\ clients' = RemoveAt(clients, cidx)
                   /\ socketpool' = Without(c)
                   /\ cur' = [cur EXCEPT !.freed = @ \/ Shares(c, cur)]
              ELSE /\ clients' = [clients EXCEPT ![cidx] = Served(@)]
                   /\ UNCHANGED <<socketpool, cur>>
           /\ pc' \in Outcome(c.destroy /\ ~c.live, "send")
    /\ cidx' = cidx + 1
    /\ UNCHANGED <<backend, open, pending, maxfd, batch>>

SentPackets ==
    /\ pc = "send" /\ cidx > Len(clients)
    /\ IF cur.in THEN pc' = "recv" /\ cidx' = 1 /\ UNCHANGED cur ELSE Continue(FALSE)
    /\ UNCHANGED <<backend, clients, socketpool, open, pending, watch, maxfd, batch>>

\* Is the event readable, as the loop sees it after the socket was destroyed?
\* poll's pointer into the vector now points to the entry that moved up.
ReadableAfter ==
    IF backend = "poll" /\ TableAt(idx) # {} THEN \E fd \in TableAt(idx) : "in" \in ready[fd]
    ELSE cur.in

(***************************************************************************)
(* sendto fails, as it must on a closed descriptor and may on any (the     *)
(* sockets do not block, so a full buffer is a failure): the socket of the *)
(* event is destroyed, whosever packet it was.  The test for input follows.*)
(***************************************************************************)
SendFail ==
    /\ pc = "send" /\ cidx <= Len(clients) /\ clients[cidx].queued
    /\ DestroySocket(cur)
    /\ IF ReadableAfter
       THEN /\ cur' = [cur EXCEPT !.freed = TRUE] /\ cidx' = 1
            /\ pc' \in Outcome(cur.freed, "recv")
       ELSE Continue(cur.freed)
    /\ UNCHANGED <<backend, batch>>

FindClient(fd, p) == SelectInSeq(clients, LAMBDA c : c.fd = fd /\ c.bind = p)

NewClient(fd, p) ==
    [fd |-> fd, bind |-> p, flags |-> {}, queued |-> FALSE, destroy |-> FALSE, live |-> TRUE]

\* What ProcessPacket makes of the client: it may queue a packet, and then
\* mark the client for destruction.
ProcessPacket(c, queues, destroys) ==
    IF ~queues THEN c
    ELSE [c EXCEPT !.queued = TRUE, !.destroy = @ \/ destroys, !.flags = QueueStatus]

\* ReceivePackets of a datagram from p, with the buffer of cur.
Receive(p, queues, destroys) ==
    /\ pc = "recv" /\ cur.fd \in pending
    /\ destroys => queues
    /\ LET i    == FindClient(cur.fd, p)
           pool == IF i # 0 THEN clients ELSE Append(clients, NewClient(cur.fd, p))
           k    == IF i # 0 THEN i ELSE Len(pool)
       IN  /\ Len(pool) <= MaxClients
           /\ clients' = [pool EXCEPT ![k] = ProcessPacket(@, queues, destroys)]
           /\ socketpool' = IF i # 0 THEN socketpool
                            ELSE Append(socketpool, SocketEntry(cur.fd, p))
           /\ IF queues THEN SetSocketStatus(cur.fd, pool[k].flags, QueueStatus)
                        ELSE watch' = watch
    /\ pending' = pending \ {cur.fd}
    /\ Continue(cur.freed)
    /\ UNCHANGED <<backend, open, maxfd, batch>>

\* recvfrom has nothing (EAGAIN).
ReceiveNothing ==
    /\ pc = "recv" /\ cur.fd \in open \ pending
    /\ Continue(cur.freed)
    /\ UNCHANGED <<backend, clients, socketpool, open, pending, watch, maxfd, batch>>

\* recvfrom fails, as it must on a closed descriptor.
ReceiveError ==
    /\ pc = "recv"
    /\ DestroySocket(cur)
    /\ Continue(cur.freed)
    /\ UNCHANGED <<backend, batch>>

\* A datagram arrives.
Arrive(fd) ==
    /\ fd \in open \ pending /\ pc \notin {"down", "dead"}
    /\ pending' = pending \union {fd}
    /\ UNCHANGED <<backend, clients, socketpool, open, watch, maxfd, batch, cur, cidx, pc>>

\* running is 0: main leaves its loop and ShutdownSockets closes the descriptor
\* of every entry of the pool, ShutdownMultiplexer the kernel's object.
Shutdown ==
    /\ pc = "wait"
    /\ open' = open \ {socketpool[i].fd : i \in 1..Len(socketpool)}
    /\ socketpool' = <<>> /\ pending' = {} /\ pc' = "down"
    /\ watch' = IF backend = "select" THEN watch ELSE None
    /\ UNCHANGED <<backend, clients, maxfd, batch, cur, cidx>>

HandleEvent ==
    \E e \in Events : SkipEntry(e) \/ UnknownFd(e) \/ ErrorEvent(e) \/ BeginEvent(e)

Loop ==
    \/ Wait
    \/ BatchDone
    \/ HandleEvent
    \/ SendClient
    \/ SentPackets
    \/ SendFail
    \/ \E p \in Peers, queues, destroys \in BOOLEAN : Receive(p, queues, destroys)
    \/ ReceiveNothing
    \/ ReceiveError

MNext == Loop \/ Shutdown \/ \E fd \in Fd : Arrive(fd)

\* The process is scheduled; the wait returns when there is something to report.
MSpec == MInit /\ [][MNext]_vars /\ WF_vars(Loop)

-----------------------------------------------------------------------------
(***************************************************************************)
(* Properties.                                                             *)
(***************************************************************************)
\* Type invariant.
MTypeOK ==
    /\ backend \in Backends
    /\ clients \in Seq([fd : Fd, bind : Peers, flags : SUBSET {"in", "out"},
                        queued : BOOLEAN, destroy : BOOLEAN, live : BOOLEAN])
    /\ socketpool \in Seq([fd : Fd, bind : Peers \union {LISTEN}])
    /\ open \subseteq Fd /\ pending \subseteq open
    /\ watch \in [Fd -> SUBSET {"in", "out"}]
    /\ maxfd \in Int
    /\ ready \in [Fd -> SUBSET {"in", "out", "err"}] /\ idx \in Nat
    /\ cur \in [fd : Fd, bind : Peers \union {LISTEN}, in : BOOLEAN, freed : BOOLEAN]
    /\ cidx \in Nat
    /\ pc \in {"wait", "next", "send", "recv", "down", "dead"}

\* Every open listening socket is watched for datagrams, whatever the clients
\* that share its descriptor do to its status.  With select that is only so
\* until a first socket has been destroyed.
ListenersHeard ==
    backend # "select" \/ open = Fd => \A fd \in open : Heard(fd)

\* The same without the exception: a server may have several listen blocks,
\* and those that remain are served.
AllListenersHeard == \A fd \in open : Heard(fd)

\* ReceivePackets gets a socket_t whose buffers are still allocated, though
\* SendPackets has just run for the same event and may have removed clients;
\* with select, which also hands it the clients' own entries, that fails, and
\* with every multiplexer once a socket was destroyed.
BuffersLive ==
    pc = "recv" /\ open = Fd /\ backend # "select" => ~cur.freed

\* A closed descriptor is never registered again: the status changes that
\* clients of a destroyed socket still ask for have no effect.
ClosedUnwatched ==
    backend # "select" => \A fd \in Fd \ open : watch[fd] = {}

\* After ShutdownSockets no descriptor is open: the pool still had an entry for
\* each, however many of its clients came and went.
ShutdownCloses == pc = "down" => open = {}

\* A step that queues a packet for a client that had none leaves its descriptor
\* watched for output, with select and kqueue too, which go by flags that are
\* kept per client while the registration is per descriptor.
QueueArms ==
    [][\A i \in DOMAIN clients' :
          /\ clients'[i].queued
          /\ \A j \in DOMAIN clients : Shares(clients[j], clients'[i]) => ~clients[j].queued
          => "out" \in watch'[clients'[i].fd]]_vars

\* A datagram on a socket that is watched is received, unless the socket is
\* destroyed or no longer watched first: no multiplexer leaves it in its batch.
DatagramReceived ==
    \A fd \in Fd : fd \in pending ~> fd \notin pending \/ ~Heard(fd) \/ pc = "dead"

=============================================================================
