-------------------------- MODULE MultiplexerProofs -------------------------
(***************************************************************************)
(* Invariants of Multiplexer, for each of the four multiplexers and every  *)
(* number of listeners and clients.                                        *)
(***************************************************************************)
EXTENDS Multiplexer, SeqLemmas

ClientRecords ==
    [fd : Fd, bind : Peers, flags : SUBSET {"in", "out"},
     queued : BOOLEAN, destroy : BOOLEAN, live : BOOLEAN]
SocketRecords == [fd : Fd, bind : Peers \union {LISTEN}]
CurRecords == [fd : Fd, bind : Peers \union {LISTEN}, in : BOOLEAN, freed : BOOLEAN]
Labels == {"wait", "next", "send", "recv", "down", "dead"}

(***************************************************************************)
(* The inductive invariant.  What the kernel knows:                        *)
(***************************************************************************)
KernelOK ==
    /\ backend \in Backends
    /\ open \subseteq Fd /\ pending \subseteq open
    /\ watch \in [Fd -> SUBSET {"in", "out"}]
    /\ maxfd \in Int
    /\ \A fd \in open : "in" \in watch[fd]
    /\ ClosedUnwatched
    /\ backend = "select" /\ open = Fd => maxfd = Last(Listeners)

\* The pool has the entry of each open listener; and, as long as all are open,
\* that is the first one of its descriptor.
HasListener(pool, fds) ==
    \A fd \in fds : \E i \in 1..Len(pool) : pool[i] = SocketEntry(fd, LISTEN)

ListenersFirst(pool) ==
    \A i \in 1..Len(pool) : \E j \in 1..i : pool[j] = SocketEntry(pool[i].fd, LISTEN)

PoolOK ==
    /\ socketpool \in Seq(SocketRecords)
    /\ HasListener(socketpool, open)
    /\ open = Fd => ListenersFirst(socketpool)

\* The flags of a client without a packet do not say that it waits for output.
FlagsServed(c) == "out" \in c.flags => c.queued

ClientsOK ==
    /\ clients \in Seq(ClientRecords)
    /\ \A i \in 1..Len(clients) : FlagsServed(clients[i])

\* The event that is served.
Intact(s) == open = Fd /\ backend # "select" => s.bind = LISTEN /\ ~s.freed

EventOK ==
    /\ ready \in [Fd -> SUBSET {"in", "out", "err"}] /\ idx \in Nat
    /\ cur \in CurRecords /\ cidx \in Nat \ {0} /\ pc \in Labels
    /\ Intact(cur)

MInv == KernelOK /\ PoolOK /\ ClientsOK /\ EventOK /\ ShutdownCloses

-----------------------------------------------------------------------------
(***************************************************************************)
(* What the kernel knows.                                                  *)
(***************************************************************************)
\* Listeners stay registered for input, in whatever way the multiplexer works
\* out the new registration; closed descriptors are left alone.
LEMMA StatusKeepsKernel ==
    ASSUME KernelOK, NEW fd \in Fd, NEW flags \in SUBSET {"in", "out"},
           NEW status \in {READABLE, QueueStatus}, SetSocketStatus(fd, flags, status),
           UNCHANGED <<backend, open, maxfd>>, pending' \subseteq pending
    PROVE  KernelOK'
  <1>1. status \in SUBSET {"in", "out"} /\ "in" \in status
    BY DEF READABLE, WRITABLE, QueueStatus
  <1>2. backend \in {"epoll", "poll", "select", "kqueue"}
    BY MultiplexerAssumption DEF KernelOK
  <1>3. watch[fd] \in SUBSET {"in", "out"}
    BY DEF KernelOK
  <1>4. /\ Status(fd, flags, status) \in SUBSET {"in", "out"}
        /\ fd \in open => "in" \in Status(fd, flags, status)
        /\ fd \notin open /\ backend # "select" => Status(fd, flags, status) = watch[fd]
    <2>1. CASE backend \in {"epoll", "poll"}
      BY <1>1, <1>3, <2>1 DEF Status
    <2>2. CASE backend = "kqueue"
      BY <1>1, <1>3, <2>2 DEF Status, KernelOK
    <2>3. CASE backend = "select"
      BY <1>1, <1>3, <2>3 DEF Status, KernelOK, WRITABLE
    <2> QED
      BY <1>2, <2>1, <2>2, <2>3
  <1>5. \A g \in Fd : watch'[g] = IF g = fd THEN Status(fd, flags, status) ELSE watch[g]
    BY DEF SetSocketStatus, KernelOK
  <1>6. watch' \in [Fd -> SUBSET {"in", "out"}]
    BY <1>4 DEF SetSocketStatus, KernelOK
  <1> QED
    BY <1>4, <1>5, <1>6 DEF KernelOK, ClosedUnwatched

\* A descriptor is closed and its registration removed.
LEMMA CloseKeepsKernel ==
    ASSUME KernelOK, NEW fd \in Fd, RemoveFromMultiplexer(fd), UNCHANGED backend,
           open' = open \ {fd}, pending' = pending \ {fd}
    PROVE  KernelOK' /\ open' # Fd
  <1>1. \A g \in Fd : watch'[g] = IF g = fd THEN {} ELSE watch[g]
    BY DEF RemoveFromMultiplexer, KernelOK
  <1>2. watch' \in [Fd -> SUBSET {"in", "out"}] /\ maxfd' \in Int
    BY DEF RemoveFromMultiplexer, KernelOK
  <1>3. fd \notin open'
    OBVIOUS
  <1> QED
    BY <1>1, <1>2, <1>3 DEF KernelOK, ClosedUnwatched

\* Nothing changes, but for what there is to read.
LEMMA SameKernel ==
    ASSUME KernelOK, UNCHANGED <<backend, open, watch, maxfd>>, pending' \subseteq open
    PROVE  KernelOK'
  BY DEF KernelOK, ClosedUnwatched

-----------------------------------------------------------------------------
(***************************************************************************)
(* The socket pool.                                                        *)
(***************************************************************************)
\* The first entry equal to s leaves the pool.
LEMMA WithoutProperties ==
    ASSUME socketpool \in Seq(SocketRecords), NEW s
    PROVE  \/ Without(s) = socketpool
           \/ \E k \in 1..Len(socketpool) :
                socketpool[k] = SocketEntry(s.fd, s.bind) /\ Without(s) = RemoveAt(socketpool, k)
  <1> DEFINE I == {i \in 1..Len(socketpool) : socketpool[i] = SocketEntry(s.fd, s.bind)}
  <1>1. CASE I = {}
    BY <1>1 DEF Without
  <1>2. CASE I # {}
    <2>1. Len(socketpool) \in Nat /\ I \subseteq 1..Len(socketpool)
      BY LenProperties
    <2>2. Min(I) \in I
      BY <1>2, <2>1, LeastPosition
    <2>3. Without(s) = RemoveAt(socketpool, Min(I))
      BY <1>2 DEF Without
    <2> QED
      BY <2>2, <2>3
  <1> QED
    BY <1>1, <1>2

\* The listeners keep their entries, and their places, when the entry of a
\* client goes or that of a descriptor that is closed.
LEMMA WithoutKeepsPool ==
    ASSUME PoolOK, NEW s, socketpool' = Without(s), open' \subseteq open, open \subseteq Fd,
           s.bind # LISTEN \/ s.fd \notin open', s.fd \in Fd
    PROVE  PoolOK'
  <1> DEFINE p == socketpool
             q == socketpool'
  <1>1. p \in Seq(SocketRecords) /\ Len(p) \in Nat
    BY LenProperties DEF PoolOK
  <1>2. CASE q = p
    <2>1. open' = Fd => open = Fd
      OBVIOUS
    <2> QED
      BY <1>1, <1>2, <2>1 DEF PoolOK, HasListener
  <1>3. ASSUME NEW k \in 1..Len(p), p[k] = SocketEntry(s.fd, s.bind), q = RemoveAt(p, k)
        PROVE  PoolOK'
    <2>1. /\ q \in Seq(SocketRecords) /\ Len(q) = Len(p) - 1
          /\ \A j \in 1..Len(p) - 1 : q[j] = IF j < k THEN p[j] ELSE p[j + 1]
      BY <1>1, <1>3, RemoveAtProperties
    <2>2. p[k].fd = s.fd /\ p[k].bind = s.bind
      BY <1>3 DEF SocketEntry
    <2>3. HasListener(q, open')
      <3> SUFFICES ASSUME NEW fd \in open'
                   PROVE  \E i \in 1..Len(q) : q[i] = SocketEntry(fd, LISTEN)
        BY DEF HasListener
      <3>1. PICK i \in 1..Len(p) : p[i] = SocketEntry(fd, LISTEN)
        BY DEF PoolOK, HasListener
      <3>2. p[i].fd = fd /\ p[i].bind = LISTEN
        BY <3>1 DEF SocketEntry
      <3>3. i # k
        BY <2>2, <3>2
      <3>4. CASE i < k
        BY <1>1, <2>1, <3>1, <3>4
      <3>5. CASE i > k
        <4>1. i - 1 \in 1..Len(q) /\ q[i - 1] = p[i]
          BY <1>1, <2>1, <3>5
        <4> QED
          BY <3>1, <4>1
      <3> QED
        BY <3>3, <3>4, <3>5
    <2>4. ASSUME open' = Fd PROVE ListenersFirst(q)
      <3>1. ListenersFirst(p) /\ s.bind # LISTEN
        BY <2>4 DEF PoolOK
      <3> SUFFICES ASSUME NEW i \in 1..Len(q)
                   PROVE  \E j \in 1..i : q[j] = SocketEntry(q[i].fd, LISTEN)
        BY DEF ListenersFirst
      <3>2. PICK h \in 1..Len(p) : q[i] = p[h] /\ h = IF i < k THEN i ELSE i + 1
        BY <1>1, <2>1
      <3>3. PICK j \in 1..h : p[j] = SocketEntry(q[i].fd, LISTEN)
        BY <3>1, <3>2 DEF ListenersFirst
      <3>4. j # k
        BY <2>2, <3>1, <3>3 DEF SocketEntry
      <3>5. CASE j < k
        <4>1. j \in 1..i /\ j \in 1..Len(q)
          BY <1>1, <2>1, <3>2, <3>5
        <4>2. q[j] = p[j]
          BY <2>1, <3>5, <4>1
        <4> QED
          BY <3>3, <4>1, <4>2
      <3>6. CASE j > k
        <4>1. j - 1 \in 1..i /\ j - 1 \in 1..Len(q)
          BY <1>1, <2>1, <3>2, <3>6
        <4>2. q[j - 1] = p[j]
          BY <2>1, <3>6, <4>1
        <4> QED
          BY <3>3, <4>1, <4>2
      <3> QED
        BY <3>4, <3>5, <3>6
    <2> QED
      BY <2>1, <2>3, <2>4 DEF PoolOK
  <1> QED
    BY <1>1, <1>2, <1>3, WithoutProperties

\* A client's entry is added behind that of its listener.
LEMMA AppendKeepsPool ==
    ASSUME PoolOK, NEW e \in SocketRecords, socketpool' = Append(socketpool, e),
           UNCHANGED open
    PROVE  PoolOK'
  <1> DEFINE p == socketpool
             q == socketpool'
  <1>1. p \in Seq(SocketRecords) /\ Len(p) \in Nat
    BY LenProperties DEF PoolOK
  <1>2. /\ q \in Seq(SocketRecords) /\ Len(q) = Len(p) + 1
        /\ \A i \in 1..Len(p) : q[i] = p[i]
        /\ q[Len(q)] = e
    BY <1>1, AppendProperties
  <1>3. HasListener(q, open')
    BY <1>1, <1>2 DEF PoolOK, HasListener
  <1>4. ASSUME open' = Fd PROVE ListenersFirst(q)
    <2> SUFFICES ASSUME NEW i \in 1..Len(q)
                 PROVE  \E j \in 1..i : q[j] = SocketEntry(q[i].fd, LISTEN)
      BY DEF ListenersFirst
    <2>1. CASE i <= Len(p)
      BY <1>1, <1>2, <1>4, <2>1 DEF PoolOK, ListenersFirst
    <2>2. CASE i = Len(q)
      <3>1. e.fd \in open
        BY <1>4 DEF SocketRecords
      <3>2. PICK j \in 1..Len(p) : p[j] = SocketEntry(e.fd, LISTEN)
        BY <3>1 DEF PoolOK, HasListener
      <3> QED
        BY <1>1, <1>2, <2>2, <3>2
    <2> QED
      BY <1>1, <1>2, <2>1, <2>2
  <1> QED
    BY <1>2, <1>3, <1>4 DEF PoolOK

\* The pool does not change, and no descriptor is opened.
LEMMA SamePool ==
    ASSUME PoolOK, UNCHANGED socketpool, open' \subseteq open, open \subseteq Fd
    PROVE  PoolOK'
  <1>1. open' = Fd => open = Fd
    OBVIOUS
  <1> QED
    BY <1>1 DEF PoolOK, HasListener

\* FindSocket finds an entry of the descriptor or none; with all listeners
\* open, it finds the listener's.
LEMMA FindSocketProperties ==
    ASSUME PoolOK, NEW fd \in Fd
    PROVE  /\ FindSocket(fd).fd = fd
           /\ FindSocket(fd) # NoSocket(fd) => FindSocket(fd) \in SocketRecords
           /\ open = Fd => FindSocket(fd) = SocketEntry(fd, LISTEN)
  <1> DEFINE I == {i \in 1..Len(socketpool) : socketpool[i].fd = fd}
  <1>1. /\ Len(socketpool) \in Nat /\ I \subseteq 1..Len(socketpool)
        /\ \A i \in 1..Len(socketpool) : socketpool[i] \in SocketRecords
    BY LenProperties, ElementOfSeq DEF PoolOK
  <1>2. CASE I = {}
    <2>1. FindSocket(fd) = NoSocket(fd)
      BY <1>2 DEF FindSocket
    <2>2. fd \notin open
      <3>1. SUFFICES ASSUME fd \in open PROVE FALSE
        OBVIOUS
      <3>2. PICK i \in 1..Len(socketpool) : socketpool[i] = SocketEntry(fd, LISTEN)
        BY <3>1 DEF PoolOK, HasListener
      <3>3. socketpool[i].fd = fd
        BY <3>2 DEF SocketEntry
      <3> QED
        BY <1>2, <3>3
    <2> QED
      BY <2>1, <2>2 DEF NoSocket, SocketEntry
  <1>3. CASE I # {}
    <2> DEFINE m == Min(I)
    <2>1. m \in I /\ \A j \in I : m <= j
      BY <1>1, <1>3, LeastPosition
    <2>2. FindSocket(fd) = socketpool[m]
      BY <1>3 DEF FindSocket
    <2> HIDE DEF m
    <2>3. m \in 1..Len(socketpool) /\ socketpool[m] \in SocketRecords /\ socketpool[m].fd = fd
      BY <1>1, <2>1
    <2>4. ASSUME open = Fd PROVE socketpool[m] = SocketEntry(fd, LISTEN)
      <3>1. PICK j \in 1..m : socketpool[j] = SocketEntry(fd, LISTEN)
        BY <2>3, <2>4 DEF PoolOK, ListenersFirst
      <3>2. j \in I
        BY <1>1, <2>3, <3>1 DEF SocketEntry
      <3>3. j = m
        BY <1>1, <2>1, <2>3, <3>2
      <3> QED
        BY <3>1, <3>3
    <2> QED
      BY <2>2, <2>3, <2>4
  <1> QED
    BY <1>2, <1>3

-----------------------------------------------------------------------------
(***************************************************************************)
(* The clients.                                                            *)
(***************************************************************************)
\* The step that QueueArms allows.
Arms ==
    \A i \in DOMAIN clients' :
          /\ clients'[i].queued
          /\ \A j \in DOMAIN clients : Shares(clients[j], clients'[i]) => ~clients[j].queued
          => "out" \in watch'[clients'[i].fd]

\* A client with a packet had one before.
NoneQueued ==
    \A i \in DOMAIN clients' : clients'[i].queued =>
        \E j \in DOMAIN clients : Shares(clients[j], clients'[i]) /\ clients[j].queued

\* A step that queues no packet has nothing to arm.
LEMMA NoneQueuedArms ==
    ASSUME NoneQueued PROVE Arms
  BY DEF NoneQueued, Arms

\* A step that leaves the clients alone queues no packet.
LEMMA SameClients ==
    ASSUME ClientsOK, UNCHANGED clients
    PROVE  ClientsOK' /\ NoneQueued
  BY DEF ClientsOK, NoneQueued, Shares

\* DestroySocket closes a descriptor; the clients stay, with their packets.
LEMMA DestroyKeeps ==
    ASSUME KernelOK, PoolOK, ClientsOK, NEW s, s.fd \in Fd, DestroySocket(s), UNCHANGED backend
    PROVE  KernelOK' /\ PoolOK' /\ ClientsOK' /\ NoneQueued /\ open' # Fd
  <1>1. /\ RemoveFromMultiplexer(s.fd) /\ socketpool' = Without(s)
        /\ open' = open \ {s.fd} /\ pending' = pending \ {s.fd}
    BY DEF DestroySocket
  <1>2. KernelOK' /\ open' # Fd
    BY <1>1, CloseKeepsKernel
  <1>3. s.fd \notin open' /\ open' \subseteq open /\ open \subseteq Fd
    BY <1>1 DEF KernelOK
  <1>4. PoolOK'
    BY <1>1, <1>3, WithoutKeepsPool
  <1>5. /\ clients \in Seq(ClientRecords) /\ Len(clients) \in Nat /\ DOMAIN clients = 1..Len(clients)
        /\ \A i \in 1..Len(clients) : clients[i] \in ClientRecords /\ FlagsServed(clients[i])
    BY LenProperties, ElementOfSeq DEF ClientsOK
  <1> DEFINE D(i) == IF Shares(clients[i], s) THEN [clients[i] EXCEPT !.live = FALSE] ELSE clients[i]
  <1>6. clients' = [i \in 1..Len(clients) |-> D(i)]
    BY DEF DestroySocket
  <1>7. ASSUME NEW i \in 1..Len(clients)
        PROVE  /\ D(i) \in ClientRecords /\ FlagsServed(D(i))
               /\ D(i).fd = clients[i].fd /\ D(i).bind = clients[i].bind
               /\ D(i).queued = clients[i].queued
    <2>1. clients[i] \in ClientRecords /\ FlagsServed(clients[i])
      BY <1>5
    <2> QED
      BY <2>1 DEF ClientRecords, FlagsServed
  <1> HIDE DEF D
  <1>8. clients' \in Seq(ClientRecords) /\ Len(clients') = Len(clients)
    <2>1. \A i \in 1..Len(clients) : D(i) \in ClientRecords
      BY <1>7
    <2> QED
      BY <1>5, <1>6, <2>1
  <1>9. ClientsOK'
    BY <1>5, <1>6, <1>7, <1>8 DEF ClientsOK
  <1>10. NoneQueued
    BY <1>5, <1>6, <1>7 DEF NoneQueued, Shares
  <1> QED
    BY <1>2, <1>4, <1>9, <1>10

-----------------------------------------------------------------------------
(***************************************************************************)
(* The event that is served.                                               *)
(***************************************************************************)
LEMMA IdleGood == Idle \in CurRecords /\ Idle.bind = LISTEN /\ ~Idle.freed
  <1>1. Listeners[1] \in Fd
    BY MultiplexerAssumption DEF Fd, Range
  <1> QED
    BY <1>1 DEF Idle, CurRecords

\* The next iteration begins, unless a memory error ends the process.
LEMMA ContinueKeeps ==
    ASSUME EventOK, NEW stray, Continue(stray), UNCHANGED batch
    PROVE  EventOK' /\ ShutdownCloses'
  <1>1. pc' \in {"next", "dead"} /\ cur' = Idle /\ cidx' = 1
    BY DEF Continue, Outcome
  <1>2. ready' = ready /\ idx' = idx
    BY DEF batch
  <1>3. Intact(cur)'
    BY <1>1, IdleGood DEF Intact
  <1> QED
    BY <1>1, <1>2, <1>3, IdleGood DEF EventOK, ShutdownCloses, Labels

\* What the multiplexer reports: a listener's socket_t, or with select any entry
\* of the pool, or with a descriptor closed already nothing known.
LEMMA EventGood ==
    ASSUME MInv, NEW e \in Events
    PROVE  /\ e.rest \in [Fd -> SUBSET {"in", "out", "err"}] /\ e.next \in Nat
           /\ e.s.fd \in Fd
           /\ e.s # NoSocket(e.s.fd) => e.s \in SocketRecords
           /\ open = Fd /\ backend # "select" => e.s.bind = LISTEN
  <1>1. /\ PoolOK /\ idx \in Nat /\ ready \in [Fd -> SUBSET {"in", "out", "err"}]
        /\ open \subseteq Fd /\ backend \in {"epoll", "poll", "select", "kqueue"}
    BY MultiplexerAssumption DEF MInv, EventOK, KernelOK
  <1>2. ASSUME NEW fd \in Fd, NEW ev, NEW rest \in [Fd -> SUBSET {"in", "out", "err"}],
               NEW next \in Nat, e = Event(FindSocket(fd), ev, rest, next)
        PROVE  /\ e.rest \in [Fd -> SUBSET {"in", "out", "err"}] /\ e.next \in Nat
               /\ e.s.fd \in Fd
               /\ e.s # NoSocket(e.s.fd) => e.s \in SocketRecords
               /\ open = Fd => e.s.bind = LISTEN
    <2>1. e.s = FindSocket(fd) /\ e.rest = rest /\ e.next = next
      BY <1>2 DEF Event
    <2>2. open = Fd => e.s.bind = LISTEN
      BY <1>1, <2>1, FindSocketProperties DEF SocketEntry
    <2> QED
      BY <1>1, <2>1, <2>2, FindSocketProperties
  <1>3. CASE backend = "epoll"
    <2>1. PICK fd \in Fd : e = Event(FindSocket(fd), ready[fd], [ready EXCEPT ![fd] = {}], idx)
      BY <1>3 DEF Events, EpollEvents
    <2>2. [ready EXCEPT ![fd] = {}] \in [Fd -> SUBSET {"in", "out", "err"}]
      BY <1>1
    <2> QED
      BY <1>1, <1>2, <2>1, <2>2
  <1>4. CASE backend = "kqueue"
    <2>0. PICK fd \in Fd : \E x \in ready[fd] :
             e = Event(FindSocket(fd), IF x = "err" THEN {"err"} ELSE {"in", "out"},
                       [ready EXCEPT ![fd] = @ \ {x}], idx)
      BY <1>4 DEF Events, KqueueEvents
    <2>1. PICK x \in ready[fd] :
             e = Event(FindSocket(fd), IF x = "err" THEN {"err"} ELSE {"in", "out"},
                       [ready EXCEPT ![fd] = @ \ {x}], idx)
      BY <2>0
    <2>2. [ready EXCEPT ![fd] = @ \ {x}] \in [Fd -> SUBSET {"in", "out", "err"}]
      BY <1>1
    <2> QED
      BY <1>1, <1>2, <2>1, <2>2
  <1>5. CASE backend = "poll"
    <2>1. PICK fd \in Fd : e = Event(FindSocket(fd), ready[fd], ready, idx + 1)
      BY <1>1, <1>5 DEF Events, PollEvents, TableAt
    <2>2. idx + 1 \in Nat
      BY <1>1
    <2> QED
      BY <1>1, <1>2, <2>1, <2>2
  <1>6. CASE backend = "select"
    <2>1. PICK i \in 1..Len(socketpool) :
             e = Event(socketpool[i], ready[socketpool[i].fd], ready, i + 1)
      BY <1>6 DEF Events, SelectEvents
    <2>2. socketpool[i] \in SocketRecords /\ i + 1 \in Nat
      BY <1>1, ElementOfSeq, LenProperties DEF PoolOK
    <2>3. e.s = socketpool[i] /\ e.rest = ready /\ e.next = i + 1
      BY <2>1 DEF Event
    <2> QED
      BY <1>1, <1>6, <2>2, <2>3 DEF SocketRecords
  <1> QED
    BY <1>1, <1>3, <1>4, <1>5, <1>6

-----------------------------------------------------------------------------
(***************************************************************************)
(* The steps.                                                              *)
(***************************************************************************)
\* The wait, the end of a batch, and entries without an event: only the batch
\* changes.
LEMMA BatchKeeps ==
    ASSUME MInv, Wait \/ BatchDone \/ \E e \in Events : SkipEntry(e)
    PROVE  MInv' /\ Arms
  <1>1. UNCHANGED <<backend, clients, socketpool, open, pending, watch, maxfd, cur, cidx>>
    BY DEF Wait, BatchDone, SkipEntry
  <1>2. KernelOK' /\ PoolOK' /\ ClientsOK' /\ NoneQueued
    BY <1>1, SameKernel, SamePool, SameClients DEF MInv, KernelOK
  <1>3. ready' \in [Fd -> SUBSET {"in", "out", "err"}] /\ idx' \in Nat /\ pc' \in {"wait", "next"}
    <2>1. CASE Wait
      BY <2>1 DEF Wait, Batches
    <2>2. CASE BatchDone
      BY <2>2 DEF BatchDone, None
    <2>3. CASE \E e \in Events : SkipEntry(e)
      BY <2>3, EventGood DEF SkipEntry, Take
    <2> QED
      BY <2>1, <2>2, <2>3
  <1>4. EventOK' /\ ShutdownCloses'
    BY <1>1, <1>3 DEF MInv, EventOK, Intact, Labels, ShutdownCloses
  <1> QED
    BY <1>2, <1>4, NoneQueuedArms DEF MInv

\* A descriptor that is in no entry, and an error: the descriptor is closed.
LEMMA CloseKeeps ==
    ASSUME MInv, NEW e \in Events, UnknownFd(e) \/ ErrorEvent(e)
    PROVE  MInv' /\ Arms
  <1>1. e.rest \in [Fd -> SUBSET {"in", "out", "err"}] /\ e.next \in Nat /\ e.s.fd \in Fd
    BY EventGood
  <1>2. KernelOK' /\ PoolOK' /\ ClientsOK' /\ NoneQueued /\ open' # Fd
    <2>1. CASE UnknownFd(e)
      <3>1. KernelOK' /\ open' # Fd
        BY <1>1, <2>1, CloseKeepsKernel DEF UnknownFd, MInv
      <3>2. PoolOK'
        BY <2>1, SamePool DEF UnknownFd, MInv, KernelOK
      <3>3. ClientsOK' /\ NoneQueued
        BY <2>1, SameClients DEF UnknownFd, MInv
      <3> QED
        BY <3>1, <3>2, <3>3
    <2>2. CASE ErrorEvent(e)
      <3>1. DestroySocket(e.s) /\ UNCHANGED backend
        BY <2>2 DEF ErrorEvent
      <3> QED
        BY <1>1, <3>1, DestroyKeeps DEF MInv
    <2> QED
      BY <2>1, <2>2
  <1>3. pc' \in {"next", "dead"} /\ UNCHANGED <<cur, cidx>> /\ ready' = e.rest /\ idx' = e.next
    BY DEF UnknownFd, ErrorEvent, Outcome, Take
  <1>4. EventOK' /\ ShutdownCloses'
    BY <1>1, <1>2, <1>3 DEF MInv, EventOK, Intact, Labels, ShutdownCloses
  <1> QED
    BY <1>2, <1>4, NoneQueuedArms DEF MInv

\* An event is begun with a copy of the socket_t: a listener's has buffers of its
\* own, which no client shares.
LEMMA BeginKeeps ==
    ASSUME MInv, NEW e \in Events, BeginEvent(e)
    PROVE  MInv' /\ Arms
  <1> DEFINE stale == \E i \in 1..Len(clients) : Shares(clients[i], e.s) /\ ~clients[i].live
  <1>1. /\ e.rest \in [Fd -> SUBSET {"in", "out", "err"}] /\ e.next \in Nat
        /\ e.s \in SocketRecords
        /\ open = Fd /\ backend # "select" => e.s.bind = LISTEN
    BY EventGood DEF BeginEvent
  <1>2. /\ UNCHANGED <<backend, clients, socketpool, open, pending, watch, maxfd>>
        /\ cidx' = 1 /\ pc' \in {"send", "recv"} /\ ready' = e.rest /\ idx' = e.next
        /\ cur' = [fd |-> e.s.fd, bind |-> e.s.bind, in |-> "in" \in e.ev, freed |-> stale]
    BY DEF BeginEvent, Take
  <1>3. KernelOK' /\ PoolOK' /\ ClientsOK' /\ NoneQueued
    BY <1>2, SameKernel, SamePool, SameClients DEF MInv, KernelOK
  <1>4. ASSUME open = Fd, backend # "select" PROVE ~stale
    <2>1. \A i \in 1..Len(clients) : clients[i] \in ClientRecords
      BY ElementOfSeq DEF MInv, ClientsOK
    <2>2. \A i \in 1..Len(clients) : clients[i].bind # LISTEN
      BY <2>1, MultiplexerAssumption DEF ClientRecords
    <2> QED
      BY <1>1, <1>4, <2>2 DEF Shares
  <1>5. stale \in BOOLEAN /\ ("in" \in e.ev) \in BOOLEAN
    OBVIOUS
  <1> HIDE DEF stale
  <1>6. cur' \in CurRecords
    BY <1>1, <1>2, <1>5 DEF CurRecords, SocketRecords
  <1>7. Intact(cur)'
    BY <1>1, <1>2, <1>4 DEF Intact
  <1>8. EventOK' /\ ShutdownCloses'
    BY <1>1, <1>2, <1>6, <1>7 DEF EventOK, Labels, ShutdownCloses
  <1> QED
    BY <1>3, <1>8, NoneQueuedArms DEF MInv

\* A client is served, and may leave.
LEMMA SendKeeps ==
    ASSUME MInv, SendClient
    PROVE  MInv' /\ Arms
  <1> DEFINE c == clients[cidx]
  <1>1. /\ clients \in Seq(ClientRecords) /\ Len(clients) \in Nat
        /\ \A i \in 1..Len(clients) : clients[i] \in ClientRecords /\ FlagsServed(clients[i])
    BY LenProperties, ElementOfSeq DEF MInv, ClientsOK
  <1>2. /\ cidx \in 1..Len(clients)
        /\ SetSocketStatus(c.fd, c.flags, READABLE)
        /\ UNCHANGED <<backend, open, pending, maxfd, batch>>
        /\ cidx' = cidx + 1 /\ pc' \in {"send", "dead"}
    BY <1>1 DEF MInv, EventOK, SendClient, Outcome
  <1>3. c \in ClientRecords /\ FlagsServed(c)
    BY <1>1, <1>2
  <1>4. c.fd \in Fd /\ c.bind \in Peers /\ c.bind # LISTEN /\ c.flags \in SUBSET {"in", "out"}
    BY <1>3, MultiplexerAssumption DEF ClientRecords
  <1>5. KernelOK'
    BY <1>2, <1>4, StatusKeepsKernel DEF MInv
  <1>6. PoolOK' /\ ClientsOK' /\ NoneQueued /\ cur' \in CurRecords /\ Intact(cur)'
    <2>1. CASE c.destroy
      <3>1. /\ clients' = RemoveAt(clients, cidx) /\ socketpool' = Without(c)
            /\ cur' = [cur EXCEPT !.freed = @ \/ Shares(c, cur)]
        BY <2>1 DEF SendClient
      <3>2. PoolOK'
        BY <1>2, <1>4, <3>1, WithoutKeepsPool DEF MInv, KernelOK
      <3>3. /\ clients' \in Seq(ClientRecords) /\ Len(clients') = Len(clients) - 1
            /\ \A j \in 1..Len(clients) - 1 :
                 clients'[j] = IF j < cidx THEN clients[j] ELSE clients[j + 1]
        BY <1>1, <1>2, <3>1, RemoveAtProperties
      <3>4. \A j \in 1..Len(clients') : \E i \in 1..Len(clients) : clients'[j] = clients[i]
        <4> SUFFICES ASSUME NEW j \in 1..Len(clients')
                     PROVE  \E i \in 1..Len(clients) : clients'[j] = clients[i]
          OBVIOUS
        <4>1. CASE j < cidx
          BY <1>1, <1>2, <3>3, <4>1
        <4>2. CASE j >= cidx
          BY <1>1, <1>2, <3>3, <4>2
        <4> QED
          BY <1>1, <1>2, <3>3, <4>1, <4>2
      <3>5. ClientsOK'
        BY <1>1, <3>3, <3>4 DEF ClientsOK
      <3>6. NoneQueued
        <4>1. DOMAIN clients = 1..Len(clients) /\ DOMAIN clients' = 1..Len(clients')
          BY <1>1, <3>3, LenProperties
        <4> QED
          BY <3>4, <4>1 DEF NoneQueued, Shares
      <3>7. cur \in CurRecords /\ Intact(cur)
        BY DEF MInv, EventOK
      <3>8. (cur.freed \/ Shares(c, cur)) \in BOOLEAN
        OBVIOUS
      <3>9. /\ cur' \in CurRecords /\ cur'.bind = cur.bind
            /\ cur'.freed = (cur.freed \/ Shares(c, cur))
        BY <3>1, <3>7, <3>8 DEF CurRecords
      <3>10. Intact(cur)'
        BY <1>2, <1>4, <3>7, <3>9 DEF Intact, Shares
      <3> QED
        BY <3>2, <3>5, <3>6, <3>9, <3>10
    <2>2. CASE ~c.destroy
      <3> DEFINE t == Served(c)
      <3>1. clients' = [clients EXCEPT ![cidx] = t] /\ UNCHANGED <<socketpool, cur>>
        BY <2>2 DEF SendClient
      <3>2. t \in ClientRecords /\ t.queued = FALSE /\ FlagsServed(t)
        BY <1>3 DEF Served, ClientRecords, FlagsServed, READABLE
      <3> HIDE DEF t
      <3>3. /\ clients' \in Seq(ClientRecords) /\ Len(clients') = Len(clients)
            /\ \A i \in 1..Len(clients) : clients'[i] = IF i = cidx THEN t ELSE clients[i]
        BY <1>1, <1>2, <3>1, <3>2, ExceptSeq
      <3>4. ClientsOK'
        BY <1>1, <3>2, <3>3 DEF ClientsOK
      <3>5. NoneQueued
        <4>1. DOMAIN clients = 1..Len(clients) /\ DOMAIN clients' = 1..Len(clients)
          BY <1>1, <3>3, LenProperties
        <4> QED
          BY <3>2, <3>3, <4>1 DEF NoneQueued, Shares
      <3>6. PoolOK'
        BY <1>2, <3>1, SamePool DEF MInv, KernelOK
      <3>7. cur' \in CurRecords /\ Intact(cur)'
        BY <1>2, <3>1 DEF MInv, EventOK, Intact
      <3> QED
        BY <3>4, <3>5, <3>6, <3>7
    <2> QED
      BY <2>1, <2>2
  <1>7. EventOK' /\ ShutdownCloses'
    BY <1>2, <1>6 DEF MInv, EventOK, ShutdownCloses, Labels, batch
  <1> QED
    BY <1>5, <1>6, <1>7, NoneQueuedArms DEF MInv

\* SendPackets is done, or recvfrom has nothing.
LEMMA IdleKeeps ==
    ASSUME MInv, SentPackets \/ ReceiveNothing
    PROVE  MInv' /\ Arms
  <1>1. UNCHANGED <<backend, clients, socketpool, open, pending, watch, maxfd, batch>>
    BY DEF SentPackets, ReceiveNothing
  <1>2. KernelOK' /\ PoolOK' /\ ClientsOK' /\ NoneQueued
    BY <1>1, SameKernel, SamePool, SameClients DEF MInv, KernelOK
  <1>3. \/ Continue(FALSE) \/ Continue(cur.freed)
        \/ pc' = "recv" /\ cidx' = 1 /\ UNCHANGED cur
    BY DEF SentPackets, ReceiveNothing
  <1>4. CASE Continue(FALSE) \/ Continue(cur.freed)
    BY <1>1, <1>2, <1>4, ContinueKeeps, NoneQueuedArms DEF MInv
  <1>5. CASE pc' = "recv" /\ cidx' = 1 /\ UNCHANGED cur
    <2>1. EventOK' /\ ShutdownCloses'
      BY <1>1, <1>5 DEF MInv, EventOK, Intact, Labels, ShutdownCloses, batch
    <2> QED
      BY <1>2, <2>1, NoneQueuedArms DEF MInv
  <1> QED
    BY <1>3, <1>4, <1>5

\* sendto or recvfrom fails: the socket of the event is destroyed.
LEMMA FailKeeps ==
    ASSUME MInv, SendFail \/ ReceiveError
    PROVE  MInv' /\ Arms
  <1>1. DestroySocket(cur) /\ UNCHANGED <<backend, batch>>
    BY DEF SendFail, ReceiveError
  <1>2. cur \in CurRecords /\ cur.fd \in Fd
    BY DEF MInv, EventOK, CurRecords
  <1>3. KernelOK' /\ PoolOK' /\ ClientsOK' /\ NoneQueued /\ open' # Fd
    BY <1>1, <1>2, DestroyKeeps DEF MInv
  <1>4. \/ Continue(cur.freed)
        \/ cur' = [cur EXCEPT !.freed = TRUE] /\ cidx' = 1 /\ pc' \in {"recv", "dead"}
    BY DEF SendFail, ReceiveError, Outcome
  <1>5. CASE Continue(cur.freed)
    BY <1>1, <1>3, <1>5, ContinueKeeps, NoneQueuedArms DEF MInv
  <1>6. CASE cur' = [cur EXCEPT !.freed = TRUE] /\ cidx' = 1 /\ pc' \in {"recv", "dead"}
    <2>1. cur' \in CurRecords
      BY <1>2, <1>6 DEF CurRecords
    <2>2. EventOK' /\ ShutdownCloses'
      BY <1>1, <1>3, <1>6, <2>1 DEF MInv, EventOK, Intact, Labels, ShutdownCloses, batch
    <2> QED
      BY <1>3, <2>2, NoneQueuedArms DEF MInv
  <1> QED
    BY <1>4, <1>5, <1>6

\* What ProcessPacket makes of a client.
LEMMA ProcessPacketGood ==
    ASSUME NEW c \in ClientRecords, FlagsServed(c), NEW queues \in BOOLEAN, NEW destroys \in BOOLEAN
    PROVE  LET d == ProcessPacket(c, queues, destroys)
           IN  /\ d \in ClientRecords /\ FlagsServed(d) /\ d.fd = c.fd /\ d.bind = c.bind
               /\ ~queues => d = c
  <1> DEFINE d == [c EXCEPT !.queued = TRUE, !.destroy = @ \/ destroys, !.flags = QueueStatus]
  <1>1. QueueStatus \in SUBSET {"in", "out"} /\ (c.destroy \/ destroys) \in BOOLEAN
    BY DEF QueueStatus, READABLE, WRITABLE
  <1>2. d \in ClientRecords /\ d.queued = TRUE /\ d.fd = c.fd /\ d.bind = c.bind
    BY <1>1 DEF ClientRecords
  <1> HIDE DEF d
  <1>3. FlagsServed(d)
    BY <1>2 DEF FlagsServed
  <1>4. ProcessPacket(c, queues, destroys) = IF ~queues THEN c ELSE d
    BY DEF ProcessPacket, d
  <1> QED
    BY <1>2, <1>3, <1>4

\* A datagram is received.  A packet queued for a client that had none is seen
\* as news by every multiplexer, because the client's flags lack SF_WRITABLE.
LEMMA ReceiveKeeps ==
    ASSUME MInv, NEW p \in Peers, NEW queues \in BOOLEAN, NEW destroys \in BOOLEAN,
           Receive(p, queues, destroys)
    PROVE  MInv' /\ Arms
  <1> DEFINE i    == FindClient(cur.fd, p)
             n    == NewClient(cur.fd, p)
             pool == IF i # 0 THEN clients ELSE Append(clients, n)
             k    == IF i # 0 THEN i ELSE Len(pool)
             d    == ProcessPacket(pool[k], queues, destroys)
  <1>1. /\ clients \in Seq(ClientRecords) /\ Len(clients) \in Nat
        /\ \A j \in 1..Len(clients) : clients[j] \in ClientRecords /\ FlagsServed(clients[j])
    BY LenProperties, ElementOfSeq DEF MInv, ClientsOK
  <1>2. cur \in CurRecords /\ cur.fd \in Fd
    BY DEF MInv, EventOK, CurRecords
  <1>3. n \in ClientRecords /\ FlagsServed(n) /\ n.queued = FALSE
    BY <1>2 DEF NewClient, ClientRecords, FlagsServed
  <1>4. i \in 0..Len(clients) /\ (i # 0 => clients[i].fd = cur.fd /\ clients[i].bind = p)
    <2> DEFINE I == {j \in 1..Len(clients) : clients[j].fd = cur.fd /\ clients[j].bind = p}
    <2>1. i = IF I # {} THEN Min(I) ELSE 0
      BY DEF FindClient, SelectInSeq
    <2>2. I # {} => Min(I) \in I
      BY <1>1, LeastPosition
    <2> QED
      BY <1>1, <2>1, <2>2
  <1>5. /\ clients' = [pool EXCEPT ![k] = d]
        /\ socketpool' = IF i # 0 THEN socketpool ELSE Append(socketpool, SocketEntry(cur.fd, p))
        /\ IF queues THEN SetSocketStatus(cur.fd, pool[k].flags, QueueStatus) ELSE watch' = watch
        /\ cur.fd \in pending /\ pending' = pending \ {cur.fd}
        /\ Continue(cur.freed) /\ UNCHANGED <<backend, open, maxfd, batch>>
    BY DEF Receive
  <1> HIDE DEF i, n
  <1>6. /\ pool \in Seq(ClientRecords) /\ k \in 1..Len(pool) /\ Len(pool) \in Nat
        /\ pool[k].fd = cur.fd
        /\ \A j \in 1..Len(pool) :
              /\ pool[j] \in ClientRecords /\ FlagsServed(pool[j])
              /\ \/ j \in 1..Len(clients) /\ pool[j] = clients[j]
                 \/ j = k /\ ~pool[j].queued
    <2>1. CASE i # 0
      BY <1>1, <1>4, <2>1
    <2>2. CASE i = 0
      <3>1. /\ pool \in Seq(ClientRecords) /\ Len(pool) = Len(clients) + 1 /\ pool[Len(pool)] = n
            /\ \A j \in 1..Len(clients) : pool[j] = clients[j]
        BY <1>1, <1>3, <2>2, AppendProperties
      <3>2. n.fd = cur.fd
        BY DEF n, NewClient
      <3> HIDE DEF pool
      <3> QED
        BY <1>1, <1>3, <2>2, <3>1, <3>2
    <2> QED
      BY <2>1, <2>2
  <1> HIDE DEF pool, k
  <1>7. pool[k] \in ClientRecords /\ pool[k].flags \in SUBSET {"in", "out"} /\ FlagsServed(pool[k])
    <2>1. pool[k] \in ClientRecords /\ FlagsServed(pool[k])
      BY <1>6
    <2> QED
      BY <2>1 DEF ClientRecords
  <1>8. /\ d \in ClientRecords /\ FlagsServed(d) /\ d.fd = cur.fd /\ d.bind = pool[k].bind
        /\ ~queues => d = pool[k]
    BY <1>6, <1>7, ProcessPacketGood
  <1> HIDE DEF d
  <1>9. /\ clients' \in Seq(ClientRecords) /\ Len(clients') = Len(pool)
        /\ \A j \in 1..Len(pool) : clients'[j] = IF j = k THEN d ELSE pool[j]
    BY <1>5, <1>6, <1>8, ExceptSeq
  <1>10. ClientsOK'
    BY <1>6, <1>8, <1>9 DEF ClientsOK
  <1>11. PoolOK'
    <2>1. CASE i # 0
      BY <1>5, <2>1, SamePool DEF MInv, KernelOK
    <2>2. CASE i = 0
      <3>1. SocketEntry(cur.fd, p) \in SocketRecords
        BY <1>2 DEF SocketEntry, SocketRecords
      <3> QED
        BY <1>5, <2>2, <3>1, AppendKeepsPool DEF MInv
    <2> QED
      BY <2>1, <2>2
  <1>12. KernelOK'
    <2>1. CASE queues
      <3>1. SetSocketStatus(cur.fd, pool[k].flags, QueueStatus)
        BY <1>5, <2>1
      <3> QED
        BY <1>2, <1>5, <1>7, <3>1, StatusKeepsKernel DEF MInv
    <2>2. CASE ~queues
      BY <1>5, <2>2, SameKernel DEF MInv, KernelOK
    <2> QED
      BY <2>1, <2>2
  <1>13. EventOK' /\ ShutdownCloses'
    BY <1>5, ContinueKeeps DEF MInv
  <1>14. Arms
    <2>1. /\ DOMAIN clients = 1..Len(clients) /\ DOMAIN clients' = 1..Len(pool)
      BY <1>1, <1>9, LenProperties
    <2> SUFFICES ASSUME NEW j \in 1..Len(pool), clients'[j].queued,
                        \A h \in 1..Len(clients) :
                            Shares(clients[h], clients'[j]) => ~clients[h].queued
                 PROVE  "out" \in watch'[clients'[j].fd]
      BY <2>1 DEF Arms
    <2>2. j = k /\ clients'[j] = d
      BY <1>6, <1>9 DEF Shares
    <2>3. ~pool[k].queued
      BY <1>6, <1>8, <2>2 DEF Shares
    <2>4. queues /\ SetSocketStatus(cur.fd, pool[k].flags, QueueStatus)
      BY <1>5, <1>8, <2>2, <2>3
    <2>5. "out" \notin pool[k].flags /\ "out" \in QueueStatus
      BY <1>7, <2>3 DEF FlagsServed, QueueStatus, WRITABLE
    <2>6. cur.fd \in open /\ backend \in {"epoll", "poll", "select", "kqueue"}
      BY <1>5, MultiplexerAssumption DEF MInv, KernelOK
    <2>7. "out" \in Status(cur.fd, pool[k].flags, QueueStatus)
      BY <2>5, <2>6 DEF Status
    <2>8. watch'[cur.fd] = Status(cur.fd, pool[k].flags, QueueStatus)
      BY <1>2, <2>4 DEF SetSocketStatus, MInv, KernelOK
    <2> QED
      BY <1>8, <2>2, <2>7, <2>8
  <1> QED
    BY <1>10, <1>11, <1>12, <1>13, <1>14 DEF MInv

\* A datagram arrives.
LEMMA ArriveKeeps ==
    ASSUME MInv, NEW fd \in Fd, Arrive(fd)
    PROVE  MInv' /\ Arms
  <1>1. /\ UNCHANGED <<backend, clients, socketpool, open, watch, maxfd, batch, cur, cidx, pc>>
        /\ pending' \subseteq open
    BY DEF Arrive, MInv, KernelOK
  <1>2. KernelOK' /\ PoolOK' /\ ClientsOK' /\ NoneQueued
    BY <1>1, SameKernel, SamePool, SameClients DEF MInv, KernelOK
  <1>3. EventOK' /\ ShutdownCloses'
    BY <1>1 DEF MInv, EventOK, Intact, ShutdownCloses, batch
  <1> QED
    BY <1>2, <1>3, NoneQueuedArms DEF MInv

\* The server shuts down: every descriptor that is open is in the pool.
LEMMA ShutdownKeeps ==
    ASSUME MInv, Shutdown
    PROVE  MInv' /\ Arms
  <1>1. /\ open' = open \ {socketpool[i].fd : i \in 1..Len(socketpool)}
        /\ socketpool' = <<>> /\ pending' = {} /\ pc' = "down"
        /\ watch' = IF backend = "select" THEN watch ELSE None
        /\ UNCHANGED <<backend, clients, maxfd, batch, cur, cidx>>
    BY DEF Shutdown
  <1>2. open' = {}
    <2>1. ASSUME NEW fd \in open PROVE \E i \in 1..Len(socketpool) : socketpool[i].fd = fd
      <3>1. PICK i \in 1..Len(socketpool) : socketpool[i] = SocketEntry(fd, LISTEN)
        BY DEF MInv, PoolOK, HasListener
      <3> QED
        BY <3>1 DEF SocketEntry
    <2> QED
      BY <1>1, <2>1
  <1>3. open' # Fd
    BY <1>2, MultiplexerAssumption DEF Fd, Range
  <1>4. KernelOK'
    BY <1>1, <1>2, <1>3 DEF MInv, KernelOK, ClosedUnwatched, None
  <1>5. PoolOK'
    <2>1. socketpool' \in Seq(SocketRecords)
      BY <1>1, EmptySeq
    <2> QED
      BY <1>2, <1>3, <2>1 DEF PoolOK, HasListener
  <1>6. ClientsOK' /\ NoneQueued
    BY <1>1, SameClients DEF MInv
  <1>7. EventOK' /\ ShutdownCloses'
    BY <1>1, <1>2, <1>3 DEF MInv, EventOK, Intact, ShutdownCloses, Labels, batch
  <1> QED
    BY <1>4, <1>5, <1>6, <1>7, NoneQueuedArms DEF MInv

\* Every step keeps the invariant, and is one that QueueArms allows.
LEMMA NextMInv == MInv /\ [MNext]_vars => MInv' /\ [Arms]_vars
  <1> SUFFICES ASSUME MInv, [MNext]_vars PROVE MInv' /\ [Arms]_vars
    OBVIOUS
  <1>1. CASE UNCHANGED vars
    BY <1>1 DEF vars, batch, MInv, KernelOK, ClosedUnwatched, PoolOK, ClientsOK, EventOK, Intact,
                ShutdownCloses
  <1>2. CASE HandleEvent
    BY <1>2, BatchKeeps, CloseKeeps, BeginKeeps DEF HandleEvent
  <1> QED
    BY <1>1, <1>2, BatchKeeps, SendKeeps, IdleKeeps, FailKeeps, ReceiveKeeps, ArriveKeeps,
       ShutdownKeeps DEF MNext, Loop

\* It holds when InitializeSockets is done.
LEMMA InitMInv == MInit => MInv
  <1> SUFFICES ASSUME MInit PROVE MInv
    OBVIOUS
  <1>1. /\ Listeners \in Seq(Nat) /\ Len(Listeners) \in Nat \ {0}
        /\ DOMAIN Listeners = 1..Len(Listeners)
        /\ \A i \in 1..Len(Listeners) : Listeners[i] \in Fd /\ Listeners[i] \in Nat
    BY MultiplexerAssumption, LenProperties, ElementOfSeq DEF Fd, Range
  <1>2. KernelOK
    <2>1. Last(Listeners) \in Int
      BY <1>1 DEF Last
    <2> QED
      BY <2>1 DEF MInit, KernelOK, ClosedUnwatched, READABLE
  <1>3. PoolOK
    <2> DEFINE E(i) == SocketEntry(Listeners[i], LISTEN)
    <2>1. socketpool = [i \in 1..Len(Listeners) |-> E(i)] /\ open = Fd
      BY DEF MInit
    <2>2. \A i \in 1..Len(Listeners) : E(i) \in SocketRecords /\ E(i).fd = Listeners[i]
      BY <1>1 DEF SocketEntry, SocketRecords
    <2>3. \A fd \in Fd : \E i \in 1..Len(Listeners) : E(i) = SocketEntry(fd, LISTEN)
      BY <1>1 DEF Fd, Range
    <2>4. \A i \in 1..Len(Listeners) : E(i) = SocketEntry(E(i).fd, LISTEN)
      BY <2>2
    <2> HIDE DEF E
    <2>5. socketpool \in Seq(SocketRecords) /\ Len(socketpool) = Len(Listeners)
      BY <1>1, <2>1, <2>2
    <2>6. HasListener(socketpool, open)
      BY <2>1, <2>3, <2>5 DEF HasListener
    <2>7. ListenersFirst(socketpool)
      BY <1>1, <2>1, <2>4, <2>5 DEF ListenersFirst
    <2> QED
      BY <2>5, <2>6, <2>7 DEF PoolOK
  <1>4. ClientsOK
    <2>1. clients \in Seq(ClientRecords) /\ Len(clients) = 0
      BY EmptySeq DEF MInit
    <2> QED
      BY <2>1 DEF ClientsOK
  <1>5. EventOK /\ ShutdownCloses
    BY IdleGood DEF MInit, None, EventOK, Intact, Labels, ShutdownCloses
  <1> QED
    BY <1>2, <1>3, <1>4, <1>5 DEF MInv

\* Hence it always holds.
LEMMA MInvariance == MSpec => []MInv
  BY InitMInv, NextMInv, PTL DEF MSpec

-----------------------------------------------------------------------------
\* The pools, the batch and the event stay well typed: FindSocket's answer is
\* looked at before it is used.
THEOREM MultiplexersTypeCorrect == MSpec => []MTypeOK
  <1>1. MInv => MTypeOK
    BY DEF MInv, KernelOK, PoolOK, ClientsOK, EventOK, MTypeOK, SocketRecords, ClientRecords,
           CurRecords, Labels
  <1> QED
    BY <1>1, MInvariance, PTL

\* Every open listening socket is watched for datagrams, whatever is done for
\* the clients that share its descriptor; with select, until one is closed.
THEOREM ListenersStayHeard == MSpec => []ListenersHeard
  <1>1. ASSUME NEW fd \in Fd PROVE fd <= Last(Listeners)
    <2>1. PICK i \in 1..Len(Listeners) : fd = Listeners[i]
      BY MultiplexerAssumption, LenProperties DEF Fd, Range
    <2>2. Len(Listeners) \in Nat /\ Listeners[i] \in Nat /\ Listeners[Len(Listeners)] \in Nat
      BY <2>1, MultiplexerAssumption, LenProperties, ElementOfSeq
    <2>3. CASE i = Len(Listeners)
      BY <2>1, <2>2, <2>3 DEF Last
    <2>4. CASE i < Len(Listeners)
      <3>1. Listeners[i] < Listeners[Len(Listeners)]
        BY <2>1, <2>2, <2>4, MultiplexerAssumption
      <3> QED
        BY <2>1, <2>2, <3>1 DEF Last
    <2> QED
      BY <2>2, <2>3, <2>4
  <1>2. MInv => ListenersHeard
    BY <1>1 DEF MInv, KernelOK, ListenersHeard, Heard
  <1> QED
    BY <1>2, MInvariance, PTL

\* ReceivePackets is handed live buffers as long as no socket was destroyed,
\* however many clients SendPackets has removed for the same event.
THEOREM BuffersStayLive == MSpec => []BuffersLive
  <1>1. MInv => BuffersLive
    BY DEF MInv, EventOK, Intact, BuffersLive
  <1> QED
    BY <1>1, MInvariance, PTL

\* No client of a destroyed socket gets its closed descriptor registered again.
THEOREM ClosedStayUnwatched == MSpec => []ClosedUnwatched
  <1>1. MInv => ClosedUnwatched
    BY DEF MInv, KernelOK
  <1> QED
    BY <1>1, MInvariance, PTL

\* ShutdownSockets leaves no descriptor open.
THEOREM ShutdownIsComplete == MSpec => []ShutdownCloses
  <1>1. MInv => ShutdownCloses
    BY DEF MInv
  <1> QED
    BY <1>1, MInvariance, PTL

\* A client's first packet makes every multiplexer watch for output.
THEOREM QueueAlwaysArms == MSpec => QueueArms
  <1>1. MSpec => [][Arms]_vars
    BY InitMInv, NextMInv, PTL DEF MSpec
  <1> QED
    BY <1>1 DEF QueueArms, Arms

=============================================================================
