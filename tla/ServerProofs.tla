---------------------------- MODULE ServerProofs ----------------------------
(***************************************************************************)
(* Invariants of Server, proved for every configuration, every set of      *)
(* peers and files and every bound.                                        *)
(***************************************************************************)
EXTENDS ClientProofs

-----------------------------------------------------------------------------
(***************************************************************************)
(* The client pool.  GoodPool is the part of the inductive invariant about *)
(* it: every client is well formed, and no two share a key.                *)
(***************************************************************************)
Keyed(s) ==
    \A i, j \in 1..Len(s) :
        /\ s[i].fd = s[j].fd
        /\ s[i].src.port = s[j].src.port
        /\ s[i].src.port # UnmatchablePort
        => i = j

GoodPool(s) ==
    /\ s \in Seq(Clients)
    /\ \A i \in 1..Len(s) : Good(s[i])
    /\ Keyed(s)

\* Removing a client.
LEMMA PoolRemove ==
    ASSUME NEW s, GoodPool(s), NEW k \in 1..Len(s)
    PROVE  GoodPool(RemoveAt(s, k))
  <1> DEFINE t == RemoveAt(s, k)
             old(i) == IF i < k THEN i ELSE i + 1
  <1>1. s \in Seq(Clients) /\ Len(s) \in Nat
    BY LenProperties DEF GoodPool
  <1>2. t \in Seq(Clients) /\ Len(t) = Len(s) - 1 /\ \A i \in 1..Len(t) : t[i] = s[old(i)]
    BY <1>1, RemoveAtProperties
  <1> HIDE DEF t
  <1>3. \A i \in 1..Len(t) : old(i) \in 1..Len(s)
    BY <1>1, <1>2
  <1>4. \A i, j \in 1..Len(t) : old(i) = old(j) => i = j
    BY <1>1, <1>2
  <1> HIDE DEF old
  <1>5. \A i \in 1..Len(t) : Good(t[i])
    BY <1>2, <1>3 DEF GoodPool
  <1>6. Keyed(t)
    <2> SUFFICES ASSUME NEW i \in 1..Len(t), NEW j \in 1..Len(t),
                        t[i].fd = t[j].fd, t[i].src.port = t[j].src.port,
                        t[i].src.port # UnmatchablePort
                 PROVE  i = j
      BY DEF Keyed
    <2>1. t[i] = s[old(i)] /\ t[j] = s[old(j)] /\ old(i) \in 1..Len(s) /\ old(j) \in 1..Len(s)
      BY <1>2, <1>3
    <2>2. old(i) = old(j)
      BY <2>1 DEF GoodPool, Keyed
    <2> QED
      BY <1>4, <2>2
  <1> QED
    BY <1>2, <1>5, <1>6 DEF GoodPool, t

\* Updating a client in place.
LEMMA PoolUpdate ==
    ASSUME NEW s, GoodPool(s), NEW k \in 1..Len(s), NEW d, Good(d), SameOwner(d, s[k])
    PROVE  GoodPool([s EXCEPT ![k] = d])
  <1> DEFINE t == [s EXCEPT ![k] = d]
  <1>1. s \in Seq(Clients) /\ d \in Clients
    BY DEF GoodPool, Good, Core
  <1>2. t \in Seq(Clients) /\ Len(t) = Len(s) /\ \A i \in 1..Len(s) : t[i] = IF i = k THEN d ELSE s[i]
    BY <1>1, ExceptSeq
  <1> HIDE DEF t
  <1>3. \A i \in 1..Len(t) : Good(t[i]) /\ t[i].fd = s[i].fd /\ t[i].src = s[i].src
    BY <1>2 DEF GoodPool, SameOwner
  <1>4. Keyed(t)
    BY <1>2, <1>3 DEF GoodPool, Keyed
  <1> QED
    BY <1>2, <1>3, <1>4 DEF GoodPool, t

\* Adding a client whose key is free.
LEMMA PoolAppend ==
    ASSUME NEW s, GoodPool(s), NEW d, Good(d),
           d.src.port # UnmatchablePort =>
               \A i \in 1..Len(s) : ~(s[i].fd = d.fd /\ s[i].src.port = d.src.port)
    PROVE  GoodPool(Append(s, d))
  <1> DEFINE t == Append(s, d)
  <1>1. s \in Seq(Clients) /\ d \in Clients /\ Len(s) \in Nat
    BY LenProperties DEF GoodPool, Good, Core
  <1>2. /\ t \in Seq(Clients) /\ Len(t) = Len(s) + 1
        /\ \A i \in 1..Len(s) : t[i] = s[i]
        /\ t[Len(s) + 1] = d
    BY <1>1, AppendProperties
  <1> HIDE DEF t
  <1>3. \A i \in 1..Len(t) : i \in 1..Len(s) \/ i = Len(s) + 1
    BY <1>1, <1>2
  <1>4. \A i \in 1..Len(t) : Good(t[i])
    BY <1>2, <1>3 DEF GoodPool
  <1>5. Keyed(t)
    BY <1>2, <1>3 DEF GoodPool, Keyed
  <1> QED
    BY <1>2, <1>4, <1>5 DEF GoodPool, t

\* What FindClient finds: the client of that descriptor and port, if any.
LEMMA FindClientFinds ==
    ASSUME GoodPool(clientpool), NEW fd \in Fd, NEW port \in Port
    PROVE  LET i == FindClient(fd, port)
           IN  \/ /\ i \in 1..Len(clientpool)
                  /\ clientpool[i].fd = fd /\ clientpool[i].src.port = port
               \/ /\ i = 0
                  /\ port # UnmatchablePort =>
                       \A j \in 1..Len(clientpool) :
                          ~(clientpool[j].fd = fd /\ clientpool[j].src.port = port)
  <1> DEFINE found == {j \in 1..Len(clientpool) : Matches(clientpool[j], fd, port)}
  <1>1. clientpool \in Seq(Clients) /\ Len(clientpool) \in Nat
    BY LenProperties DEF GoodPool
  <1>2. ASSUME NEW j \in 1..Len(clientpool)
        PROVE  Matches(clientpool[j], fd, port) <=>
                 /\ clientpool[j].fd = fd /\ clientpool[j].src.port = port
                 /\ port # UnmatchablePort
    <2> DEFINE q == clientpool[j].src.port
    <2>1. clientpool[j] \in Clients /\ clientpool[j].tid = Tid(q)
      BY <1>1 DEF GoodPool, Good, Core
    <2>2. q \in Port
      BY <2>1 DEF Clients, Source
    <2> HIDE DEF q
    <2>3. q \in Nat /\ 0 < q /\ q < 65536 /\ port \in Nat /\ 0 < port /\ port < 65536
      BY <2>2, PortAssumption
    <2>4. Tid(q) = -GetPort(port) <=> q = port /\ q # UnmatchablePort
      BY <2>3, TidMatches
    <2> QED
      BY <2>1, <2>4 DEF Matches, q
  <1>3. CASE found = {}
    <2>1. FindClient(fd, port) = 0
      BY <1>3 DEF FindClient
    <2> QED
      BY <1>2, <1>3, <2>1
  <1>4. CASE found # {}
    <2>1. FindClient(fd, port) = Min(found)
      BY <1>4 DEF FindClient
    <2>2. Min(found) \in found
      BY <1>1, <1>4, LeastPosition
    <2> QED
      BY <1>2, <2>1, <2>2
  <1> QED
    BY <1>3, <1>4

\* A client fresh from AddClient.
LEMMA NewClientGood ==
    ASSUME NEW fd \in Fd, NEW src \in Source
    PROVE  LET c == NewClient(fd, src)
           IN  Good(c) /\ c.fd = fd /\ c.src = src
  <1> DEFINE c == NewClient(fd, src)
  <1>1. Tid(src.port) \in Int
    <2>1. src.port \in Nat /\ 0 < src.port /\ src.port < 65536
      BY PortAssumption DEF Source
    <2> QED
      BY <2>1 DEF Tid, GetPort, Short
  <1>2. NullFile \in Files /\ NullFile.mode = "null" /\ DEFAULT_BLKSIZE \in Nat
    BY DEF Files, NullFile, DEFAULT_BLKSIZE
  <1>3. NoPacket \in OutPackets \union {NoPacket} /\ <<>> \in Seq(OutPackets)
    OBVIOUS
  <1>4. /\ c \in Clients /\ c.fd = fd /\ c.src = src /\ c.waiting = 0
        /\ c.tid = Tid(src.port) /\ c.currentblockno = 0 /\ c.actualblockno = 0
        /\ c.sendingfile = FALSE /\ c.destroy = FALSE /\ c.queue = <<>>
        /\ c.f = NullFile
    BY <1>1, <1>2, <1>3, SmallMod DEF NewClient, Clients
  <1> HIDE DEF c
  <1>5. Core(c) /\ HasFile(c)
    BY <1>2, <1>4, SmallMod DEF Core, HasFile, Newest, WithinFile
  <1> QED
    BY <1>4, <1>5 DEF Good, c

-----------------------------------------------------------------------------
(***************************************************************************)
(* The socket pool.                                                        *)
(***************************************************************************)
Sockets == [fd : Fd, bind : Port \union {LISTEN}]

\* Forgetting a socket removes at most one entry.
LEMMA ForgetSocketType ==
    ASSUME NEW S, socketpool \in Seq(S), NEW fd, NEW bind, ForgetSocket(fd, bind)
    PROVE  socketpool' \in Seq(S)
  <1> DEFINE I == Entries(fd, bind)
  <1>1. Len(socketpool) \in Nat
    BY LenProperties
  <1>2. I \subseteq 1..Len(socketpool)
    BY DEF Entries
  <1>3. CASE I = {}
    BY <1>3 DEF ForgetSocket
  <1>4. CASE I # {}
    <2>1. Min(I) \in 1..Len(socketpool)
      BY <1>1, <1>2, <1>4, LeastPosition
    <2>2. socketpool' = RemoveAt(socketpool, Min(I))
      BY <1>4 DEF ForgetSocket
    <2> QED
      BY <2>1, <2>2, RemoveAtProperties
  <1> QED
    BY <1>3, <1>4

\* So does destroying one.
LEMMA DestroySocketType ==
    ASSUME TypeOK, NEW fd \in Fd, DestroySocket(fd)
    PROVE  socketpool' \in Seq(Sockets) /\ open' \subseteq Fd /\ interest' \in [Fd -> BOOLEAN]
  BY ForgetSocketType DEF DestroySocket, RemoveFromMultiplexer, TypeOK, Sockets

-----------------------------------------------------------------------------
(***************************************************************************)
(* The inductive invariant.                                                *)
(***************************************************************************)
\* The client SendPackets is about to forget is there, and is to go.
Reaping == pc = "reap" => cidx \in 1..Len(clientpool) /\ clientpool[cidx].destroy

IInv == TypeOK /\ GoodPool(clientpool) /\ Reaping

\* It holds when the event loop starts.
LEMMA InitIInv == Init => IInv
  <1> SUFFICES ASSUME Init PROVE IInv
    OBVIOUS
  <1>1. Listeners \in Seq(Nat) /\ Len(Listeners) \in Nat /\ Len(Listeners) > 0
    BY ListenersAssumption, LenProperties
  <1>2. \A i \in 1..Len(Listeners) : Listeners[i] \in Fd
    <2>1. DOMAIN Listeners = 1..Len(Listeners)
      BY <1>1, LenProperties
    <2> QED
      BY <2>1 DEF Fd, Range
  <1>3. socketpool \in Seq(Sockets)
    <2>1. \A i \in 1..Len(Listeners) : SocketEntry(Listeners[i], LISTEN) \in Sockets
      BY <1>2 DEF SocketEntry, Sockets
    <2> QED
      BY <1>1, <2>1 DEF Init, InitializeSockets
  <1>4. ev \in [fd : Fd, in : BOOLEAN]
    BY <1>1, <1>2 DEF Init
  <1>5. clientpool \in Seq(Clients) /\ Len(clientpool) = 0
    BY EmptySeq DEF Init
  <1>6. disk \in [File -> Seq(Chunks)]
    BY EmptySeq DEF Init
  <1>7. TypeOK
    BY <1>3, <1>4, <1>5, <1>6 DEF Init, AddToMultiplexer, TypeOK, Labels, Sockets
  <1>8. GoodPool(clientpool)
    BY <1>5 DEF GoodPool, Keyed
  <1> QED
    BY <1>7, <1>8 DEF IInv, Reaping, Init

\* A client whose queue SendPackets has emptied, or has freed in part.
LEMMA QueueGood ==
    ASSUME NEW c, Good(c), NEW q \in Seq(OutPackets),
           c.destroy => q # <<>>,
           q # <<>> => c.lastpacket = q[Len(q)]
    PROVE  LET d == [c EXCEPT !.queue = q]
           IN  Good(d) /\ SameOwner(d, c)
  <1> DEFINE d == [c EXCEPT !.queue = q]
  <1>1. /\ d \in Clients /\ d.destroy = c.destroy
        /\ d.currentblockno = c.currentblockno /\ d.actualblockno = c.actualblockno
        /\ d.queue = q /\ d.lastpacket = c.lastpacket
        /\ d.fd = c.fd /\ d.src = c.src /\ d.tid = c.tid /\ d.waiting = c.waiting
        /\ d.f = c.f /\ d.sendingfile = c.sendingfile
    BY DEF Good, Core, Clients
  <1> HIDE DEF d
  <1>2. Core(d)
    BY <1>1 DEF Good, Core, Newest, WithinFile
  <1> QED
    BY <1>1, <1>2 DEF Good, HasFile, SameOwner, d

\* A client of the pool.
LEMMA PoolMember ==
    ASSUME IInv, NEW i \in 1..Len(clientpool)
    PROVE  LET c == clientpool[i]
           IN  Good(c) /\ c \in Clients /\ c.fd \in Fd /\ c.waiting = 0
               /\ c.queue \in Seq(OutPackets)
  BY DEF IInv, GoodPool, Good, Core, Clients

\* Nobody is ever waiting, so CheckClients changes nothing.
LEMMA CheckClientStep ==
    ASSUME IInv, NEW due \in BOOLEAN, CheckClient(due)
    PROVE  IInv'
  <1>1. cidx \in 1..Len(clientpool)
    <2>1. clientpool \in Seq(Clients) /\ Len(clientpool) \in Nat
      BY LenProperties DEF IInv, GoodPool
    <2> QED
      BY <2>1 DEF IInv, TypeOK, CheckClient
  <1>2. clientpool[cidx].waiting = 0
    BY <1>1, PoolMember
  <1>3. UNCHANGED <<clientpool, socketpool, interest, leaked>> /\ cidx' \in Nat \ {0}
    BY <1>2 DEF CheckClient, IInv, TypeOK
  <1> QED
    BY <1>3 DEF IInv, TypeOK, Reaping, CheckClient

\* SendPackets empties a queue, or is about to remove the client.
LEMMA SendClientStep ==
    ASSUME IInv, SendClient
    PROVE  IInv'
  <1> DEFINE c == clientpool[cidx]
             d == [c EXCEPT !.queue = <<>>]
  <1>1. cidx \in 1..Len(clientpool)
    <2>1. clientpool \in Seq(Clients) /\ Len(clientpool) \in Nat
      BY LenProperties DEF IInv, GoodPool
    <2> QED
      BY <2>1 DEF IInv, TypeOK, SendClient
  <1>2. Good(c) /\ c \in Clients /\ c.fd \in Fd
    BY <1>1, PoolMember
  <1>3. alive' \in BOOLEAN /\ UNCHANGED <<socketpool, open, disk, leaked, ev>>
    BY DEF SendClient, SendSurvival, files
  <1>4. CASE c.destroy
    <2>1. UNCHANGED <<clientpool, interest, cidx>> /\ pc' = "reap"
      BY <1>4 DEF SendClient
    <2>2. Reaping'
      BY <1>1, <1>4, <2>1 DEF Reaping
    <2> QED
      BY <1>3, <2>1, <2>2 DEF IInv, TypeOK, GoodPool, Labels
  <1>5. CASE ~c.destroy
    <2>1. /\ clientpool' = [clientpool EXCEPT ![cidx] = d] /\ pc' = "send"
          /\ interest' = [interest EXCEPT ![c.fd] = FALSE] /\ cidx' = cidx + 1
      BY <1>5 DEF SendClient
    <2>2. Good(d) /\ SameOwner(d, c)
      BY <1>2, <1>5, EmptySeq, QueueGood
    <2> HIDE DEF d
    <2>3. GoodPool(clientpool')
      BY <1>1, <2>1, <2>2, PoolUpdate DEF IInv
    <2>4. interest' \in [Fd -> BOOLEAN] /\ cidx' \in Nat \ {0}
      BY <1>2, <2>1 DEF IInv, TypeOK
    <2>5. Reaping'
      BY <2>1 DEF Reaping
    <2> QED
      BY <1>3, <2>1, <2>3, <2>4, <2>5 DEF IInv, TypeOK, GoodPool, Labels
  <1> QED
    BY <1>4, <1>5

\* What remains of blocks is blocks.
LEMMA RemainsType ==
    ASSUME NEW S, NEW s \in Seq(S), NEW t \in Remains(s)
    PROVE  t \in Seq(S)
  <1>1. Len(s) \in Nat /\ \A i \in 1..Len(s) : s[i] \in S
    BY LenProperties, ElementOfSeq
  <1>2. PICK n \in 0..Len(s) : \E g \in [1..n -> 1..Len(s)] : t = [i \in 1..n |-> s[g[i]]]
    BY DEF Remains
  <1>3. PICK g \in [1..n -> 1..Len(s)] : t = [i \in 1..n |-> s[g[i]]]
    BY <1>2
  <1>4. n \in Nat /\ \A i \in 1..n : s[g[i]] \in S
    BY <1>1, <1>3
  <1> QED
    BY <1>3, <1>4

\* Closing a file changes the disk.
LEMMA CloseFileType ==
    ASSUME TypeOK, NEW c \in Clients, CloseFile(c)
    PROVE  disk' \in [File -> Seq(Chunks)]
  <1>1. disk \in [File -> Seq(Chunks)]
    BY DEF TypeOK
  <1>2. CASE c.f.mode = "w"
    <2>1. c.f \in [mode : {"w"}, file : File, written : Seq(Chunks)]
      BY <1>2 DEF Clients, Files, NullFile
    <2>2. PICK t : /\ t \in Remains(c.f.written) \/ t = c.f.written
                   /\ disk' = [disk EXCEPT ![c.f.file] = t]
      BY <1>2 DEF CloseFile
    <2>3. t \in Seq(Chunks)
      BY <2>1, <2>2, RemainsType
    <2> QED
      BY <1>1, <2>2, <2>3
  <1>3. CASE c.f.mode # "w"
    BY <1>1, <1>3 DEF CloseFile
  <1> QED
    BY <1>2, <1>3

\* It closes the client's file and removes the client.
LEMMA ReapClientStep ==
    ASSUME IInv, ReapClient
    PROVE  IInv'
  <1> DEFINE c == clientpool[cidx]
  <1>1. cidx \in 1..Len(clientpool)
    BY DEF IInv, Reaping, ReapClient
  <1>2. Good(c) /\ c \in Clients /\ c.fd \in Fd
    BY <1>1, PoolMember
  <1>3. /\ clientpool' = RemoveAt(clientpool, cidx) /\ ForgetSocket(c.fd, c.src.port)
        /\ interest' = [interest EXCEPT ![c.fd] = FALSE] /\ cidx' = cidx + 1 /\ CloseFile(c)
        /\ pc' = "send" /\ UNCHANGED <<open, leaked, alive, ev>>
    BY DEF ReapClient, RemoveClient
  <1> HIDE DEF c
  <1>4. GoodPool(clientpool')
    BY <1>1, <1>3, PoolRemove DEF IInv
  <1>5. socketpool' \in Seq(Sockets)
    BY <1>3, ForgetSocketType DEF IInv, TypeOK, Sockets
  <1>6. disk' \in [File -> Seq(Chunks)]
    BY <1>2, <1>3, CloseFileType DEF IInv
  <1>7. interest' \in [Fd -> BOOLEAN] /\ cidx' \in Nat \ {0}
    BY <1>2, <1>3 DEF IInv, TypeOK
  <1>8. Reaping'
    BY <1>3 DEF Reaping
  <1> QED
    BY <1>3, <1>4, <1>5, <1>6, <1>7, <1>8 DEF IInv, TypeOK, GoodPool, Labels, Sockets

\* A failed sendto leaves the queue's last packet alone.
LEMMA SendFailStep ==
    ASSUME IInv, NEW k \in Nat, SendFail(k)
    PROVE  IInv'
  <1> DEFINE c == clientpool[cidx]
             q == [i \in 1..Len(c.queue) |-> IF i <= k THEN FreedPacket ELSE c.queue[i]]
             d == [c EXCEPT !.queue = q]
  <1>1. cidx \in 1..Len(clientpool)
    <2>1. clientpool \in Seq(Clients) /\ Len(clientpool) \in Nat
      BY LenProperties DEF IInv, GoodPool
    <2> QED
      BY <2>1 DEF IInv, TypeOK, SendFail
  <1>2. Good(c) /\ c \in Clients /\ c.queue \in Seq(OutPackets)
    BY <1>1, PoolMember
  <1>3. Len(c.queue) \in Nat /\ k < Len(c.queue)
    BY <1>2, LenProperties DEF SendFail
  <1>4. clientpool' = [clientpool EXCEPT ![cidx] = d]
    BY DEF SendFail
  <1> HIDE DEF c
  <1>5. /\ q \in Seq(OutPackets) /\ Len(q) = Len(c.queue)
        /\ q[Len(q)] = c.queue[Len(c.queue)]
    <2>1. \A i \in 1..Len(c.queue) :
             (IF i <= k THEN FreedPacket ELSE c.queue[i]) \in OutPackets
      BY <1>2, ElementOfSeq DEF OutPackets
    <2>2. q \in Seq(OutPackets) /\ Len(q) = Len(c.queue)
      BY <1>3, <2>1
    <2> QED
      BY <1>3, <2>2
  <1> HIDE DEF q
  <1>6. q # <<>> /\ c.queue # <<>>
    BY <1>2, <1>3, <1>5
  <1>7. c.lastpacket = q[Len(q)]
    BY <1>2, <1>5, <1>6 DEF Good, Core, Newest
  <1>8. Good(d) /\ SameOwner(d, c)
    BY <1>2, <1>5, <1>6, <1>7, QueueGood
  <1> HIDE DEF d
  <1>9. GoodPool(clientpool')
    BY <1>1, <1>4, <1>8, PoolUpdate DEF IInv, c
  <1>10. socketpool' \in Seq(Sockets) /\ open' \subseteq Fd /\ interest' \in [Fd -> BOOLEAN]
    BY DestroySocketType DEF IInv, TypeOK, SendFail
  <1>11. alive' \in BOOLEAN
    BY DEF SendFail, SendSurvival
  <1>12. pc' = "check" /\ cidx' = 1 /\ UNCHANGED <<disk, leaked, ev>>
    BY DEF SendFail, Goto, files
  <1> QED
    BY <1>9, <1>10, <1>11, <1>12 DEF IInv, TypeOK, GoodPool, Labels, Sockets, Reaping

\* The client a datagram from src is for, in the pool with that client.
Target(src)   == FindClient(ev.fd, src.port)
PoolFor(src)  == IF Target(src) # 0 THEN clientpool ELSE Append(clientpool, NewClient(ev.fd, src))
IndexFor(src) == IF Target(src) # 0 THEN Target(src) ELSE Len(PoolFor(src))

\* It is the client its key names, or a new one.
LEMMA ReceivePool ==
    ASSUME IInv, NEW src \in Source
    PROVE  GoodPool(PoolFor(src)) /\ IndexFor(src) \in 1..Len(PoolFor(src))
  <1>1. ev.fd \in Fd /\ src.port \in Port
    BY DEF IInv, TypeOK, Source
  <1> DEFINE n == NewClient(ev.fd, src)
  <1>2. GoodPool(clientpool) /\ clientpool \in Seq(Clients) /\ Len(clientpool) \in Nat
    BY LenProperties DEF IInv, GoodPool
  <1>3. CASE Target(src) # 0
    BY <1>1, <1>2, <1>3, FindClientFinds DEF Target, PoolFor, IndexFor
  <1>4. CASE Target(src) = 0
    <2>1. Good(n) /\ n.fd = ev.fd /\ n.src = src /\ n \in Clients
      BY <1>1, NewClientGood DEF Good, Core
    <2>2. src.port # UnmatchablePort =>
             \A j \in 1..Len(clientpool) :
                ~(clientpool[j].fd = ev.fd /\ clientpool[j].src.port = src.port)
      BY <1>1, <1>2, <1>4, FindClientFinds DEF Target
    <2>3. PoolFor(src) = Append(clientpool, n) /\ IndexFor(src) = Len(PoolFor(src))
      BY <1>4 DEF PoolFor, IndexFor
    <2> HIDE DEF n
    <2>4. GoodPool(PoolFor(src))
      BY <1>2, <2>1, <2>2, <2>3, PoolAppend
    <2>5. Len(PoolFor(src)) = Len(clientpool) + 1
      BY <1>2, <2>1, <2>3, AppendProperties
    <2> QED
      BY <1>2, <2>3, <2>4, <2>5
  <1> QED
    BY <1>3, <1>4

\* A datagram goes to that client.
LEMMA ReceiveStep ==
    ASSUME IInv, NEW src \in Source, NEW p \in InPackets, Receive(src, p)
    PROVE  IInv'
  <1> DEFINE i    == Target(src)
             pool == PoolFor(src)
             k    == IndexFor(src)
             c    == pool[k]
             new  == ProcessPacket(c, p)
  <1>1. ev.fd \in Fd /\ src.port \in Port
    BY DEF IInv, TypeOK, Source
  <1>2. GoodPool(pool) /\ k \in 1..Len(pool)
    BY ReceivePool
  <1>3. /\ clientpool' = [pool EXCEPT ![k] = new]
        /\ socketpool' = IF i # 0 THEN socketpool
                         ELSE Append(socketpool, SocketEntry(ev.fd, src.port))
        /\ interest' = [interest EXCEPT ![ev.fd] = @ \/ new.queue # c.queue]
        /\ disk' = IF p.op = "WRQ" /\ AcceptsWrq(p)
                   THEN [disk EXCEPT ![p.file] = <<>>] ELSE disk
        /\ leaked' \in {leaked, leaked + 1}
        /\ alive' \in Survival(c, p)
        /\ pc' = "check" /\ cidx' = 1 /\ UNCHANGED <<open, ev>>
    BY DEF Receive, Goto, SetWritable, Target, PoolFor, IndexFor
  <1> HIDE DEF i, pool, k
  <1>4. Good(c)
    BY <1>2 DEF GoodPool
  <1>5. Good(new) /\ SameOwner(new, c)
    BY <1>4, ProcessPacketGood DEF Follows
  <1> HIDE DEF new
  <1>6. GoodPool(clientpool')
    BY <1>2, <1>3, <1>5, PoolUpdate
  <1>7. socketpool' \in Seq(Sockets)
    <2>1. SocketEntry(ev.fd, src.port) \in Sockets
      BY <1>1 DEF SocketEntry, Sockets
    <2>2. socketpool \in Seq(Sockets)
      BY DEF IInv, TypeOK, Sockets
    <2> QED
      BY <1>3, <2>1, <2>2, AppendProperties
  <1>8. interest' \in [Fd -> BOOLEAN]
    <2>1. interest \in [Fd -> BOOLEAN]
      BY DEF IInv, TypeOK
    <2> DEFINE b == interest[ev.fd] \/ new.queue # c.queue
    <2>2. b \in BOOLEAN /\ interest' = [interest EXCEPT ![ev.fd] = b]
      BY <1>3
    <2> HIDE DEF b
    <2> QED
      BY <2>1, <2>2
  <1>9. disk' \in [File -> Seq(Chunks)]
    <2>1. disk \in [File -> Seq(Chunks)]
      BY DEF IInv, TypeOK
    <2>2. <<>> \in Seq(Chunks)
      OBVIOUS
    <2>3. disk' = disk \/ disk' = [disk EXCEPT ![p.file] = <<>>]
      BY <1>3
    <2> QED
      BY <2>1, <2>2, <2>3
  <1>10. alive' \in BOOLEAN
    BY <1>3, BoundsAssumption DEF Survival
  <1>11. leaked' \in Nat
    BY <1>3 DEF IInv, TypeOK
  <1> QED
    BY <1>3, <1>6, <1>7, <1>8, <1>9, <1>10, <1>11
    DEF IInv, TypeOK, GoodPool, Labels, Sockets, Reaping

\* A step of the event loop, whatever datagram arrives: peers are not confined
\* to the datagrams of Inbound.
Step ==
    \/ Loop
    \/ Failures
    \/ \E src \in Source, p \in InPackets : Receive(src, p)
    \/ Dead

\* The datagrams of Inbound are among them.
LEMMA NextIsStep == Next => Step
  BY InboundAssumption DEF Next, Step

\* Every step of the event loop keeps the invariant.
LEMMA NextIInv == IInv /\ [Step]_vars => IInv'
  <1> SUFFICES ASSUME IInv, [Step]_vars PROVE IInv'
    OBVIOUS
  <1>1. ASSUME NEW due \in BOOLEAN, CheckClient(due) PROVE IInv'
    BY <1>1, CheckClientStep
  <1>2. ASSUME CheckedClients \/ EpollTimeout \/ ReceiveNothing PROVE IInv'
    BY <1>2 DEF CheckedClients, EpollTimeout, ReceiveNothing, Goto, files, IInv, TypeOK, Labels, Reaping
  <1>3. ASSUME SentPackets PROVE IInv'
    BY <1>3 DEF SentPackets, Goto, files, IInv, TypeOK, Labels, Reaping
  <1>4. ASSUME NEW fd \in Fd, NEW out \in BOOLEAN, NEW in \in BOOLEAN, EpollEvent(fd, out, in)
        PROVE  IInv'
    BY <1>4 DEF EpollEvent, Goto, files, IInv, TypeOK, Labels, Reaping
  <1>5. ASSUME SendClient \/ ReapClient PROVE IInv'
    BY <1>5, SendClientStep, ReapClientStep
  <1>6. ASSUME NEW fd \in Fd, EpollError(fd) PROVE IInv'
    <2>1. socketpool' \in Seq(Sockets) /\ open' \subseteq Fd /\ interest' \in [Fd -> BOOLEAN]
      BY <1>6, DestroySocketType DEF EpollError, IInv
    <2>2. pc' = "check" /\ cidx' = 1 /\ UNCHANGED <<clientpool, disk, leaked, alive, ev>>
      BY <1>6 DEF EpollError, Goto, files
    <2> QED
      BY <2>1, <2>2 DEF IInv, TypeOK, Labels, Sockets, Reaping
  <1>7. ASSUME NEW k \in 0..MaxQueue, SendFail(k) PROVE IInv'
    <2>1. k \in Nat
      BY BoundsAssumption
    <2> QED
      BY <1>7, <2>1, SendFailStep
  <1>8. ASSUME ReceiveError PROVE IInv'
    <2>1. socketpool' \in Seq(Sockets) /\ open' \subseteq Fd /\ interest' \in [Fd -> BOOLEAN]
      BY <1>8, DestroySocketType DEF ReceiveError, IInv, TypeOK
    <2>2. pc' = "check" /\ cidx' = 1 /\ UNCHANGED <<clientpool, disk, leaked, alive, ev>>
      BY <1>8 DEF ReceiveError, Goto, files
    <2> QED
      BY <2>1, <2>2 DEF IInv, TypeOK, Labels, Sockets, Reaping
  <1>9. ASSUME NEW src \in Source, NEW p \in InPackets, Receive(src, p) PROVE IInv'
    BY <1>9, ReceiveStep
  <1>10. ASSUME UNCHANGED vars PROVE IInv'
    BY <1>10 DEF vars, IInv, TypeOK, Reaping
  <1> QED
    BY <1>1, <1>2, <1>3, <1>4, <1>5, <1>6, <1>7, <1>8, <1>9, <1>10
    DEF Step, Loop, Failures, Dead

\* Hence it always holds.
LEMMA Invariance == Spec => []IInv
  BY InitIInv, NextIInv, NextIsStep, PTL DEF Spec

-----------------------------------------------------------------------------
(***************************************************************************)
(* What follows for the properties of Server.                              *)
(***************************************************************************)

\* The state of the event loop is well typed, for any datagrams.
THEOREM TypeCorrect == Spec => []TypeOK
  BY Invariance, PTL DEF IInv

\* FindClient is unambiguous: at most one client of the pool has a given
\* descriptor and port, other than port 32768.
THEOREM ClientsKeyed == Spec => []PoolKeyed
  <1>1. IInv => PoolKeyed
    BY DEF IInv, GoodPool, Keyed, PoolKeyed
  <1> QED
    BY <1>1, Invariance, PTL

\* A client that is to be destroyed has a packet that makes SendPackets run.
THEOREM DestroyedAreReaped == Spec => []DestroyHasPacket
  <1>1. IInv => DestroyHasPacket
    BY DEF IInv, GoodPool, Good, Core, DestroyHasPacket
  <1> QED
    BY <1>1, Invariance, PTL

\* A client in a transfer has an open FILE or is about to be destroyed.
THEOREM TransfersHaveFile == Spec => []SendingHasFile
  <1>1. IInv => SendingHasFile
    BY DEF IInv, GoodPool, Good, HasFile, SendingHasFile
  <1> QED
    BY <1>1, Invariance, PTL

\* The wrapping block number and the true count agree modulo 2^16.
THEOREM CountersAgree == Spec => []BlockCounter
  <1>1. IInv => BlockCounter
    BY DEF IInv, GoodPool, Good, Core, BlockCounter
  <1> QED
    BY <1>1, Invariance, PTL

\* The packet kept for retransmission is the newest one queued.
THEOREM ResendsNewest == Spec => []LastIsNewest
  <1>1. IInv => LastIsNewest
    BY DEF IInv, GoodPool, Good, Core, Newest, LastIsNewest
  <1> QED
    BY <1>1, Invariance, PTL

-----------------------------------------------------------------------------
(***************************************************************************)
(* The listener of an open descriptor comes first among its socket_t.      *)
(***************************************************************************)
ListenerFirst(s, fd) ==
    \E i \in 1..Len(s) :
        /\ s[i] = SocketEntry(fd, LISTEN)
        /\ \A j \in 1..Len(s) : s[j].fd = fd => i <= j

LInv == IInv /\ \A fd \in open : ListenerFirst(socketpool, fd)

\* FindSocket then finds it.
LEMMA FirstIsFound ==
    ASSUME socketpool \in Seq(Sockets), NEW fd, ListenerFirst(socketpool, fd)
    PROVE  FindSocket(fd).bind = LISTEN
  <1> DEFINE I == {j \in 1..Len(socketpool) : socketpool[j].fd = fd}
  <1>1. Len(socketpool) \in Nat
    BY LenProperties
  <1>2. PICK i \in 1..Len(socketpool) :
           /\ socketpool[i] = SocketEntry(fd, LISTEN)
           /\ \A j \in 1..Len(socketpool) : socketpool[j].fd = fd => i <= j
    BY DEF ListenerFirst
  <1>3. i \in I /\ \A j \in I : i <= j
    BY <1>2 DEF SocketEntry
  <1>4. Min(I) \in I /\ Min(I) <= i
    BY <1>1, <1>3, LeastPosition
  <1>5. Min(I) = i
    BY <1>1, <1>3, <1>4
  <1> QED
    BY <1>2, <1>5 DEF FindSocket, SocketEntry

\* Other entries may come and go.
LEMMA FirstAfterRemove ==
    ASSUME NEW s \in Seq(Sockets), NEW fd, ListenerFirst(s, fd), NEW k \in 1..Len(s),
           s[k] # SocketEntry(fd, LISTEN)
    PROVE  ListenerFirst(RemoveAt(s, k), fd)
  <1> DEFINE t == RemoveAt(s, k)
             old(j) == IF j < k THEN j ELSE j + 1
  <1>1. Len(s) \in Nat
    BY LenProperties
  <1>2. Len(t) = Len(s) - 1 /\ \A j \in 1..Len(t) : t[j] = s[old(j)]
    BY RemoveAtProperties
  <1>3. PICK i \in 1..Len(s) :
           /\ s[i] = SocketEntry(fd, LISTEN)
           /\ \A j \in 1..Len(s) : s[j].fd = fd => i <= j
    BY DEF ListenerFirst
  <1> DEFINE n == IF i < k THEN i ELSE i - 1
  <1>4. i # k
    BY <1>3
  <1> HIDE DEF t
  <1>5. n \in 1..Len(t) /\ old(n) = i
    BY <1>1, <1>2, <1>4
  <1>6. ASSUME NEW j \in 1..Len(t), t[j].fd = fd PROVE n <= j
    <2>1. old(j) \in 1..Len(s) /\ s[old(j)].fd = fd
      BY <1>1, <1>2, <1>6
    <2>2. i <= old(j)
      BY <1>3, <2>1
    <2> QED
      BY <1>1, <1>2, <1>4, <2>2
  <1>7. t[n] = SocketEntry(fd, LISTEN)
    BY <1>2, <1>3, <1>5
  <1> HIDE DEF n
  <1> QED
    BY <1>5, <1>6, <1>7 DEF ListenerFirst, t

\* New entries go behind it.
LEMMA FirstAfterAppend ==
    ASSUME NEW s \in Seq(Sockets), NEW fd, ListenerFirst(s, fd), NEW e \in Sockets
    PROVE  ListenerFirst(Append(s, e), fd)
  <1> DEFINE t == Append(s, e)
  <1>1. Len(s) \in Nat
    BY LenProperties
  <1>2. Len(t) = Len(s) + 1 /\ \A j \in 1..Len(s) : t[j] = s[j]
    BY AppendProperties
  <1>3. PICK i \in 1..Len(s) :
           /\ s[i] = SocketEntry(fd, LISTEN)
           /\ \A j \in 1..Len(s) : s[j].fd = fd => i <= j
    BY DEF ListenerFirst
  <1> HIDE DEF t
  <1>4. ASSUME NEW j \in 1..Len(t), t[j].fd = fd PROVE i <= j
    BY <1>1, <1>2, <1>3, <1>4
  <1>5. i \in 1..Len(t) /\ t[i] = SocketEntry(fd, LISTEN)
    BY <1>1, <1>2, <1>3
  <1> QED
    BY <1>4, <1>5 DEF ListenerFirst, t

\* Forgetting a socket other than the listener of fd leaves that one first.
LEMMA FirstAfterForget ==
    ASSUME socketpool \in Seq(Sockets), NEW fd, ListenerFirst(socketpool, fd),
           NEW other, NEW bind, other # fd \/ bind # LISTEN, ForgetSocket(other, bind)
    PROVE  ListenerFirst(socketpool', fd)
  <1> DEFINE I == Entries(other, bind)
  <1>1. Len(socketpool) \in Nat
    BY LenProperties
  <1>2. I \subseteq 1..Len(socketpool)
    BY DEF Entries
  <1>3. CASE I = {}
    BY <1>3 DEF ForgetSocket
  <1>4. CASE I # {}
    <2>1. Min(I) \in I
      BY <1>1, <1>2, <1>4, LeastPosition
    <2>2. Min(I) \in 1..Len(socketpool) /\ socketpool[Min(I)] = SocketEntry(other, bind)
      BY <2>1 DEF Entries
    <2>3. SocketEntry(other, bind) # SocketEntry(fd, LISTEN)
      BY DEF SocketEntry
    <2>4. socketpool' = RemoveAt(socketpool, Min(I))
      BY <1>4 DEF ForgetSocket
    <2> HIDE DEF I
    <2> QED
      BY <2>2, <2>3, <2>4, FirstAfterRemove
  <1> QED
    BY <1>3, <1>4

\* The pool starts with one entry per listener.
LEMMA InitLInv == Init => LInv
  <1> SUFFICES ASSUME Init, NEW fd \in Fd PROVE ListenerFirst(socketpool, fd)
    BY InitIInv DEF LInv, Init
  <1>1. /\ Listeners \in Seq(Nat) /\ Len(Listeners) \in Nat
        /\ DOMAIN Listeners = 1..Len(Listeners)
    BY ListenersAssumption, LenProperties
  <1>2. PICK i \in 1..Len(Listeners) : Listeners[i] = fd
    BY <1>1 DEF Fd, Range
  <1>3. /\ Len(socketpool) = Len(Listeners)
        /\ \A j \in 1..Len(Listeners) : socketpool[j] = SocketEntry(Listeners[j], LISTEN)
    BY <1>1 DEF Init, InitializeSockets
  <1>4. ASSUME NEW j \in 1..Len(socketpool), socketpool[j].fd = fd PROVE i <= j
    <2>1. j \in 1..Len(Listeners) /\ socketpool[j] = SocketEntry(Listeners[j], LISTEN)
      BY <1>3
    <2>2. SocketEntry(Listeners[j], LISTEN).fd = Listeners[j]
      BY DEF SocketEntry
    <2>3. Listeners[j] = Listeners[i]
      BY <1>2, <1>4, <2>1, <2>2
    <2> QED
      BY <1>1, <2>1, <2>3, ListenersAssumption
  <1> QED
    BY <1>2, <1>3, <1>4 DEF ListenerFirst

\* No step moves an entry in front of an open listener's.
LEMMA NextLInv == LInv /\ [Step]_vars => LInv'
  <1> SUFFICES ASSUME LInv, [Step]_vars PROVE LInv'
    OBVIOUS
  <1>1. IInv /\ IInv'
    BY NextIInv DEF LInv
  <1>2. socketpool \in Seq(Sockets)
    BY <1>1 DEF IInv, TypeOK, Sockets
  <1>3. SUFFICES ASSUME NEW fd \in open' PROVE ListenerFirst(socketpool', fd)
    BY <1>1 DEF LInv
  <1>4. \/ UNCHANGED <<socketpool, open>>
        \/ ReapClient
        \/ \E due \in BOOLEAN : CheckClient(due)
        \/ \E x \in Fd : DestroySocket(x)
        \/ \E src \in Source, p \in InPackets : Receive(src, p)
    <2>1. ev.fd \in Fd
      BY <1>1 DEF IInv, TypeOK
    <2>2. ASSUME \E k \in 0..MaxQueue : SendFail(k) PROVE DestroySocket(ev.fd)
      BY <2>2 DEF SendFail
    <2>3. ASSUME ReceiveError PROVE DestroySocket(ev.fd)
      BY <2>3 DEF ReceiveError
    <2>4. ASSUME \E x \in Fd : EpollError(x) PROVE \E x \in Fd : DestroySocket(x)
      BY <2>4 DEF EpollError
    <2>5. ASSUME CheckedClients \/ EpollTimeout \/ SendClient \/ SentPackets \/ ReceiveNothing
          PROVE  UNCHANGED <<socketpool, open>>
      BY <2>5 DEF CheckedClients, EpollTimeout, SendClient, SentPackets, ReceiveNothing
    <2>6. ASSUME \E x \in Fd, out, in \in BOOLEAN : EpollEvent(x, out, in)
          PROVE  UNCHANGED <<socketpool, open>>
      BY <2>6 DEF EpollEvent
    <2>7. ASSUME UNCHANGED vars PROVE UNCHANGED <<socketpool, open>>
      BY <2>7 DEF vars
    <2> QED
      BY <2>1, <2>2, <2>3, <2>4, <2>5, <2>6, <2>7 DEF Step, Loop, Failures, Dead
  <1>5. CASE UNCHANGED <<socketpool, open>>
    BY <1>5 DEF LInv
  <1>6. CASE ReapClient \/ \E due \in BOOLEAN : CheckClient(due)
    <2> DEFINE c == clientpool[cidx]
    <2>1. cidx \in 1..Len(clientpool)
      <3>1. clientpool \in Seq(Clients) /\ Len(clientpool) \in Nat
        BY <1>1, LenProperties DEF IInv, GoodPool
      <3> QED
        BY <1>1, <1>6, <3>1 DEF IInv, TypeOK, Reaping, ReapClient, CheckClient
    <2>2. c.src.port # LISTEN
      <3>1. c.src.port \in Port
        BY <1>1, <2>1, PoolMember DEF Clients, Source
      <3> QED
        BY <3>1, PortAssumption DEF LISTEN
    <2>3. open' = open /\ (socketpool' = socketpool \/ ForgetSocket(c.fd, c.src.port))
      <3>1. CASE ReapClient
        BY <3>1 DEF ReapClient, RemoveClient
      <3>2. CASE \E due \in BOOLEAN : CheckClient(due)
        BY <3>2 DEF CheckClient, RemoveClient
      <3> QED
        BY <1>6, <3>1, <3>2
    <2>4. ListenerFirst(socketpool, fd)
      BY <2>3 DEF LInv
    <2> HIDE DEF c
    <2>5. CASE ForgetSocket(c.fd, c.src.port)
      BY <1>2, <2>2, <2>4, <2>5, FirstAfterForget
    <2> QED
      BY <2>3, <2>4, <2>5
  <1>7. ASSUME NEW x \in Fd, DestroySocket(x) PROVE ListenerFirst(socketpool', fd)
    <2>1. fd \in open /\ fd # x /\ ForgetSocket(x, FindSocket(x).bind)
      BY <1>7 DEF DestroySocket, RemoveFromMultiplexer
    <2>2. ListenerFirst(socketpool, fd)
      BY <2>1 DEF LInv
    <2> QED
      BY <1>2, <2>1, <2>2, FirstAfterForget
  <1>8. ASSUME NEW src \in Source, NEW p \in InPackets, Receive(src, p)
        PROVE  ListenerFirst(socketpool', fd)
    <2> DEFINE e == SocketEntry(ev.fd, src.port)
    <2>1. open' = open /\ (socketpool' = socketpool \/ socketpool' = Append(socketpool, e))
      BY <1>8 DEF Receive
    <2>2. e \in Sockets
      BY <1>1 DEF IInv, TypeOK, Source, SocketEntry, Sockets
    <2>3. ListenerFirst(socketpool, fd)
      BY <2>1 DEF LInv
    <2> HIDE DEF e
    <2> QED
      BY <1>2, <2>1, <2>2, <2>3, FirstAfterAppend
  <1> QED
    BY <1>4, <1>5, <1>6, <1>7, <1>8

\* Events on an open descriptor are handled with the listener's socket_t.
THEOREM ListenerIsFound == Spec => []FindsListener
  <1>1. LInv => FindsListener
    BY FirstIsFound DEF LInv, IInv, TypeOK, Sockets, FindsListener
  <1> QED
    BY <1>1, InitLInv, NextLInv, NextIsStep, PTL DEF Spec

-----------------------------------------------------------------------------
(***************************************************************************)
(* The two pools of Server against each other, and the packets in them:    *)
(* every client has its socket_t, and a packet that was freed stays in a   *)
(* queue only after the server has lost a listening socket.                *)
(***************************************************************************)

\* The clients of a descriptor and port, and how the pools compare.
Owned(fd, port) == {c \in Clients : c.fd = fd /\ c.src.port = port}

Agree(cs, ss) ==
    \A fd \in Fd, port \in Port :
        Cardinality(Positions(ss, {SocketEntry(fd, port)})) =
        Cardinality(Positions(cs, Owned(fd, port)))

\* The index sets of Server are such positions.
LEMMA PositionsOf ==
    ASSUME clientpool \in Seq(Clients), NEW fd, NEW bind
    PROVE  /\ Entries(fd, bind) = Positions(socketpool, {SocketEntry(fd, bind)})
           /\ ClientsAt(fd, bind) = Positions(clientpool, Owned(fd, bind))
  <1>1. \A i \in 1..Len(clientpool) : clientpool[i] \in Clients
    BY ElementOfSeq
  <1> QED
    BY <1>1 DEF Entries, ClientsAt, Positions, Owned

\* An event is being served on a descriptor that is open: only the event loop
\* closes descriptors, and then it is done with the event.
ServesOpen == pc \in {"send", "reap", "recv"} => ev.fd \in open

\* The inductive invariant.
PInv ==
    /\ LInv
    /\ ServesOpen
    /\ Agree(clientpool, socketpool)
    /\ open = Fd => \A i \in 1..Len(clientpool) : Fresh(clientpool[i])

-----------------------------------------------------------------------------
\* A client and its socket_t leave together.
LEMMA AgreeRemove ==
    ASSUME PInv, NEW k \in 1..Len(clientpool), RemoveClient(k)
    PROVE  Agree(clientpool', socketpool')
  <1> DEFINE c == clientpool[k]
             e == SocketEntry(c.fd, c.src.port)
             I == Entries(c.fd, c.src.port)
  <1>1. clientpool \in Seq(Clients) /\ socketpool \in Seq(Sockets) /\ Len(socketpool) \in Nat
    BY LenProperties DEF PInv, LInv, IInv, TypeOK, Sockets
  <1>2. c \in Clients /\ c.fd \in Fd /\ c.src.port \in Port
    <2>1. c \in Clients
      BY <1>1, ElementOfSeq
    <2> QED
      BY <2>1 DEF Clients, Source
  <1>3. I # {} /\ I = Positions(socketpool, {e})
    <2>1. Cardinality(Positions(clientpool, Owned(c.fd, c.src.port))) # 0
      BY <1>1, <1>2, PositionsFinite DEF Owned
    <2>2. Cardinality(I) # 0 /\ I = Positions(socketpool, {e})
      BY <1>1, <1>2, <2>1, PositionsOf DEF PInv, Agree
    <2> QED
      BY <2>2, FS_EmptySet
  <1> DEFINE m == Min(I)
  <1>4. m \in 1..Len(socketpool) /\ socketpool[m] = e
    <2>1. I \subseteq 1..Len(socketpool)
      BY DEF Entries
    <2>2. m \in I
      BY <1>1, <1>3, <2>1, LeastPosition
    <2> QED
      BY <2>2 DEF Entries
  <1>5. clientpool' = RemoveAt(clientpool, k) /\ socketpool' = RemoveAt(socketpool, m)
    BY <1>3 DEF RemoveClient, ForgetSocket
  <1> HIDE DEF m, I
  <1> SUFFICES ASSUME NEW fd \in Fd, NEW port \in Port
               PROVE  Cardinality(Positions(socketpool', {SocketEntry(fd, port)})) =
                      Cardinality(Positions(clientpool', Owned(fd, port)))
    BY DEF Agree
  <1> DEFINE E == {SocketEntry(fd, port)}
             O == Owned(fd, port)
  <1>6. Cardinality(Positions(socketpool', E)) =
            Cardinality(Positions(socketpool, E)) - IF socketpool[m] \in E THEN 1 ELSE 0
    BY <1>1, <1>4, <1>5, CountRemove
  <1>7. Cardinality(Positions(clientpool', O)) =
            Cardinality(Positions(clientpool, O)) - IF c \in O THEN 1 ELSE 0
    BY <1>1, <1>5, CountRemove
  <1>8. socketpool[m] \in E <=> c \in O
    BY <1>2, <1>4 DEF Owned, SocketEntry
  <1>9. Cardinality(Positions(socketpool, E)) = Cardinality(Positions(clientpool, O))
    BY DEF PInv, Agree
  <1> QED
    BY <1>6, <1>7, <1>8, <1>9

\* Destroying the socket of an open descriptor takes the listener's entry.
LEMMA AgreeDestroy ==
    ASSUME PInv, NEW x \in open, DestroySocket(x)
    PROVE  Agree(clientpool, socketpool')
  <1> DEFINE I == Entries(x, LISTEN)
             m == Min(I)
  <1>1. socketpool \in Seq(Sockets) /\ Len(socketpool) \in Nat
    BY LenProperties DEF PInv, LInv, IInv, TypeOK, Sockets
  <1>2. FindSocket(x).bind = LISTEN
    BY <1>1, FirstIsFound DEF PInv, LInv
  <1>3. ForgetSocket(x, LISTEN)
    BY <1>2 DEF DestroySocket
  <1>4. CASE I = {}
    BY <1>3, <1>4 DEF ForgetSocket, PInv
  <1>5. CASE I # {}
    <2>1. m \in 1..Len(socketpool) /\ socketpool[m] = SocketEntry(x, LISTEN)
      <3>1. I \subseteq 1..Len(socketpool)
        BY DEF Entries
      <3>2. m \in I
        BY <1>1, <1>5, <3>1, LeastPosition
      <3> QED
        BY <3>2 DEF Entries
    <2>2. socketpool' = RemoveAt(socketpool, m)
      BY <1>3, <1>5 DEF ForgetSocket
    <2> HIDE DEF m, I
    <2> SUFFICES ASSUME NEW fd \in Fd, NEW port \in Port
                 PROVE  Cardinality(Positions(socketpool', {SocketEntry(fd, port)})) =
                        Cardinality(Positions(clientpool, Owned(fd, port)))
      BY DEF Agree
    <2> DEFINE E == {SocketEntry(fd, port)}
    <2>3. socketpool[m] \notin E
      <3>1. port # LISTEN
        BY PortAssumption DEF LISTEN
      <3> QED
        BY <2>1, <3>1 DEF SocketEntry
    <2>4. Cardinality(Positions(socketpool', E)) = Cardinality(Positions(socketpool, E)) - 0
      BY <1>1, <2>1, <2>2, <2>3, CountRemove
    <2>5. Cardinality(Positions(socketpool, E)) \in Nat
      BY <1>1, PositionsFinite
    <2>6. Cardinality(Positions(socketpool, E)) = Cardinality(Positions(clientpool, Owned(fd, port)))
      BY DEF PInv, Agree
    <2> QED
      BY <2>4, <2>5, <2>6
  <1> QED
    BY <1>4, <1>5

\* Updating a client in place leaves its owner alone.
LEMMA AgreeUpdate ==
    ASSUME NEW s \in Seq(Clients), NEW k \in 1..Len(s), NEW d \in Clients, SameOwner(d, s[k]),
           NEW ss, Agree(s, ss)
    PROVE  Agree([s EXCEPT ![k] = d], ss)
  <1> DEFINE t == [s EXCEPT ![k] = d]
  <1>1. Len(t) = Len(s) /\ \A i \in 1..Len(s) : t[i] = IF i = k THEN d ELSE s[i]
    BY ExceptSeq
  <1>2. \A i \in 1..Len(s) : s[i] \in Clients
    BY ElementOfSeq
  <1> HIDE DEF t
  <1>3. ASSUME NEW fd \in Fd, NEW port \in Port
        PROVE  Positions(t, Owned(fd, port)) = Positions(s, Owned(fd, port))
    <2>1. \A i \in 1..Len(s) : t[i] \in Owned(fd, port) <=> s[i] \in Owned(fd, port)
      BY <1>1, <1>2 DEF SameOwner, Owned
    <2> QED
      BY <1>1, <2>1, CountSame
  <1> QED
    BY <1>3 DEF Agree, t

\* A datagram finds its client or brings one, with its socket_t.
LEMMA AgreeReceive ==
    ASSUME PInv, NEW src \in Source, NEW p \in InPackets, Receive(src, p)
    PROVE  Agree(clientpool', socketpool')
  <1> DEFINE pool == PoolFor(src)
             k    == IndexFor(src)
             new  == ProcessPacket(pool[k], p)
             n    == NewClient(ev.fd, src)
             e    == SocketEntry(ev.fd, src.port)
  <1>1. IInv /\ clientpool \in Seq(Clients) /\ socketpool \in Seq(Sockets) /\ Len(clientpool) \in Nat
    BY LenProperties DEF PInv, LInv, IInv, TypeOK, Sockets
  <1>2. ev.fd \in Fd /\ src.port \in Port
    BY <1>1 DEF IInv, TypeOK, Source
  <1>3. GoodPool(pool) /\ k \in 1..Len(pool)
    BY <1>1, ReceivePool
  <1>4. clientpool' = [pool EXCEPT ![k] = new]
    BY DEF Receive, Target, PoolFor, IndexFor
  <1>5. new \in Clients /\ SameOwner(new, pool[k]) /\ pool \in Seq(Clients)
    <2>1. Good(pool[k]) /\ pool \in Seq(Clients)
      BY <1>3 DEF GoodPool
    <2> QED
      BY <2>1, ProcessPacketGood DEF Follows, Good, Core
  <1>6. Agree(pool, socketpool')
    <2>1. CASE Target(src) # 0
      <3>1. pool = clientpool /\ socketpool' = socketpool
        BY <2>1 DEF PoolFor, Receive, Target
      <3> QED
        BY <3>1 DEF PInv
    <2>2. CASE Target(src) = 0
      <3>1. pool = Append(clientpool, n) /\ socketpool' = Append(socketpool, e)
        BY <2>2 DEF PoolFor, Receive, Target
      <3>2. n \in Clients /\ n.fd = ev.fd /\ n.src = src
        BY <1>2, NewClientGood DEF Good, Core
      <3>3. e \in Sockets
        BY <1>2 DEF SocketEntry, Sockets
      <3> HIDE DEF n, pool
      <3> SUFFICES ASSUME NEW fd \in Fd, NEW port \in Port
                   PROVE  Cardinality(Positions(socketpool', {SocketEntry(fd, port)})) =
                          Cardinality(Positions(pool, Owned(fd, port)))
        BY DEF Agree
      <3> DEFINE E == {SocketEntry(fd, port)}
                 O == Owned(fd, port)
      <3>4. Cardinality(Positions(socketpool', E)) =
                Cardinality(Positions(socketpool, E)) + IF e \in E THEN 1 ELSE 0
        BY <1>1, <3>1, <3>3, CountAppend
      <3>5. Cardinality(Positions(pool, O)) =
                Cardinality(Positions(clientpool, O)) + IF n \in O THEN 1 ELSE 0
        BY <1>1, <3>1, <3>2, CountAppend
      <3>6. e \in E <=> n \in O
        BY <3>2 DEF Owned, SocketEntry
      <3>7. Cardinality(Positions(socketpool, E)) = Cardinality(Positions(clientpool, O))
        BY DEF PInv, Agree
      <3> QED
        BY <3>4, <3>5, <3>6, <3>7
    <2> QED
      BY <2>1, <2>2
  <1> HIDE DEF pool, k, new
  <1> QED
    BY <1>3, <1>4, <1>5, <1>6, AgreeUpdate

-----------------------------------------------------------------------------
\* Without failures no freed packet gets into a queue.
LEMMA FreshReceive ==
    ASSUME IInv, \A i \in 1..Len(clientpool) : Fresh(clientpool[i]),
           NEW src \in Source, NEW p \in InPackets, Receive(src, p)
    PROVE  \A i \in 1..Len(clientpool') : Fresh(clientpool'[i])
  <1> DEFINE pool == PoolFor(src)
             k    == IndexFor(src)
             new  == ProcessPacket(pool[k], p)
             n    == NewClient(ev.fd, src)
  <1>1. clientpool \in Seq(Clients) /\ Len(clientpool) \in Nat /\ ev.fd \in Fd
    BY LenProperties DEF IInv, TypeOK
  <1>2. GoodPool(pool) /\ k \in 1..Len(pool)
    BY ReceivePool
  <1>3. clientpool' = [pool EXCEPT ![k] = new]
    BY DEF Receive, Target, PoolFor, IndexFor
  <1>4. \A i \in 1..Len(pool) : Fresh(pool[i])
    <2>1. CASE Target(src) # 0
      BY <2>1 DEF PoolFor
    <2>2. CASE Target(src) = 0
      <3>1. pool = Append(clientpool, n)
        BY <2>2 DEF PoolFor
      <3>2. n \in Clients /\ n.queue = <<>>
        BY <1>1, NewClientGood DEF Good, Core, NewClient
      <3>3. Fresh(n)
        BY <3>2 DEF Fresh
      <3> HIDE DEF n, pool
      <3>4. /\ Len(pool) = Len(clientpool) + 1 /\ pool[Len(clientpool) + 1] = n
            /\ \A i \in 1..Len(clientpool) : pool[i] = clientpool[i]
        BY <1>1, <3>1, <3>2, AppendProperties
      <3>5. \A i \in 1..Len(pool) : i \in 1..Len(clientpool) \/ i = Len(clientpool) + 1
        BY <1>1, <3>4
      <3> QED
        BY <3>3, <3>4, <3>5
    <2> QED
      BY <2>1, <2>2
  <1>5. new \in Clients /\ Fresh(new) /\ pool \in Seq(Clients)
    <2>1. Good(pool[k]) /\ pool \in Seq(Clients)
      BY <1>2 DEF GoodPool
    <2>2. Good(new) /\ Follows(new, pool[k])
      BY <2>1, ProcessPacketGood
    <2> QED
      BY <1>2, <1>4, <2>1, <2>2 DEF Follows, Good, Core
  <1> HIDE DEF pool, k, new
  <1>6. Len(clientpool') = Len(pool)
        /\ \A i \in 1..Len(pool) : clientpool'[i] = IF i = k THEN new ELSE pool[i]
    BY <1>2, <1>3, <1>5, ExceptSeq
  <1> QED
    BY <1>4, <1>5, <1>6

\* Nor does SendPackets put one there.
LEMMA FreshSend ==
    ASSUME IInv, \A i \in 1..Len(clientpool) : Fresh(clientpool[i]), SendClient
    PROVE  \A i \in 1..Len(clientpool') : Fresh(clientpool'[i])
  <1> DEFINE c == clientpool[cidx]
             d == [c EXCEPT !.queue = <<>>]
  <1>1. clientpool \in Seq(Clients) /\ Len(clientpool) \in Nat /\ cidx \in 1..Len(clientpool)
    <2>1. clientpool \in Seq(Clients) /\ Len(clientpool) \in Nat
      BY LenProperties DEF IInv, GoodPool
    <2> QED
      BY <2>1 DEF IInv, TypeOK, SendClient
  <1>2. CASE c.destroy
    BY <1>2 DEF SendClient
  <1>3. CASE ~c.destroy
    <2>1. clientpool' = [clientpool EXCEPT ![cidx] = d]
      BY <1>3 DEF SendClient
    <2>2. c \in Clients
      BY <1>1, ElementOfSeq
    <2>3. d \in Clients /\ d.queue = <<>>
      BY <2>2, EmptySeq DEF Clients
    <2>4. Fresh(d)
      BY <2>3 DEF Fresh
    <2> HIDE DEF d
    <2>5. Len(clientpool') = Len(clientpool)
          /\ \A i \in 1..Len(clientpool) : clientpool'[i] = IF i = cidx THEN d ELSE clientpool[i]
      BY <1>1, <2>1, <2>3, ExceptSeq
    <2> QED
      BY <2>4, <2>5
  <1> QED
    BY <1>2, <1>3

\* Removing a client puts none there either.
LEMMA FreshReap ==
    ASSUME IInv, \A i \in 1..Len(clientpool) : Fresh(clientpool[i]), ReapClient
    PROVE  \A i \in 1..Len(clientpool') : Fresh(clientpool'[i])
  <1>1. clientpool \in Seq(Clients) /\ Len(clientpool) \in Nat /\ cidx \in 1..Len(clientpool)
    BY LenProperties DEF IInv, GoodPool, Reaping, ReapClient
  <1>2. clientpool' = RemoveAt(clientpool, cidx)
    BY DEF ReapClient, RemoveClient
  <1>3. Len(clientpool') = Len(clientpool) - 1
        /\ \A j \in 1..Len(clientpool) - 1 :
              clientpool'[j] = IF j < cidx THEN clientpool[j] ELSE clientpool[j + 1]
    BY <1>1, <1>2, RemoveAtProperties
  <1>4. \A j \in 1..Len(clientpool) - 1 : j \in 1..Len(clientpool) /\ j + 1 \in 1..Len(clientpool)
    BY <1>1
  <1> QED
    BY <1>3, <1>4

-----------------------------------------------------------------------------
\* Nobody is waiting, so CheckClients only moves on.
LEMMA CheckChangesNothing ==
    ASSUME IInv, NEW due \in BOOLEAN, CheckClient(due)
    PROVE  UNCHANGED <<clientpool, socketpool, open>>
  <1>1. cidx \in 1..Len(clientpool)
    <2>1. clientpool \in Seq(Clients) /\ Len(clientpool) \in Nat
      BY LenProperties DEF IInv, GoodPool
    <2> QED
      BY <2>1 DEF IInv, TypeOK, CheckClient
  <1>2. clientpool[cidx].waiting = 0
    BY <1>1, PoolMember
  <1> QED
    BY <1>2 DEF CheckClient

\* The pools agree at first: no client has connected, and no listener's
\* socket_t carries a port.
LEMMA InitPInv == Init => PInv
  <1> SUFFICES ASSUME Init PROVE PInv
    OBVIOUS
  <1>1. LInv /\ clientpool = <<>> /\ pc = "check"
    BY InitLInv DEF Init
  <1>2. socketpool \in Seq(Sockets) /\ Len(socketpool) \in Nat
    BY <1>1, LenProperties DEF LInv, IInv, TypeOK, Sockets
  <1>3. ASSUME NEW fd \in Fd, NEW port \in Port
        PROVE  Positions(socketpool, {SocketEntry(fd, port)}) = {}
    <2>1. port # LISTEN
      BY PortAssumption DEF LISTEN
    <2>2. Len(Listeners) \in Nat
      BY ListenersAssumption, LenProperties
    <2>3. \A i \in 1..Len(socketpool) : socketpool[i] = SocketEntry(Listeners[i], LISTEN)
      BY <2>2 DEF Init, InitializeSockets
    <2>4. ASSUME NEW a, NEW b PROVE SocketEntry(a, b).bind = b
      BY DEF SocketEntry
    <2>5. \A i \in 1..Len(socketpool) : socketpool[i] # SocketEntry(fd, port)
      BY <2>1, <2>3, <2>4
    <2> QED
      BY <2>5 DEF Positions
  <1>4. Agree(clientpool, socketpool)
    BY <1>1, <1>3, CountEmpty, FS_EmptySet DEF Agree
  <1> QED
    BY <1>1, <1>4 DEF PInv, ServesOpen

\* SendPackets after a success.
LEMMA AgreeSend ==
    ASSUME PInv, SendClient
    PROVE  Agree(clientpool', socketpool')
  <1> DEFINE c == clientpool[cidx]
             d == [c EXCEPT !.queue = <<>>]
  <1>1. clientpool \in Seq(Clients) /\ cidx \in 1..Len(clientpool)
    <2>1. clientpool \in Seq(Clients) /\ Len(clientpool) \in Nat
      BY LenProperties DEF PInv, LInv, IInv, GoodPool
    <2> QED
      BY <2>1 DEF PInv, LInv, IInv, TypeOK, SendClient
  <1>2. CASE c.destroy
    BY <1>2 DEF SendClient, PInv
  <1>3. CASE ~c.destroy
    <2>1. clientpool' = [clientpool EXCEPT ![cidx] = d] /\ socketpool' = socketpool
      BY <1>3 DEF SendClient
    <2>2. c \in Clients
      BY <1>1, ElementOfSeq
    <2>3. d \in Clients /\ SameOwner(d, c)
      BY <2>2, EmptySeq DEF Clients, SameOwner
    <2> HIDE DEF d
    <2> QED
      BY <1>1, <2>1, <2>3, AgreeUpdate DEF PInv
  <1> QED
    BY <1>2, <1>3

\* SendPackets after a failure: the queue is freed in part and the event's
\* descriptor goes.
LEMMA AgreeFail ==
    ASSUME PInv, NEW k \in Nat, SendFail(k)
    PROVE  Agree(clientpool', socketpool')
  <1> DEFINE c == clientpool[cidx]
             q == [i \in 1..Len(c.queue) |-> IF i <= k THEN FreedPacket ELSE c.queue[i]]
             d == [c EXCEPT !.queue = q]
  <1>1. clientpool \in Seq(Clients) /\ cidx \in 1..Len(clientpool)
    <2>1. clientpool \in Seq(Clients) /\ Len(clientpool) \in Nat
      BY LenProperties DEF PInv, LInv, IInv, GoodPool
    <2> QED
      BY <2>1 DEF PInv, LInv, IInv, TypeOK, SendFail
  <1>2. c \in Clients /\ c.queue \in Seq(OutPackets)
    BY <1>1, PoolMember DEF PInv, LInv
  <1>3. clientpool' = [clientpool EXCEPT ![cidx] = d]
    BY DEF SendFail
  <1>4. q \in Seq(OutPackets)
    <2>1. \A i \in 1..Len(c.queue) :
             (IF i <= k THEN FreedPacket ELSE c.queue[i]) \in OutPackets
      BY <1>2, ElementOfSeq DEF OutPackets
    <2> QED
      BY <1>2, <2>1, LenProperties
  <1> HIDE DEF q
  <1>5. d \in Clients /\ SameOwner(d, c)
    BY <1>2, <1>4 DEF Clients, SameOwner
  <1> HIDE DEF d
  <1>6. Agree(clientpool, socketpool')
    <2>1. DestroySocket(ev.fd) /\ ev.fd \in open
      BY DEF SendFail, PInv, ServesOpen
    <2> QED
      BY <2>1, AgreeDestroy
  <1> QED
    BY <1>1, <1>3, <1>5, <1>6, AgreeUpdate

\* Every step keeps the invariant.
LEMMA NextPInv == PInv /\ [Step]_vars => PInv'
  <1> SUFFICES ASSUME PInv, [Step]_vars PROVE PInv'
    OBVIOUS
  <1>1. LInv' /\ IInv
    BY NextLInv DEF PInv, LInv
  <1> DEFINE AllFresh == \A i \in 1..Len(clientpool) : Fresh(clientpool[i])
             Rest == ServesOpen /\ Agree(clientpool, socketpool) /\ (open = Fd => AllFresh)
  <1>2. Rest
    BY DEF PInv
  <1>3. SUFFICES Rest'
    BY <1>1, <1>3 DEF PInv
  <1>4. ASSUME UNCHANGED <<clientpool, socketpool, open>>, ServesOpen' PROVE Rest'
    BY <1>2, <1>4 DEF Agree
  <1>5. ASSUME NEW x \in open, DestroySocket(x) PROVE open' # Fd
    <2>1. x \in Fd /\ x \notin open'
      BY <1>1, <1>5 DEF IInv, TypeOK, DestroySocket, RemoveFromMultiplexer
    <2> QED
      BY <2>1
  <1>6. ASSUME NEW due \in BOOLEAN, CheckClient(due) PROVE Rest'
    <2>1. UNCHANGED <<clientpool, socketpool, open>>
      BY <1>1, <1>6, CheckChangesNothing
    <2>2. ServesOpen'
      BY <1>2, <1>6 DEF CheckClient, ServesOpen
    <2> QED
      BY <1>4, <2>1, <2>2
  <1>7. ASSUME CheckedClients \/ EpollTimeout \/ ReceiveNothing PROVE Rest'
    <2>1. UNCHANGED <<clientpool, socketpool, open>> /\ pc' \in {"check", "wait"}
      BY <1>7 DEF CheckedClients, EpollTimeout, ReceiveNothing, Goto
    <2> QED
      BY <1>4, <2>1 DEF ServesOpen
  <1>8. ASSUME SentPackets PROVE Rest'
    <2>1. UNCHANGED <<clientpool, socketpool, open, ev>> /\ pc = "send"
      BY <1>8 DEF SentPackets
    <2> QED
      BY <1>2, <1>4, <2>1 DEF ServesOpen
  <1>9. ASSUME NEW fd \in Fd, NEW out \in BOOLEAN, NEW in \in BOOLEAN, EpollEvent(fd, out, in)
        PROVE  Rest'
    <2>1. UNCHANGED <<clientpool, socketpool, open>> /\ ev'.fd \in open
      BY <1>9 DEF EpollEvent
    <2> QED
      BY <1>4, <2>1 DEF ServesOpen
  <1>10. ASSUME SendClient \/ ReapClient PROVE Rest'
    <2>1. UNCHANGED <<open, ev>> /\ pc \in {"send", "reap"}
      BY <1>10 DEF SendClient, ReapClient
    <2>2. ServesOpen'
      BY <1>2, <2>1 DEF ServesOpen
    <2>3. Agree(clientpool, socketpool)'
      <3>1. CASE SendClient
        BY <3>1, AgreeSend DEF Agree
      <3>2. CASE ReapClient
        BY <1>1, <3>2, AgreeRemove DEF IInv, Reaping, ReapClient, Agree
      <3> QED
        BY <1>10, <3>1, <3>2
    <2>4. open = Fd => AllFresh'
      BY <1>1, <1>2, <1>10, FreshSend, FreshReap
    <2> QED
      BY <2>1, <2>2, <2>3, <2>4
  <1>11. ASSUME NEW fd \in Fd, EpollError(fd) PROVE Rest'
    <2>1. fd \in open /\ DestroySocket(fd) /\ pc' = "check" /\ UNCHANGED clientpool
      BY <1>11 DEF EpollError, Goto
    <2>2. Agree(clientpool, socketpool)'
      BY <2>1, AgreeDestroy DEF Agree
    <2> QED
      BY <1>5, <2>1, <2>2 DEF ServesOpen
  <1>12. ASSUME NEW k \in 0..MaxQueue, SendFail(k) PROVE Rest'
    <2>1. ev.fd \in open /\ DestroySocket(ev.fd) /\ pc' = "check" /\ k \in Nat
      BY <1>2, <1>12, BoundsAssumption DEF SendFail, Goto, ServesOpen
    <2>2. Agree(clientpool, socketpool)'
      BY <1>12, <2>1, AgreeFail DEF Agree
    <2> QED
      BY <1>5, <2>1, <2>2 DEF ServesOpen
  <1>13. ASSUME ReceiveError PROVE Rest'
    <2>1. ev.fd \in open /\ DestroySocket(ev.fd) /\ pc' = "check" /\ UNCHANGED clientpool
      BY <1>2, <1>13 DEF ReceiveError, Goto, ServesOpen
    <2>2. Agree(clientpool, socketpool)'
      BY <2>1, AgreeDestroy DEF Agree
    <2> QED
      BY <1>5, <2>1, <2>2 DEF ServesOpen
  <1>14. ASSUME NEW src \in Source, NEW p \in InPackets, Receive(src, p) PROVE Rest'
    <2>1. UNCHANGED open /\ pc' = "check"
      BY <1>14 DEF Receive, Goto
    <2>2. Agree(clientpool, socketpool)'
      BY <1>14, AgreeReceive DEF Agree
    <2>3. open = Fd => AllFresh'
      BY <1>1, <1>2, <1>14, FreshReceive
    <2> QED
      BY <2>1, <2>2, <2>3 DEF ServesOpen
  <1>15. ASSUME UNCHANGED vars PROVE Rest'
    BY <1>2, <1>4, <1>15 DEF vars, ServesOpen
  <1> QED
    BY <1>6, <1>7, <1>8, <1>9, <1>10, <1>11, <1>12, <1>13, <1>14, <1>15
    DEF Step, Loop, Failures, Dead

\* Hence it always holds.
LEMMA PoolInvariance == Spec => []PInv
  BY InitPInv, NextPInv, NextIsStep, PTL DEF Spec

-----------------------------------------------------------------------------
\* Equal numbers of positions are equal numbers of socket_t and clients.
LEMMA AgreeInvariant ==
    ASSUME PInv
    PROVE  SocketPerClient
  <1>1. clientpool \in Seq(Clients) /\ Agree(clientpool, socketpool)
    BY DEF PInv, LInv, IInv, TypeOK
  <1>2. ASSUME NEW fd \in Fd, NEW port \in Port
        PROVE  Cardinality(Entries(fd, port)) = Cardinality(ClientsAt(fd, port))
    <2>1. /\ Entries(fd, port) = Positions(socketpool, {SocketEntry(fd, port)})
          /\ ClientsAt(fd, port) = Positions(clientpool, Owned(fd, port))
      BY <1>1, PositionsOf
    <2> QED
      BY <1>1, <2>1 DEF Agree
  <1> QED
    BY <1>2 DEF SocketPerClient

\* The pools agree on every descriptor and port: removing sockets by their text
\* and clients by their position never leaves one without the other.
THEOREM PoolsAgree == Spec => []SocketPerClient
  BY AgreeInvariant, PoolInvariance, PTL

\* No queue holds a freed packet while all listening sockets are open.
LEMMA FreedInvariant == PInv => FreedOnlyAfterFailure
  <1>1. ASSUME PInv, open = Fd, NEW i \in 1..Len(clientpool)
        PROVE  FreedPacket \notin Range(clientpool[i].queue)
    <2>1. clientpool[i].queue \in Seq(OutPackets)
      BY <1>1, PoolMember DEF PInv, LInv
    <2>2. DOMAIN clientpool[i].queue = 1..Len(clientpool[i].queue)
      BY <2>1, LenProperties
    <2> QED
      BY <1>1, <2>2 DEF PInv, Fresh, Range
  <1> QED
    BY <1>1 DEF FreedOnlyAfterFailure

\* A freed packet is in a queue only after the server has lost a listening
\* socket, whatever the datagrams and their order.
THEOREM FreedAfterFailure == Spec => []FreedOnlyAfterFailure
  BY FreedInvariant, PoolInvariance, PTL

=============================================================================
