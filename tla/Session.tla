------------------------------ MODULE Session -------------------------------
(***************************************************************************)
(* The server composed with peers that follow RFC 783 and RFC 2347 and a   *)
(* datagram network.  Each peer makes one request.  Datagrams to a         *)
(* descriptor wait in its socket buffer, in order of arrival; datagrams to *)
(* a peer travel in order.  The network may lose or duplicate MaxLoss and  *)
(* MaxDup of them; a duplicate arrives behind everything sent so far.      *)
(* Sockets do not fail here (Server's Failures do not occur).              *)
(***************************************************************************)
EXTENDS Server

CONSTANTS
    Peers,
    Plan,       \* [Peers -> [fd, src, req, size]]: the request a peer makes and,
                \* for a WRQ, the length of the file it sends
    Casts,      \* sets of peers that may take part together
    MaxLoss, MaxDup, MaxRetry

ASSUME PlanAssumption ==
    /\ \A q \in Peers : /\ Plan[q].fd \in Fd /\ Plan[q].src \in Source
                        /\ Plan[q].req \in Requests /\ Plan[q].size \in Nat
    /\ \A q, r \in Peers : Plan[q].fd = Plan[r].fd /\ Plan[q].src = Plan[r].src => q = r
    /\ Casts \subseteq SUBSET Peers
    /\ MaxLoss \in Nat /\ MaxDup \in Nat /\ MaxRetry \in Nat

VARIABLES
    inbox,      \* [Fd -> Seq([peer, pkt])]: socket buffers
    outbox,     \* [Peers -> Seq(packet)]: datagrams on their way to a peer
    peer,       \* [Peers -> peer state]
    loss, dup   \* faults so far

nvars == <<inbox, outbox, peer, loss, dup>>
svars == <<vars, nvars>>

-----------------------------------------------------------------------------
(***************************************************************************)
(* Peers.  next is the number of the block the peer waits for: the DATA    *)
(* it wants to read, or the ACK of the last DATA it wrote.  last is the    *)
(* packet it repeats when its timer fires.                                 *)
(***************************************************************************)
Reads(q)  == Plan[q].req.op = "RRQ"
Blocksize(q) == IF Reads(q) /\ Plan[q].req.opt = "blksize"
                THEN Plan[q].req.val ELSE DEFAULT_BLKSIZE
FileLen(q) == IF Reads(q) THEN Readable(Plan[q].req.file) ELSE Plan[q].size

\* The n-th block of the file of q's transfer, counting from 1.
FileBlock(q, n) ==
    LET off == (n - 1) * Blocksize(q)
    IN  Chunk(Plan[q].req.file, off,
              IF off + Blocksize(q) <= FileLen(q) THEN Blocksize(q) ELSE FileLen(q) - off)

FinalBlock(q) == FileLen(q) \div Blocksize(q) + 1

SendTo(q, p) == inbox' = [inbox EXCEPT ![Plan[q].fd] = Append(@, [peer |-> q, pkt |-> p])]

PeerSends(q, p, state) ==
    /\ SendTo(q, p)
    /\ peer' = [peer EXCEPT ![q] = [state EXCEPT !.last = p]]

PeerInit(st) == [st |-> st, next |-> 0, got |-> <<>>, last |-> NoPacket, retries |-> 0]

PeerRequest(q) ==
    /\ peer[q].st = "start"
    /\ PeerSends(q, Plan[q].req,
                 [peer[q] EXCEPT !.st = "active", !.next = IF Reads(q) THEN 1 ELSE 0])
    /\ UNCHANGED <<vars, outbox, loss, dup>>

\* The peer takes the next datagram addressed to it.
PeerTakes(q) ==
    /\ outbox[q] # <<>>
    /\ outbox' = [outbox EXCEPT ![q] = Tail(@)]

\* The DATA the peer waits for: keep it, acknowledge it, and stop after a
\* short one.
Wanted(q, p) ==
    \/ Reads(q) /\ p.op = "DATA" /\ p.blockno = peer[q].next % Modulus
    \/ ~Reads(q) /\ p.op = "ACK" /\ p.blockno = peer[q].next % Modulus

PeerReads(q) ==
    /\ Reads(q) /\ peer[q].st = "active" /\ PeerTakes(q)
    /\ LET p == Head(outbox[q])
       IN  /\ Wanted(q, p)
           /\ PeerSends(q, AckPacket(p.blockno),
                 [peer[q] EXCEPT !.next = @ + 1, !.got = Append(@, p.data),
                                 !.st = IF p.data.len < Blocksize(q) THEN "done" ELSE @])
    /\ UNCHANGED <<vars, loss, dup>>

\* The ACK the peer waits for: send the next block, or stop after the last.
PeerWrites(q) ==
    /\ ~Reads(q) /\ peer[q].st = "active" /\ PeerTakes(q)
    /\ Wanted(q, Head(outbox[q]))
    /\ LET n == peer[q].next + 1
       IN  IF n > FinalBlock(q)
           THEN peer' = [peer EXCEPT ![q].st = "done"] /\ UNCHANGED inbox
           ELSE PeerSends(q, DataPacket(n % Modulus, FileBlock(q, n)), [peer[q] EXCEPT !.next = n])
    /\ UNCHANGED <<vars, loss, dup>>

\* An acceptable OACK is confirmed with ACK 0.
PeerConfirms(q) ==
    /\ Reads(q) /\ peer[q].st = "active" /\ PeerTakes(q)
    /\ Head(outbox[q]).op = "OACK" /\ peer[q].next = 1 /\ Plan[q].req.opt # "none"
    /\ PeerSends(q, AckPacket(0), peer[q])
    /\ UNCHANGED <<vars, loss, dup>>

PeerGivesUp(q) ==
    /\ peer[q].st = "active" /\ PeerTakes(q)
    /\ Head(outbox[q]).op = "ERROR"
    /\ peer' = [peer EXCEPT ![q].st = "refused"]
    /\ UNCHANGED <<vars, inbox, loss, dup>>

\* Anything else is a duplicate or comes too late, and is dropped.
PeerIgnores(q) ==
    /\ PeerTakes(q)
    /\ LET p == Head(outbox[q])
       IN  \/ peer[q].st # "active"
           \/ /\ p.op \notin {"OACK", "ERROR"}
              /\ ~Wanted(q, p)
           \/ p.op = "OACK" /\ peer[q].next # 1
    /\ UNCHANGED <<vars, inbox, peer, loss, dup>>

\* The peer's timer, long against a round trip, fires when nothing of the
\* transfer is under way any more: its last packet again.
PeerTimeout(q) ==
    /\ peer[q].st = "active" /\ peer[q].retries < MaxRetry
    /\ outbox[q] = <<>>
    /\ \A i \in DOMAIN inbox[Plan[q].fd] : inbox[Plan[q].fd][i].peer # q
    /\ \A i \in 1..Len(clientpool) :
          clientpool[i].src = Plan[q].src => clientpool[i].queue = <<>>
    /\ SendTo(q, peer[q].last)
    /\ peer' = [peer EXCEPT ![q].retries = @ + 1]
    /\ UNCHANGED <<vars, outbox, loss, dup>>

PeerStep(q) ==
    PeerReads(q) \/ PeerWrites(q) \/ PeerConfirms(q) \/ PeerGivesUp(q) \/ PeerIgnores(q)

-----------------------------------------------------------------------------
(***************************************************************************)
(* The network.                                                            *)
(***************************************************************************)
LoseRequest(fd, i) ==
    /\ loss < MaxLoss /\ loss' = loss + 1
    /\ i \in DOMAIN inbox[fd] /\ inbox' = [inbox EXCEPT ![fd] = RemoveAt(@, i)]
    /\ UNCHANGED <<vars, outbox, peer, dup>>

LoseReply(q, i) ==
    /\ loss < MaxLoss /\ loss' = loss + 1
    /\ i \in DOMAIN outbox[q] /\ outbox' = [outbox EXCEPT ![q] = RemoveAt(@, i)]
    /\ UNCHANGED <<vars, inbox, peer, dup>>

DuplicateRequest(fd, i) ==
    /\ dup < MaxDup /\ dup' = dup + 1
    /\ i \in DOMAIN inbox[fd] /\ inbox' = [inbox EXCEPT ![fd] = Append(@, @[i])]
    /\ UNCHANGED <<vars, outbox, peer, loss>>

DuplicateReply(q, i) ==
    /\ dup < MaxDup /\ dup' = dup + 1
    /\ i \in DOMAIN outbox[q] /\ outbox' = [outbox EXCEPT ![q] = Append(@, @[i])]
    /\ UNCHANGED <<vars, inbox, peer, loss>>

MaxInFlight == MaxQueue + MaxDup + MaxRetry + 1

Network ==
    \/ \E fd \in Fd, i \in 1..MaxInFlight : LoseRequest(fd, i) \/ DuplicateRequest(fd, i)
    \/ \E q \in Peers, i \in 1..MaxInFlight : LoseReply(q, i) \/ DuplicateReply(q, i)

-----------------------------------------------------------------------------
(***************************************************************************)
(* The server's steps, joined to the network.  epoll_wait reports fd       *)
(* readable exactly when its buffer is not empty; it may find the send     *)
(* buffer full and not report it writable; it times out only when it has   *)
(* nothing to report.  A datagram may still be lost (a bad checksum) after *)
(* it was reported; recvfrom then finds nothing.                           *)
(***************************************************************************)
Idle ==
    /\ \/ \E due \in BOOLEAN : CheckClient(due)
       \/ CheckedClients
       \/ SentPackets
       \/ ReceiveNothing /\ inbox[ev.fd] = <<>>
       \/ EpollTimeout /\ \A fd \in open : inbox[fd] = <<>> /\ ~interest[fd]
       \/ \E fd \in Fd, out \in BOOLEAN : EpollEvent(fd, out, inbox[fd] # <<>>)
    /\ UNCHANGED nvars

Deliver ==
    /\ inbox[ev.fd] # <<>>
    /\ Receive(Plan[Head(inbox[ev.fd]).peer].src, Head(inbox[ev.fd]).pkt)
    /\ inbox' = [inbox EXCEPT ![ev.fd] = Tail(@)]
    /\ UNCHANGED <<outbox, peer, loss, dup>>

\* What SendClient sends goes to the address the client was created for.
Transmit ==
    /\ SendClient
    /\ LET c == clientpool[cidx]
       IN  outbox' = [q \in Peers |->
                        IF Plan[q].fd = c.fd /\ Plan[q].src = c.src
                        THEN outbox[q] \o c.queue ELSE outbox[q]]
    /\ UNCHANGED <<inbox, peer, loss, dup>>

\* The peer may answer before.
Reap == ReapClient /\ UNCHANGED nvars

ServerStep == Idle \/ Deliver \/ Transmit \/ Reap

SInit ==
    /\ Init
    /\ inbox = [fd \in Fd |-> <<>>]
    /\ outbox = [q \in Peers |-> <<>>]
    /\ \E cast \in Casts :
          peer = [q \in Peers |-> PeerInit(IF q \in cast THEN "start" ELSE "absent")]
    /\ loss = 0 /\ dup = 0

SNext ==
    \/ ServerStep
    \/ \E q \in Peers : PeerRequest(q) \/ PeerStep(q) \/ PeerTimeout(q)
    \/ Network

SSpec == SInit /\ [][SNext]_svars

(***************************************************************************)
(* The process is scheduled; peers make their request, read what arrives   *)
(* and keep repeating themselves.                                          *)
(***************************************************************************)
Fairness ==
    /\ WF_svars(ServerStep)
    /\ \A q \in Peers : /\ WF_svars(PeerRequest(q))
                        /\ WF_svars(PeerStep(q))
                        /\ WF_svars(PeerTimeout(q))

FairSpec == SSpec /\ Fairness

-----------------------------------------------------------------------------
(***************************************************************************)
(* Properties.                                                             *)
(***************************************************************************)

\* The chunks q's side of the transfer has received: for a reader what it
\* kept; for a writer what the server has written to the FILE it holds for
\* it, or has closed.
ClientOf(q) == {i \in 1..Len(clientpool) :
                   clientpool[i].fd = Plan[q].fd /\ clientpool[i].src = Plan[q].src}
Stored(q) ==
    LET held == {i \in ClientOf(q) : clientpool[i].f.mode = "w"}
    IN  IF held = {} THEN disk[Plan[q].req.file]
        ELSE clientpool[CHOOSE i \in held : TRUE].f.written

Received(q) == IF Reads(q) \/ peer[q].st = "absent" THEN peer[q].got ELSE Stored(q)

\* Those who may take part; whether they all read with a blksize option, from
\* ports of their own; and whether the server can open every file asked for.
Players == UNION Casts
Negotiating ==
    /\ \A q \in Players : Reads(q) /\ Plan[q].req.opt = "blksize"
    /\ \A q, r \in Players :
          Plan[q].fd = Plan[r].fd /\ Plan[q].src.port = Plan[r].src.port => q = r
AllOpen == \A q \in Players : OpensForRead(Plan[q].req.file)

\* Whether the server's answers to all requests fit their packets.
AllFit == \A q \in Players : ~Aborts(Plan[q].req)

\* A network and a disk without faults; and peers that take part together without getting
\* in each other's way: each from a port of its own, which FindClient can match,
\* and nobody asking for the file another one writes.
Reliable == MaxLoss = 0 /\ MaxDup = 0 /\ ~DiskFaults
Separate ==
    \A cast \in Casts : \A q \in cast :
        /\ Plan[q].src.port # UnmatchablePort
        /\ \A r \in cast \ {q} :
              /\ Plan[q].fd = Plan[r].fd => Plan[q].src.port # Plan[r].src.port
              /\ ~Reads(q) => Plan[q].req.file # Plan[r].req.file

\* Type invariant of peers and network.
STypeOK ==
    /\ TypeOK
    /\ \A fd \in Fd : \A i \in DOMAIN inbox[fd] :
          inbox[fd][i].peer \in Peers /\ inbox[fd][i].pkt \in InPackets
    /\ \A q \in Peers : \A i \in DOMAIN outbox[q] : outbox[q][i] \in OutPackets
    /\ \A q \in Peers : /\ peer[q].st \in {"absent", "start", "active", "done", "refused"}
                        /\ peer[q].next \in Nat /\ peer[q].retries \in 0..MaxRetry
    /\ loss \in 0..MaxLoss /\ dup \in 0..MaxDup

\* Whatever a side has received so far is a prefix of the file, block by
\* block: nothing missing, repeated or out of place.
ReceivedInOrder ==
    \A q \in Peers : \A i \in DOMAIN Received(q) : Received(q)[i] = FileBlock(q, i)

\* A DATA packet the server has queued carries the block its number says
\* (modulo 2^16), or nothing at all behind the end of the file.
Labelled(q, p) ==
    p.op = "DATA" =>
        \/ p.data.len = 0
        \/ \E n \in 1..FinalBlock(q) : p.blockno = n % Modulus /\ p.data = FileBlock(q, n)

BlocksLabelled ==
    \A q \in Peers : \A i \in ClientOf(q) :
        \A j \in DOMAIN clientpool[i].queue : Labelled(q, clientpool[i].queue[j])

Acked == {q \in Peers : peer[q].st = "done" /\ ~Reads(q)}
Whole(q, t) == t = [n \in 1..FinalBlock(q) |-> FileBlock(q, n)]

\* When a writer has the last acknowledgement its whole file is on the disk, or
\* its FILE holds all of it and is what SendPackets closes next: the ACK is out
\* before the FILE is closed, but nothing else happens to the FILE in between.
AckedIsSaved ==
    \A q \in Acked :
        \/ Whole(q, disk[Plan[q].req.file])
        \/ /\ pc = "reap" /\ cidx \in ClientOf(q)
           /\ clientpool[cidx].f.mode = "w" /\ clientpool[cidx].f.file = Plan[q].req.file
           /\ Whole(q, clientpool[cidx].f.written)

\* And it gets there: once files were acknowledged to the end, there comes a
\* time when all of them are on the disk.
SavedInTheEnd == Acked # {} ~> \A q \in Acked : Whole(q, disk[Plan[q].req.file])

Over(q) == peer[q].st \in {"absent", "done", "refused"}
Quiet == /\ \A fd \in Fd : inbox[fd] = <<>>
         /\ \A q \in Peers : outbox[q] = <<>>
         /\ \A i \in 1..Len(clientpool) : clientpool[i].queue = <<>>

\* Once all transfers are over and the network is empty, every FILE the
\* server opened has been closed (idle clients may remain in the pool).
FilesReleased ==
    (\A q \in Peers : Over(q)) /\ Quiet =>
        leaked = 0 /\ \A i \in 1..Len(clientpool) : clientpool[i].f.mode = "null"

\* The process survives: no client is driven to use a FILE it does not have
\* or a block buffer that is too small, and no assertion fails.
StaysAlive == alive

\* Every transfer comes to an end.
AllOver == <>(\A q \in Peers : Over(q))

\* Every transfer comes to an end, two at a time as well, provided that
\* SendPackets never passes over a client whose packet it was to send.
AllOverIfServed == []EveryClientServed => AllOver

(***************************************************************************)
(* The server implements Transfer: for a reader at the reader, for a       *)
(* writer at the server's file.                                            *)
(***************************************************************************)
Status(q) ==
    IF peer[q].st \in {"absent", "refused"} THEN peer[q].st
    ELSE LET t == Received(q)
         IN  IF t # <<>> /\ t[Len(t)].len < Blocksize(q) THEN "done" ELSE "active"

\* The bytes received.  Every block but the last counts as a full one: a short
\* one ends the transfer, so Transfer allows no block behind it.
Bytes(q) ==
    LET t == Received(q)
    IN  IF t = <<>> THEN 0 ELSE (Len(t) - 1) * Blocksize(q) + t[Len(t)].len

T == INSTANCE Transfer WITH
        Length <- [q \in Peers |-> FileLen(q)],
        Block  <- [q \in Peers |-> Blocksize(q)],
        have   <- [q \in Peers |-> Bytes(q)],
        status <- [q \in Peers |-> Status(q)]

\* Every behaviour of the composed system is one of Transfer: each step of the
\* server, the peers and the network delivers the next block of one transfer,
\* refuses one that has nothing yet, or cannot be seen.
ImplementsTransfer == T!TSafety

\* A transfer that can go on does, provided that SendPackets never passes over
\* a client whose packet it was to send.
TransferProgress == []EveryClientServed => T!TFairness

=============================================================================
