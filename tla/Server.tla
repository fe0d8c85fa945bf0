------------------------------- MODULE Server -------------------------------
(***************************************************************************)
(* The event loop of nbstftp: main's loop, epoll's ProcessSockets, the     *)
(* client and socket pools, SendPackets, ReceivePackets and ProcessPacket. *)
(*                                                                         *)
(* The process is single threaded.  pc says where the loop is:             *)
(*   "check"  in CheckClients, about to look at clientpool[cidx]           *)
(*   "wait"   in epoll_wait                                                *)
(*   "send"   in SendPackets, about to serve clientpool[cidx]              *)
(*   "reap"   in SendPackets, about to forget clientpool[cidx]             *)
(*   "recv"   about to call ReceivePackets                                 *)
(* The two vec_foreach loops over clientpool advance one client a step,    *)
(* because their bodies may remove the client they stand on.               *)
(***************************************************************************)
EXTENDS Packets, FiniteSets, SequencesExt

CONSTANTS
    Listeners,      \* sequence of bound descriptors, in the order of the config
    Addr, Port,     \* addresses and UDP ports datagrams may come from
    Kind,           \* [File -> Kinds]: what the file system answers for a name
    Size,           \* [File -> Nat]: length in bytes of a regular file
    LongName,       \* names that do not fit the ERROR which quotes them
    LongValue,      \* nor do these values of the blksize option
    DiskFaults,     \* may the disk refuse what is written to it?
    Inbound,        \* datagrams peers may send, a subset of InPackets
    Modulus,        \* number of values of uint16_t (65536 in the code)
    StrayRead,      \* does printing an uninitialized pointer leave the process
                    \* alive?  The set of outcomes of the build
    MaxClients, MaxQueue, MaxBlock, MaxLeak     \* bounds of the exploration

Fd == Range(Listeners)
Source == [addr : Addr, port : Port]

\* A name may denote a plain file, a directory, nothing, or a file the
\* daemon's user may not open.
Kinds == {"regular", "directory", "absent", "denied"}

ASSUME ListenersAssumption ==
    /\ Listeners \in Seq(Nat) /\ Len(Listeners) > 0
    /\ \A i, j \in 1..Len(Listeners) : Listeners[i] = Listeners[j] => i = j

ASSUME PortAssumption == \A p \in Port : p \in Nat /\ 0 < p /\ p < 65536

ASSUME FileAssumption ==
    /\ Kind \in [File -> Kinds] /\ Size \in [File -> Nat]
    /\ LongName \subseteq File /\ DiskFaults \in BOOLEAN

\* Only a value that strtol finds out of range is quoted as it came, and it is
\* far outside the bounds of the option.
ASSUME LongValueAssumption ==
    LongValue \subseteq {v \in Int : v < MIN_BLKSIZE \/ v > MAX_BLKSIZE}

ASSUME InboundAssumption == Inbound \subseteq InPackets

ASSUME BoundsAssumption ==
    /\ Modulus \in Nat \ {0, 1}
    /\ StrayRead \in SUBSET BOOLEAN /\ StrayRead # {}
    /\ MaxClients \in Nat /\ MaxQueue \in Nat /\ MaxBlock \in Nat /\ MaxLeak \in Nat

VARIABLES
    clientpool,     \* sequence of client_t
    socketpool,     \* sequence of the socket_t the process knows
    open,           \* descriptors that are open and registered with epoll
    interest,       \* [Fd -> BOOLEAN]: is EPOLLOUT asked for on the descriptor?
    disk,           \* [File -> Seq(Chunks)]: what is on the disk
    leaked,         \* number of open FILEs no client refers to any more
    alive,          \* FALSE once the process has died
    pc, cidx,       \* position in the event loop, see above
    ev              \* the epoll event in hand: [fd, in]

vars == <<clientpool, socketpool, open, interest, disk, leaked, alive, pc, cidx, ev>>

-----------------------------------------------------------------------------
(***************************************************************************)
(* Transfer identifiers.  GetPort narrows the port to a short; AddClient   *)
(* stores its negation in a short; FindClient compares that short with     *)
(* the negation computed in an int.                                        *)
(***************************************************************************)
\* Conversion of n in -32768..65535 to short.
Short(n) == IF n > 32767 THEN n - 65536 ELSE n

GetPort(port) == Short(port)

Tid(port) == Short(-GetPort(port))

\* Mutant: the port compared is not narrowed to a short.
MatchesUnnarrowed(c, fd, port) == c.fd = fd /\ c.tid = -port

\* The comparison of FindClient.
Matches(c, fd, port) == c.fd = fd /\ c.tid = -GetPort(port)

\* Index of the client FindClient returns, 0 for NULL.
FindClient(fd, port) ==
    LET found == {i \in 1..Len(clientpool) : Matches(clientpool[i], fd, port)}
    IN  IF found = {} THEN 0 ELSE Min(found)

-----------------------------------------------------------------------------
(***************************************************************************)
(* Sockets.  A socket_t of the pool is told apart by descriptor and bind   *)
(* text.  The text of a client's entry is made from family and port        *)
(* (GetAddress formats the sockaddr itself), a listener's is its           *)
(* configured address, here LISTEN.                                        *)
(***************************************************************************)
LISTEN == 0
SocketEntry(fd, bind) == [fd |-> fd, bind |-> bind]

\* The first pool entry with that descriptor.
FindSocket(fd) == socketpool[Min({i \in 1..Len(socketpool) : socketpool[i].fd = fd})]

\* DestroySocket without closing: only the first equal pool entry goes.
Entries(fd, bind) == {i \in 1..Len(socketpool) : socketpool[i] = SocketEntry(fd, bind)}

\* Mutant: the bind text is not compared.
ForgetSocketAnyBind(fd, bind) ==
    LET same == {i \in 1..Len(socketpool) : socketpool[i].fd = fd}
    IN  socketpool' = IF same = {} THEN socketpool ELSE RemoveAt(socketpool, Min(same))

\* Mutant: the vector keeps the entry.
ForgetSocketNot(fd, bind) == socketpool' = socketpool

ForgetSocket(fd, bind) ==
    socketpool' = IF Entries(fd, bind) = {} THEN socketpool
                  ELSE RemoveAt(socketpool, Min(Entries(fd, bind)))

\* The descriptor is closed as well.
RemoveFromMultiplexer(fd) ==
    /\ open' = open \ {fd}
    /\ interest' = [interest EXCEPT ![fd] = FALSE]

\* DestroySocket with closefd, of the entry FindSocket gave the event loop.
DestroySocket(fd) ==
    /\ RemoveFromMultiplexer(fd)
    /\ ForgetSocket(fd, FindSocket(fd).bind)

-----------------------------------------------------------------------------
(***************************************************************************)
(* Clients and files.  f is NULL, a file open for reading at byte pos, or  *)
(* one open for writing with what has been written to it.  blk is the      *)
(* allocated size of the block buffer, 0 while it is NULL.                 *)
(***************************************************************************)
NullFile == [mode |-> "null"]
NoPacket == [op |-> "NONE"]
Files == {NullFile} \union [mode : {"r"}, file : File, pos : Nat]
                    \union [mode : {"w"}, file : File, written : Seq(Chunks)]

Clients ==
    [fd : Fd, src : Source, tid : Int,
     currentblockno : 0..Modulus - 1, actualblockno : Nat,
     waiting : Nat, sendingfile : BOOLEAN, destroy : BOOLEAN,
     lastpacket : OutPackets \union {NoPacket}, queue : Seq(OutPackets),
     f : Files, blksize : Nat, blk : Nat]

\* FindOrAllocateClient and AddClient on zeroed memory.
NewClient(fd, src) ==
    [fd |-> fd, src |-> src, tid |-> Tid(src.port),
     currentblockno |-> 0, actualblockno |-> 0,
     waiting |-> 0, sendingfile |-> FALSE, destroy |-> FALSE,
     lastpacket |-> NoPacket, queue |-> <<>>,
     f |-> NullFile, blksize |-> DEFAULT_BLKSIZE, blk |-> 0]

\* The client and its socket entry leave their pools.
RemoveClient(i) ==
    /\ clientpool' = RemoveAt(clientpool, i)
    /\ ForgetSocket(clientpool[i].fd, clientpool[i].src.port)

\* A directory can be fopen'ed for reading; reading from it yields nothing.
Readable(f) == IF Kind[f] = "regular" THEN Size[f] ELSE 0
OpensForRead(f)  == Kind[f] \in {"regular", "directory"}
OpensForWrite(f) == Kind[f] \in {"regular", "absent"}
FileExists(f)    == Kind[f] = "regular"

\* fread of n bytes: the number of bytes it returns; a FILE open for writing
\* yields none.
ReadLen(f, n) ==
    IF f.mode # "r" THEN 0
    ELSE IF f.pos + n <= Readable(f.file) THEN n ELSE Readable(f.file) - f.pos

ReadOff(f) == IF f.mode = "r" THEN f.pos ELSE 0

\* fwrite, which fails on a FILE open for reading.  Its result is not looked
\* at: what of written gets to the disk shows when the FILE is closed.
Write(f, chunk) == IF f.mode = "w" THEN [f EXCEPT !.written = Append(@, chunk)] ELSE f

\* Mutant: the block is read again and again.
AdvanceNot(f, n) == f

\* fread moves on by what it read.
Advance(f, n) == IF f.mode = "r" THEN [f EXCEPT !.pos = @ + n] ELSE f

-----------------------------------------------------------------------------
(***************************************************************************)
(* Building and queueing packets.  QueuePacket also keeps a copy of the    *)
(* packet; it does not set waiting (the assignment is commented out).      *)
(* That it asks for EPOLLOUT on the descriptor is in SetWritable.          *)
(***************************************************************************)
\* Mutant: only the first packet is copied.
QueuePacketFirst(c, p) ==
    [c EXCEPT !.queue = Append(@, p), !.lastpacket = IF @ = NoPacket THEN p ELSE @]

QueuePacket(c, p) == [c EXCEPT !.queue = Append(@, p), !.lastpacket = p]

Acknowledge(c, b) == QueuePacket(c, AckPacket(b))

\* Mutant: the client outlives the error.
ErrorOnly(c, code) == QueuePacket(c, ErrorPacket(code))

\* That the text fits a packet is asserted before: see Aborts.
Error(c, code) == [QueuePacket(c, ErrorPacket(code)) EXCEPT !.destroy = TRUE]

OptionAcknowledge(c, opt, val) == QueuePacket(c, OackPacket(opt, val))

\* fread of n bytes, then SendData of what was read as currentblockno.
SendData(c, n) ==
    LET len == ReadLen(c.f, n)
    IN  QueuePacket([c EXCEPT !.f = Advance(@, len)],
                    DataPacket(c.currentblockno, Chunk(c.f.file, ReadOff(c.f), len)))

\* Mutants: the block number is not a uint16_t; one of the two is forgotten.
NextBlockWide(c) == [c EXCEPT !.currentblockno = @ + 1, !.actualblockno = @ + 1]
NextBlockHalf(c) == [c EXCEPT !.currentblockno = (@ + 1) % Modulus]

NextBlock(c) ==
    [c EXCEPT !.currentblockno = (@ + 1) % Modulus, !.actualblockno = @ + 1]

-----------------------------------------------------------------------------
(***************************************************************************)
(* ProcessPacket: what each opcode does to the client.                     *)
(***************************************************************************)

\* Mutant: the last block does not end the transfer.
OnDataEndless(c, p) ==
    Acknowledge([NextBlock(c) EXCEPT !.f = Write(c.f, p.data)], p.blockno)

\* The block number of the packet is not compared with the expected one.
OnData(c, p) ==
    LET w == [NextBlock(c) EXCEPT !.f = Write(c.f, p.data)]
    IN  [Acknowledge(w, p.blockno) EXCEPT
            !.destroy = @ \/ p.data.len < DEFAULT_BLKSIZE]

\* Mutant: nothing is queued for the client that is to go.
OnErrorSilent(c) == [c EXCEPT !.destroy = TRUE]

OnError(c) == [Acknowledge(c, 1) EXCEPT !.destroy = TRUE]

\* Mutants: the number counts up after the block is sent; a full block ends
\* the transfer.
OnAckSendsFirst(c) ==
    [NextBlock(SendData(c, c.blksize)) EXCEPT
        !.destroy = @ \/ ReadLen(c.f, c.blksize) < c.blksize]
OnAckFullEnds(c) ==
    [SendData(NextBlock(c), c.blksize) EXCEPT
        !.destroy = @ \/ ReadLen(c.f, c.blksize) <= c.blksize]

\* Nor is the block number of an acknowledgement.
OnAck(c) ==
    [SendData(NextBlock(c), c.blksize) EXCEPT
        !.destroy = @ \/ ReadLen(c.f, c.blksize) < c.blksize,
        !.blk = IF @ = 0 THEN c.blksize ELSE @]

AcceptsWrq(p) == p.mode # "mail" /\ OpensForWrite(p.file)

OnWrq(c, p) ==
    IF p.mode = "mail" THEN Error(c, ERROR_ILLEGAL)
    ELSE IF Kind[p.file] = "denied" THEN Error(c, ERROR_NOUSER)
    ELSE IF ~OpensForWrite(p.file) THEN Error(c, ERROR_NOFILE)
    ELSE Acknowledge(
           [c EXCEPT !.f = [mode |-> "w", file |-> p.file, written |-> <<>>],
                     !.currentblockno = 1, !.actualblockno = 1,
                     !.sendingfile = TRUE], 0)

BadBlksize(p) == p.opt = "blksize" /\ (p.val < MIN_BLKSIZE \/ p.val > MAX_BLKSIZE)

\* Mutant: a repeated request does not start over.
NegotiateNoReset(c, p) ==
    IF p.opt # "blksize" THEN c
    ELSE [OptionAcknowledge(c, "blksize", p.val) EXCEPT
             !.sendingfile = TRUE, !.blksize = p.val]

\* A valid blksize option is acknowledged before the file is looked at.
Negotiate(c, p) ==
    IF p.opt # "blksize" THEN c
    ELSE [OptionAcknowledge(c, "blksize", p.val) EXCEPT
             !.sendingfile = TRUE, !.currentblockno = 0, !.actualblockno = 0,
             !.blksize = p.val]

\* A name that FileExists rejects is answered and then still opened.
Looked(c, p) ==
    IF FileExists(p.file) THEN Negotiate(c, p)
    ELSE Error(Negotiate(c, p), ERROR_NOFILE)

AcceptsRrq(p) == p.mode # "mail" /\ ~BadBlksize(p) /\ OpensForRead(p.file)

\* Mutant: the FILE is closed for every option that is acknowledged.
KeepsFileNever(p) == p.opt \notin {"tsize", "blksize"}

\* Is the FILE that an accepted RRQ opened kept in c->f?
KeepsFile(p) == p.opt # "tsize"

OnRrq(c, p) ==
    IF p.mode = "mail" THEN Error(c, ERROR_ILLEGAL)
    ELSE IF BadBlksize(p) THEN Error(c, ERROR_OPTION)
    ELSE IF ~OpensForRead(p.file) THEN Error(Looked(c, p), ERROR_NOFILE)
    ELSE IF ~KeepsFile(p) THEN OptionAcknowledge(Looked(c, p), "tsize", Readable(p.file))
    ELSE LET o == [Looked(c, p) EXCEPT !.f = [mode |-> "r", file |-> p.file, pos |-> 0]]
         IN  IF o.sendingfile THEN o
             ELSE SendData([o EXCEPT !.sendingfile = TRUE, !.currentblockno = 1,
                                     !.actualblockno = 1], DEFAULT_BLKSIZE)

\* Does the text of an ERROR that answers p fail the assertion in Error?  The
\* texts that quote the request are those about a value out of range and a file
\* that does not exist.  (The client that results is then of no interest.)
Aborts(p) ==
    /\ p.op = "RRQ" /\ p.mode # "mail"
    /\ IF BadBlksize(p) THEN p.val \in LongValue
       ELSE ~FileExists(p.file) /\ p.file \in LongName

\* Reading or writing the NULL FILE kills the process, so the client that
\* results is of no interest.
NullAccess(c, p) == p.op \in {"DATA", "ACK"} /\ c.sendingfile /\ c.f.mode = "null"

ProcessPacket(c0, p) ==
    LET c == [c0 EXCEPT !.waiting = 0]
    IN  CASE p.op = "RUNT"  -> c0
          [] p.op = "RRQ"   -> OnRrq(c, p)
          [] p.op = "WRQ"   -> OnWrq(c, p)
          [] p.op = "ERROR" -> OnError(c)
          [] p.op = "DATA"  -> IF c.sendingfile /\ ~NullAccess(c, p) THEN OnData(c, p) ELSE c
          [] p.op = "ACK"   -> IF c.sendingfile /\ ~NullAccess(c, p) THEN OnAck(c) ELSE c

\* Does the packet make the client open a FILE that it keeps?
OpensFile(p) ==
    \/ p.op = "WRQ" /\ AcceptsWrq(p)
    \/ p.op = "RRQ" /\ AcceptsRrq(p) /\ KeepsFile(p)

\* The block buffer is allocated once, for the block size of that moment; a
\* larger block size agreed on later overruns it, with unknown consequences.
Overruns(c, p) ==
    p.op = "ACK" /\ c.sendingfile /\ c.blk # 0 /\ c.blk < c.blksize

\* A request without option is logged with the pointer to the option's value,
\* which is only set when there is one.
PrintsStray(p) == p.op \in {"RRQ", "WRQ"} /\ p.opt = "none"

Survival(c, p) ==
    IF NullAccess(c, p) \/ Aborts(p) THEN {FALSE}
    ELSE IF Overruns(c, p) THEN BOOLEAN
    ELSE IF PrintsStray(p) THEN StrayRead ELSE {TRUE}

\* Sending packets that were freed before frees them again.
SendSurvival(sent) == IF FreedPacket \in Range(sent) THEN BOOLEAN ELSE {TRUE}

-----------------------------------------------------------------------------
\* One entry for every address of the config that could be bound; epoll
\* watches the descriptors for input.
InitializeSockets == [i \in 1..Len(Listeners) |-> SocketEntry(Listeners[i], LISTEN)]
AddToMultiplexer  == [fd \in Fd |-> FALSE]

Init ==
    /\ clientpool = <<>>
    /\ socketpool = InitializeSockets
    /\ open = Fd
    /\ interest = AddToMultiplexer
    /\ disk = [f \in File |-> <<>>]
    /\ leaked = 0
    /\ alive = TRUE
    /\ pc = "check" /\ cidx = 1
    /\ ev = [fd |-> Listeners[1], in |-> FALSE]

files == <<disk, leaked>>

Goto(label) == pc' = label /\ cidx' = 1

(***************************************************************************)
(* One iteration of CheckClients: resend to, or give up on, a client that  *)
(* has been waiting.  due: has nextresend passed?                          *)
(***************************************************************************)
CheckClient(due) ==
    /\ alive /\ pc = "check" /\ cidx <= Len(clientpool)
    /\ cidx' = cidx + 1
    /\ LET c == clientpool[cidx]
       IN  IF c.waiting = 0 \/ ~due
           THEN UNCHANGED <<clientpool, socketpool, interest, leaked>>
           ELSE IF c.waiting >= 3
           THEN /\ RemoveClient(cidx)
                /\ leaked' = IF c.f.mode # "null" THEN leaked + 1 ELSE leaked
                /\ UNCHANGED interest
           ELSE /\ clientpool' = [clientpool EXCEPT
                                     ![cidx].waiting = @ + 1,
                                     ![cidx].queue = Append(@, c.lastpacket)]
                /\ interest' = [interest EXCEPT ![c.fd] = @ \/ c.fd \in open]
                /\ UNCHANGED <<socketpool, leaked>>
    /\ UNCHANGED <<open, disk, alive, pc, ev>>

CheckedClients ==
    /\ alive /\ pc = "check" /\ cidx > Len(clientpool)
    /\ Goto("wait")
    /\ UNCHANGED <<clientpool, socketpool, open, interest, files, alive, ev>>

\* epoll_wait times out, or is interrupted by a signal.
EpollTimeout ==
    /\ alive /\ pc = "wait"
    /\ Goto("check")
    /\ UNCHANGED <<clientpool, socketpool, open, interest, files, alive, ev>>

\* epoll_wait reports fd writable (out), readable (in) or both.
EpollEvent(fd, out, in) ==
    /\ alive /\ pc = "wait"
    /\ fd \in open
    /\ out \/ in
    /\ out => interest[fd]
    /\ ev' = [fd |-> fd, in |-> in]
    /\ Goto(IF out THEN "send" ELSE "recv")
    /\ UNCHANGED <<clientpool, socketpool, open, interest, files, alive>>

\* epoll_wait reports EPOLLHUP or EPOLLERR.
EpollError(fd) ==
    /\ alive /\ pc = "wait" /\ fd \in open
    /\ DestroySocket(fd)
    /\ Goto("check")
    /\ UNCHANGED <<clientpool, files, alive, ev>>

\* What may be left of t on the disk: t itself, or t without the blocks that
\* were refused.
Remains(t) ==
    UNION {{[i \in 1..n |-> t[g[i]]] :
              g \in {h \in [1..n -> 1..Len(t)] : \A i, j \in 1..n : i < j => h[i] < h[j]}} :
           n \in 0..Len(t)}

\* Mutant: the FILE's buffer is dropped.
CloseFileUnflushed(c) == disk' = disk

\* fflush and fclose of a client's FILE, whose results are not looked at.
CloseFile(c) ==
    IF c.f.mode = "w"
    THEN \E t \in IF DiskFaults THEN Remains(c.f.written) ELSE {c.f.written} :
            disk' = [disk EXCEPT ![c.f.file] = t]
    ELSE disk' = disk

(***************************************************************************)
(* One iteration of SendPackets in which every sendto succeeds.  For a     *)
(* client that is not to go, what follows the last sendto touches nothing  *)
(* that others see.  One that is to go keeps its queue, which nobody looks *)
(* at, until the next step.                                                *)
(***************************************************************************)
SendClient ==
    /\ alive /\ pc = "send" /\ cidx <= Len(clientpool)
    /\ LET c == clientpool[cidx]
       IN  /\ c.queue # <<>> => c.fd \in open
           /\ alive' \in SendSurvival(c.queue)
           /\ IF c.destroy
              THEN pc' = "reap" /\ UNCHANGED <<clientpool, interest, cidx>>
              ELSE /\ clientpool' = [clientpool EXCEPT ![cidx].queue = <<>>]
                   /\ interest' = [interest EXCEPT ![c.fd] = FALSE]
                   /\ cidx' = cidx + 1 /\ UNCHANGED pc
    /\ UNCHANGED <<socketpool, open, files, ev>>

\* The client's packets are out, and its peer may have read them, when its FILE
\* is closed and the client removed.  The index advances all the same.
ReapClient ==
    /\ alive /\ pc = "reap"
    /\ pc' = "send" /\ cidx' = cidx + 1
    /\ interest' = [interest EXCEPT ![clientpool[cidx].fd] = FALSE]
    /\ CloseFile(clientpool[cidx])
    /\ RemoveClient(cidx)
    /\ UNCHANGED <<open, leaked, alive, ev>>

\* Mutant: the failure goes unnoticed in the event loop.
SendFailUnnoticed(k) ==
    /\ alive /\ pc = "send" /\ cidx <= Len(clientpool)
    /\ LET c == clientpool[cidx]
       IN  /\ k < Len(c.queue)
           /\ clientpool' = [clientpool EXCEPT ![cidx].queue =
                                [i \in 1..Len(@) |-> IF i <= k THEN FreedPacket ELSE @[i]]]
    /\ Goto("check")
    /\ UNCHANGED <<socketpool, open, interest, files, alive, ev>>

(***************************************************************************)
(* sendto fails after the first k packets of the client went out and were  *)
(* freed: SendPackets returns -1 with the queue as it was, and the event   *)
(* loop closes the descriptor the event was for.  If the same event also   *)
(* says readable, ReceivePackets then works on the freed socket_t.         *)
(***************************************************************************)
SendFail(k) ==
    /\ alive /\ pc = "send" /\ cidx <= Len(clientpool)
    /\ LET c == clientpool[cidx]
       IN  /\ k < Len(c.queue)
           /\ k > 0 => c.fd \in open
           /\ clientpool' = [clientpool EXCEPT ![cidx].queue =
                                [i \in 1..Len(@) |-> IF i <= k THEN FreedPacket ELSE @[i]]]
           /\ alive' \in IF ev.in THEN BOOLEAN ELSE SendSurvival(SubSeq(c.queue, 1, k))
    /\ DestroySocket(ev.fd)
    /\ Goto("check")
    /\ UNCHANGED <<files, ev>>

SentPackets ==
    /\ alive /\ pc = "send" /\ cidx > Len(clientpool)
    /\ Goto(IF ev.in THEN "recv" ELSE "check")
    /\ UNCHANGED <<clientpool, socketpool, open, interest, files, alive, ev>>

\* Mutant: QueuePacket does not ask for EPOLLOUT.
SetWritableNot(fd, queued) == interest' = interest

\* SetSocketStatus at the end of QueuePacket, if a packet was queued.
SetWritable(fd, queued) == interest' = [interest EXCEPT ![fd] = @ \/ queued]

(***************************************************************************)
(* ReceivePackets of datagram p from src: find or allocate the client,     *)
(* process the packet; a packet that was queued asks for EPOLLOUT.         *)
(***************************************************************************)
Receive(src, p) ==
    /\ alive /\ pc = "recv"
    /\ LET i    == FindClient(ev.fd, src.port)
           pool == IF i # 0 THEN clientpool ELSE Append(clientpool, NewClient(ev.fd, src))
           k    == IF i # 0 THEN i ELSE Len(pool)
           c    == pool[k]
           new  == ProcessPacket(c, p)
           lost == OpensFile(p) /\ c.f.mode # "null"
       IN  /\ Len(pool) <= MaxClients
           /\ Len(new.queue) <= MaxQueue
           /\ new.actualblockno <= MaxBlock
           /\ clientpool' = [pool EXCEPT ![k] = new]
           /\ socketpool' = IF i # 0 THEN socketpool
                            ELSE Append(socketpool, SocketEntry(ev.fd, src.port))
           /\ SetWritable(ev.fd, new.queue # c.queue)
           /\ disk' = IF p.op = "WRQ" /\ AcceptsWrq(p)
                      THEN [disk EXCEPT ![p.file] = <<>>] ELSE disk
           /\ leaked' = IF lost THEN leaked + 1 ELSE leaked
           /\ leaked' <= MaxLeak
           /\ alive' \in Survival(c, p)
    /\ Goto("check")
    /\ UNCHANGED <<open, ev>>

\* recvfrom has nothing after all (EAGAIN, EINTR).
ReceiveNothing ==
    /\ alive /\ pc = "recv"
    /\ Goto("check")
    /\ UNCHANGED <<clientpool, socketpool, open, interest, files, alive, ev>>

\* recvfrom fails.
ReceiveError ==
    /\ alive /\ pc = "recv"
    /\ DestroySocket(ev.fd)
    /\ Goto("check")
    /\ UNCHANGED <<clientpool, files, alive, ev>>

\* The process is gone.
Dead == ~alive /\ UNCHANGED vars

Loop ==
    \/ \E due \in BOOLEAN : CheckClient(due)
    \/ CheckedClients
    \/ EpollTimeout
    \/ \E fd \in Fd, out, in \in BOOLEAN : EpollEvent(fd, out, in)
    \/ SendClient
    \/ ReapClient
    \/ SentPackets
    \/ ReceiveNothing

Failures ==
    \/ \E fd \in Fd : EpollError(fd)
    \/ \E k \in 0..MaxQueue : SendFail(k)
    \/ ReceiveError

Next ==
    \/ Loop
    \/ Failures
    \/ \E src \in Source, p \in Inbound : Receive(src, p)
    \/ Dead

Spec == Init /\ [][Next]_vars

-----------------------------------------------------------------------------
(***************************************************************************)
(* Properties, for arbitrary datagrams in arbitrary order.                 *)
(***************************************************************************)
Labels == {"check", "wait", "send", "reap", "recv"}

\* Type invariant of the event loop's state.
TypeOK ==
    /\ clientpool \in Seq(Clients)
    /\ socketpool \in Seq([fd : Fd, bind : Port \union {LISTEN}])
    /\ open \subseteq Fd
    /\ interest \in [Fd -> BOOLEAN]
    /\ disk \in [File -> Seq(Chunks)]
    /\ leaked \in Nat
    /\ alive \in BOOLEAN
    /\ pc \in Labels /\ cidx \in Nat \ {0}
    /\ ev \in [fd : Fd, in : BOOLEAN]

\* The port whose negation does not fit a short: FindClient never finds a
\* client with it.
UnmatchablePort == 32768

\* FindClient is unambiguous: two clients of the pool have the same
\* descriptor and port only if the port is the one that cannot be matched.
PoolKeyed ==
    \A i, j \in 1..Len(clientpool) :
        /\ clientpool[i].fd = clientpool[j].fd
        /\ clientpool[i].src.port = clientpool[j].src.port
        /\ clientpool[i].src.port # UnmatchablePort
        => i = j

\* A client marked for destruction always has a packet queued.  SendPackets
\* is the only place that reaps such clients and it runs only when a queued
\* packet asked for EPOLLOUT, so one without a packet would stay for ever.
DestroyHasPacket ==
    \A i \in 1..Len(clientpool) :
        clientpool[i].destroy => clientpool[i].queue # <<>>

\* A client in a transfer has an open FILE, unless the request failed after
\* its blksize option was accepted and the client is about to be destroyed.
SendingHasFile ==
    \A i \in 1..Len(clientpool) :
        clientpool[i].sendingfile =>
            clientpool[i].f.mode # "null" \/ clientpool[i].destroy

\* The 16 bit block number on the wire is the true one modulo 2^16, over any
\* mix of DATA, ACK and repeated requests.
BlockCounter ==
    \A i \in 1..Len(clientpool) :
        clientpool[i].currentblockno = clientpool[i].actualblockno % Modulus

\* The copy kept for retransmission is of the newest packet queued, also
\* when a failed sendto left freed packets in front of it.
LastIsNewest ==
    \A i \in 1..Len(clientpool) :
        LET c == clientpool[i]
        IN  c.queue # <<>> => c.lastpacket = c.queue[Len(c.queue)]

\* An event on an open descriptor is handled with the listener's socket_t,
\* never with the copy made for some client: the first entry FindSocket meets
\* stays the listener's however clients come and go.
FindsListener ==
    \A fd \in open : FindSocket(fd).bind = LISTEN

ClientsAt(fd, port) ==
    {i \in 1..Len(clientpool) : clientpool[i].fd = fd /\ clientpool[i].src.port = port}

\* The pools agree: as many socket entries as clients for every descriptor
\* and port, although sockets are removed by text and clients by pointer.
SocketPerClient ==
    \A fd \in Fd, port \in Port :
        Cardinality(Entries(fd, port)) = Cardinality(ClientsAt(fd, port))

\* A queue holds a freed packet only after a failed sendto has cost the
\* server one of its listening sockets.
FreedOnlyAfterFailure ==
    (\E i \in 1..Len(clientpool) : FreedPacket \in Range(clientpool[i].queue))
        => open # Fd

\* When SendPackets has gone through the pool no client has a packet left,
\* as the comment on its loop says.
EveryClientServed ==
    pc = "send" /\ cidx > Len(clientpool) =>
        \A i \in 1..Len(clientpool) : clientpool[i].queue = <<>>

=============================================================================
