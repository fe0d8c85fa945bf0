---------------------------- MODULE ClientProofs ----------------------------
(***************************************************************************)
(* What ProcessPacket and the packet builders do to one client, proved for *)
(* every packet, file and block size; used by ServerProofs.                *)
(***************************************************************************)
EXTENDS Server, SeqLemmas

-----------------------------------------------------------------------------
(***************************************************************************)
(* Arithmetic.                                                             *)
(***************************************************************************)

\* FindClient's comparison of transfer identifiers is an exact test for the
\* port, except that no client at all is found for port 32768.
THEOREM TidMatches ==
    ASSUME NEW p \in Nat, 0 < p, p < 65536, NEW q \in Nat, 0 < q, q < 65536
    PROVE  Tid(p) = -GetPort(q) <=> p = q /\ p # UnmatchablePort
  BY DEF Tid, GetPort, Short, UnmatchablePort

\* The quotient does not matter for the remainder.
LEMMA ModUnique ==
    ASSUME NEW a \in Nat, NEW m \in Nat \ {0, 1}, NEW r \in 0..m - 1, NEW q \in Nat,
           a = q * m + r
    PROVE  a % m = r
  BY SMT

\* Counting a wrapped counter up is wrapping the count.
LEMMA ModStep ==
    ASSUME NEW a \in Nat, NEW m \in Nat \ {0, 1}
    PROVE  ((a % m) + 1) % m = (a + 1) % m
  <1> DEFINE q == a \div m
             r == a % m
             s == r + 1
             b == a + 1
  <1>1. q \in Nat /\ r \in 0..m - 1 /\ a = q * m + r
    BY SMT
  <1> HIDE DEF q, r
  <1>2. CASE r + 1 < m
    <2>1. s \in 0..m - 1 /\ b \in Nat /\ s \in Nat /\ b = q * m + s /\ s = 0 * m + s
      BY <1>1, <1>2, SMT
    <2> HIDE DEF s, b
    <2>2. b % m = s
      BY <1>1, <2>1, ModUnique
    <2>3. s % m = s
      BY <2>1, ModUnique
    <2> QED
      BY <2>2, <2>3 DEF r, s, b
  <1>3. CASE r + 1 = m
    <2>1. a + 1 = (q + 1) * m + 0 /\ q + 1 \in Nat
      BY <1>1, <1>3, SMT
    <2>2. (a + 1) % m = 0
      BY <1>1, <2>1, ModUnique, SMT
    <2>3. r + 1 = 1 * m + 0
      BY <1>1, <1>3, SMT
    <2>4. (r + 1) % m = 0
      BY <1>1, <2>3, ModUnique, SMT
    <2> QED
      BY <2>2, <2>4 DEF r
  <1> QED
    BY <1>1, <1>2, <1>3, SMT

-----------------------------------------------------------------------------
(***************************************************************************)
(* One client.  Core is what every intermediate result of a handler keeps; *)
(* a client at rest also satisfies HasFile.                                *)
(***************************************************************************)
Newest(c) == c.queue # <<>> => c.lastpacket = c.queue[Len(c.queue)]

WithinFile(c) == c.f.mode = "r" => c.f.pos <= Readable(c.f.file)

Core(c) ==
    /\ c \in Clients
    /\ c.waiting = 0
    /\ c.tid = Tid(c.src.port)
    /\ c.destroy => c.queue # <<>>
    /\ c.currentblockno = c.actualblockno % Modulus
    /\ Newest(c)
    /\ WithinFile(c)

HasFile(c) == c.sendingfile => c.f.mode # "null" \/ c.destroy

Good(c) == Core(c) /\ HasFile(c)

SameOwner(d, c) == d.fd = c.fd /\ d.src = c.src

\* No packet of the queue has been freed.
Fresh(c) == \A i \in 1..Len(c.queue) : c.queue[i] # FreedPacket

\* What a handler may make of a client: it serves the same peer, and no freed
\* packet gets into its queue.
Follows(d, c) == SameOwner(d, c) /\ (Fresh(c) => Fresh(d))

\* Queueing a packet keeps the client well formed and changes nothing else.
LEMMA QueuePacketCore ==
    ASSUME NEW c, Core(c), NEW p \in OutPackets, p # FreedPacket
    PROVE  LET d == QueuePacket(c, p)
           IN  /\ Core(d) /\ d.queue # <<>> /\ Follows(d, c)
               /\ d.f = c.f /\ d.sendingfile = c.sendingfile /\ d.destroy = c.destroy
               /\ d.blksize = c.blksize /\ d.currentblockno = c.currentblockno
               /\ d.actualblockno = c.actualblockno /\ d.blk = c.blk
  <1> DEFINE d == QueuePacket(c, p)
  <1>1. c \in Clients /\ c.queue \in Seq(OutPackets)
    BY DEF Core, Clients
  <1>2. /\ Append(c.queue, p) \in Seq(OutPackets)
        /\ Append(c.queue, p) # <<>>
        /\ Append(c.queue, p)[Len(Append(c.queue, p))] = p
    BY <1>1, AppendProperties
  <1>a. ASSUME Fresh(c), NEW i \in 1..Len(Append(c.queue, p))
        PROVE  Append(c.queue, p)[i] # FreedPacket
    <2>1. Len(c.queue) \in Nat /\ (i \in 1..Len(c.queue) \/ i = Len(c.queue) + 1)
      BY <1>1, AppendProperties, LenProperties
    <2> QED
      BY <1>1, <1>a, <2>1, AppendProperties DEF Fresh
  <1>3. /\ d \in Clients
        /\ d.queue = Append(c.queue, p) /\ d.lastpacket = p
        /\ d.fd = c.fd /\ d.src = c.src /\ d.tid = c.tid /\ d.waiting = c.waiting
        /\ d.f = c.f /\ d.sendingfile = c.sendingfile /\ d.destroy = c.destroy
        /\ d.blksize = c.blksize /\ d.currentblockno = c.currentblockno
        /\ d.actualblockno = c.actualblockno /\ d.blk = c.blk
    BY <1>1, <1>2 DEF QueuePacket, Clients
  <1> HIDE DEF d
  <1>4. Core(d)
    BY <1>2, <1>3 DEF Core, Newest, WithinFile
  <1> QED
    BY <1>a, <1>2, <1>3, <1>4 DEF d, Follows, SameOwner, Fresh

\* Counting both block numbers up keeps them congruent.
LEMMA NextBlockCore ==
    ASSUME NEW c, Core(c)
    PROVE  LET d == NextBlock(c)
           IN  /\ Core(d) /\ Follows(d, c) /\ d.queue = c.queue
               /\ d.f = c.f /\ d.sendingfile = c.sendingfile /\ d.destroy = c.destroy
               /\ d.blksize = c.blksize /\ d.blk = c.blk
  <1> DEFINE d == NextBlock(c)
             b == (c.currentblockno + 1) % Modulus
             n == c.actualblockno + 1
  <1>1. c \in Clients /\ c.actualblockno \in Nat /\ c.currentblockno \in 0..Modulus - 1
    BY DEF Core, Clients
  <1>2. b = (c.actualblockno + 1) % Modulus
    BY <1>1, BoundsAssumption, ModStep DEF Core
  <1>3. b \in 0..Modulus - 1 /\ n \in Nat
    BY <1>1, <1>2, BoundsAssumption
  <1>a. d = [c EXCEPT !.currentblockno = b, !.actualblockno = n]
    BY DEF NextBlock
  <1> HIDE DEF b, n, d
  <1>4. /\ d \in Clients
        /\ d.currentblockno = b /\ d.actualblockno = n
        /\ d.queue = c.queue /\ d.lastpacket = c.lastpacket
        /\ d.fd = c.fd /\ d.src = c.src /\ d.tid = c.tid /\ d.waiting = c.waiting
        /\ d.f = c.f /\ d.sendingfile = c.sendingfile /\ d.destroy = c.destroy
        /\ d.blksize = c.blksize /\ d.blk = c.blk
    BY <1>1, <1>3, <1>a DEF Clients
  <1>5. Core(d)
    BY <1>1, <1>2, <1>4 DEF Core, Newest, WithinFile, n
  <1> QED
    BY <1>4, <1>5 DEF d, Follows, SameOwner, Fresh

\* A client with a packet queued may be marked for destruction.
LEMMA DestroyCore ==
    ASSUME NEW c, Core(c), c.queue # <<>>, NEW b \in BOOLEAN
    PROVE  LET d == [c EXCEPT !.destroy = b]
           IN  /\ Core(d) /\ Follows(d, c) /\ d.destroy = b /\ d.queue = c.queue
               /\ d.f = c.f /\ d.sendingfile = c.sendingfile
  <1> DEFINE d == [c EXCEPT !.destroy = b]
  <1>1. /\ d \in Clients /\ d.destroy = b
        /\ d.currentblockno = c.currentblockno /\ d.actualblockno = c.actualblockno
        /\ d.queue = c.queue /\ d.lastpacket = c.lastpacket
        /\ d.fd = c.fd /\ d.src = c.src /\ d.tid = c.tid /\ d.waiting = c.waiting
        /\ d.f = c.f /\ d.sendingfile = c.sendingfile
    BY DEF Core, Clients
  <1> HIDE DEF d
  <1>2. Core(d)
    BY <1>1 DEF Core, Newest, WithinFile
  <1> QED
    BY <1>1, <1>2 DEF d, Follows, SameOwner, Fresh

\* Another FILE, positioned within its file.
LEMMA FileCore ==
    ASSUME NEW c, Core(c), NEW h \in Files,
           h.mode = "r" => h.pos <= Readable(h.file)
    PROVE  LET d == [c EXCEPT !.f = h]
           IN  /\ Core(d) /\ Follows(d, c) /\ d.f = h /\ d.queue = c.queue
               /\ d.sendingfile = c.sendingfile /\ d.destroy = c.destroy
               /\ d.currentblockno = c.currentblockno /\ d.blksize = c.blksize
               /\ d.blk = c.blk
  <1> DEFINE d == [c EXCEPT !.f = h]
  <1>1. /\ d \in Clients /\ d.destroy = c.destroy
        /\ d.currentblockno = c.currentblockno /\ d.actualblockno = c.actualblockno
        /\ d.queue = c.queue /\ d.lastpacket = c.lastpacket
        /\ d.fd = c.fd /\ d.src = c.src /\ d.tid = c.tid /\ d.waiting = c.waiting
        /\ d.f = h /\ d.sendingfile = c.sendingfile /\ d.blksize = c.blksize /\ d.blk = c.blk
    BY DEF Core, Clients
  <1> HIDE DEF d
  <1>2. Core(d)
    BY <1>1 DEF Core, Newest, WithinFile
  <1> QED
    BY <1>1, <1>2 DEF d, Follows, SameOwner, Fresh

\* Blocks 0 and 1 do not wrap.
LEMMA SmallMod == 0 % Modulus = 0 /\ 1 % Modulus = 1 /\ 0 \in 0..Modulus - 1 /\ 1 \in 0..Modulus - 1
  <1>1. 0 \in 0..Modulus - 1 /\ 1 \in 0..Modulus - 1 /\ 0 = 0 * Modulus + 0
        /\ 1 = 0 * Modulus + 1 /\ 0 \in Nat /\ 1 \in Nat
    BY BoundsAssumption
  <1>2. 0 % Modulus = 0
    BY <1>1, BoundsAssumption, ModUnique
  <1>3. 1 % Modulus = 1
    BY <1>1, BoundsAssumption, ModUnique
  <1> QED
    BY <1>1, <1>2, <1>3

Started(c, n, b, h) ==
    [c EXCEPT !.f = h, !.sendingfile = TRUE, !.currentblockno = n,
              !.actualblockno = n, !.blksize = b]

\* A transfer that starts, or starts over, at block 0 or 1.
LEMMA StartCore ==
    ASSUME NEW c, Core(c), NEW n \in {0, 1}, NEW b \in Nat, NEW h \in Files,
           h.mode = "r" => h.pos <= Readable(h.file)
    PROVE  LET d == Started(c, n, b, h)
           IN  /\ Core(d) /\ Follows(d, c) /\ d.queue = c.queue /\ d.destroy = c.destroy
               /\ d.f = h /\ d.sendingfile = TRUE
  <1> DEFINE d == Started(c, n, b, h)
  <1>1. n % Modulus = n /\ n \in 0..Modulus - 1 /\ n \in Nat
    BY SmallMod
  <1>2. /\ d \in Clients /\ d.destroy = c.destroy
        /\ d.currentblockno = n /\ d.actualblockno = n
        /\ d.queue = c.queue /\ d.lastpacket = c.lastpacket
        /\ d.fd = c.fd /\ d.src = c.src /\ d.tid = c.tid /\ d.waiting = c.waiting
        /\ d.f = h /\ d.sendingfile = TRUE
    BY <1>1 DEF Core, Clients, Started
  <1> HIDE DEF d
  <1>3. Core(d)
    BY <1>1, <1>2 DEF Core, Newest, WithinFile
  <1> QED
    BY <1>2, <1>3 DEF Follows, SameOwner, Fresh, d

\* What fread returns is within the file, and the FILE moves on by it.
LEMMA ReadWithin ==
    ASSUME NEW f \in Files, f.mode # "null", f.mode = "r" => f.pos <= Readable(f.file),
           NEW n \in Nat
    PROVE  /\ ReadLen(f, n) \in Nat /\ ReadLen(f, n) <= n /\ ReadOff(f) \in Nat
           /\ f.file \in File
           /\ Advance(f, ReadLen(f, n)) \in Files
           /\ Advance(f, ReadLen(f, n)).mode = f.mode
           /\ f.mode = "r" => /\ Advance(f, ReadLen(f, n)).pos
                                   <= Readable(Advance(f, ReadLen(f, n)).file)
                              /\ Readable(f.file) \in Nat
  <1>1. CASE f.mode = "r"
    <2> DEFINE len == ReadLen(f, n)
               g == Advance(f, len)
    <2>1. f \in [mode : {"r"}, file : File, pos : Nat]
      BY <1>1 DEF Files, NullFile
    <2>2. Readable(f.file) \in Nat /\ f.pos \in Nat /\ f.file \in File
      BY <2>1, FileAssumption DEF Readable
    <2>3. len \in Nat /\ len <= n /\ f.pos + len <= Readable(f.file)
      BY <1>1, <2>2 DEF ReadLen
    <2>4. ReadOff(f) \in Nat
      BY <1>1, <2>2 DEF ReadOff
    <2> HIDE DEF len
    <2>5. g = [f EXCEPT !.pos = f.pos + len]
      BY <1>1 DEF Advance
    <2> HIDE DEF g
    <2>6. /\ g \in [mode : {"r"}, file : File, pos : Nat]
          /\ g.mode = f.mode /\ g.file = f.file /\ g.pos = f.pos + len
      BY <2>1, <2>2, <2>3, <2>5
    <2>7. g \in Files
      BY <2>6 DEF Files
    <2> QED
      BY <2>2, <2>3, <2>4, <2>6, <2>7 DEF g, len
  <1>2. CASE f.mode # "r"
    <2>1. f \in [mode : {"w"}, file : File, written : Seq(Chunks)]
      BY <1>2 DEF Files, NullFile
    <2>2. ReadLen(f, n) = 0 /\ ReadOff(f) = 0
      BY <1>2 DEF ReadLen, ReadOff
    <2>3. Advance(f, ReadLen(f, n)) = f
      BY <1>2 DEF Advance
    <2> QED
      BY <1>2, <2>1, <2>2, <2>3
  <1> QED
    BY <1>1, <1>2

\* SendData reads on in the file and queues the block.
LEMMA SendDataCore ==
    ASSUME NEW c, Core(c), c.f.mode # "null", NEW n \in Nat
    PROVE  LET d == SendData(c, n)
           IN  /\ Core(d) /\ Follows(d, c) /\ d.queue # <<>>
               /\ d.f.mode = c.f.mode /\ d.sendingfile = c.sendingfile
               /\ d.destroy = c.destroy /\ d.blk = c.blk
  <1> DEFINE len == ReadLen(c.f, n)
             h == Advance(c.f, len)
             e == [c EXCEPT !.f = h]
             k == Chunk(c.f.file, ReadOff(c.f), len)
             p == DataPacket(c.currentblockno, k)
  <1>1. c \in Clients /\ c.f \in Files /\ c.currentblockno \in 0..Modulus - 1
    BY DEF Core, Clients
  <1>2. c.f.mode = "r" => c.f.pos <= Readable(c.f.file)
    BY DEF Core, WithinFile
  <1>3. /\ len \in Nat /\ ReadOff(c.f) \in Nat /\ c.f.file \in File
        /\ h \in Files /\ h.mode = c.f.mode
        /\ h.mode = "r" => h.pos <= Readable(h.file)
    BY <1>1, <1>2, ReadWithin
  <1>4. k \in Chunks
    BY <1>3 DEF Chunk, Chunks
  <1>5. c.currentblockno \in Nat
    BY <1>1, BoundsAssumption
  <1>6. SendData(c, n) = QueuePacket(e, p)
    BY DEF SendData
  <1> HIDE DEF len, h, k
  <1>7. p \in OutPackets /\ p # FreedPacket
    BY <1>4, <1>5 DEF DataPacket, OutPackets, FreedPacket
  <1> HIDE DEF p
  <1>8. /\ Core(e) /\ Follows(e, c) /\ e.f = h /\ e.sendingfile = c.sendingfile
        /\ e.destroy = c.destroy /\ e.blk = c.blk
    BY <1>3, FileCore
  <1> HIDE DEF e
  <1> DEFINE d == QueuePacket(e, p)
  <1>9. /\ Core(d) /\ Follows(d, e) /\ d.queue # <<>> /\ d.f = e.f
        /\ d.sendingfile = e.sendingfile /\ d.destroy = e.destroy /\ d.blk = e.blk
    BY <1>7, <1>8, QueuePacketCore
  <1> HIDE DEF d
  <1>10. SendData(c, n) = d
    BY <1>6 DEF d
  <1> QED
    BY <1>3, <1>8, <1>9, <1>10 DEF Follows, SameOwner

-----------------------------------------------------------------------------
(***************************************************************************)
(* The handlers of ProcessPacket.                                          *)
(***************************************************************************)

\* Packets built from numbers.
LEMMA SmallPackets ==
    /\ \A b \in Nat : AckPacket(b) \in OutPackets /\ AckPacket(b) # FreedPacket
    /\ \A code \in Nat : ErrorPacket(code) \in OutPackets /\ ErrorPacket(code) # FreedPacket
    /\ \A opt \in Options : \A val :
          OackPacket(opt, val) \in OutPackets /\ OackPacket(opt, val) # FreedPacket
  <1>1. \A b \in Nat : AckPacket(b) \in OutPackets /\ AckPacket(b) # FreedPacket
    BY DEF AckPacket, OutPackets, FreedPacket
  <1>2. \A code \in Nat : ErrorPacket(code) \in OutPackets /\ ErrorPacket(code) # FreedPacket
    BY DEF ErrorPacket, OutPackets, FreedPacket
  <1>3. \A opt \in Options : \A val :
           OackPacket(opt, val) \in OutPackets /\ OackPacket(opt, val) # FreedPacket
    <2>1. <<>> \in Seq(Nat)
      OBVIOUS
    <2> QED
      BY <2>1 DEF OackPacket, OutPackets, FreedPacket
  <1> QED
    BY <1>1, <1>2, <1>3

\* An ACK in the queue.
LEMMA AcknowledgeCore ==
    ASSUME NEW c, Core(c), NEW b \in Nat
    PROVE  LET d == Acknowledge(c, b)
           IN  /\ Core(d) /\ Follows(d, c) /\ d.queue # <<>> /\ d.f = c.f
               /\ d.sendingfile = c.sendingfile /\ d.destroy = c.destroy
  BY SmallPackets, QueuePacketCore DEF Acknowledge

\* An OACK in the queue.
LEMMA OptionAcknowledgeCore ==
    ASSUME NEW c, Core(c), NEW opt \in Options, NEW val
    PROVE  LET d == OptionAcknowledge(c, opt, val)
           IN  /\ Core(d) /\ Follows(d, c) /\ d.queue # <<>> /\ d.f = c.f
               /\ d.sendingfile = c.sendingfile /\ d.destroy = c.destroy
  BY SmallPackets, QueuePacketCore DEF OptionAcknowledge

\* An ERROR in the queue of a client that is to go.
LEMMA ErrorCore ==
    ASSUME NEW c, Core(c), NEW code \in Nat
    PROVE  LET d == Error(c, code)
           IN  Core(d) /\ HasFile(d) /\ Follows(d, c) /\ d.destroy = TRUE /\ d.f = c.f
  <1> DEFINE e == QueuePacket(c, ErrorPacket(code))
             d == [e EXCEPT !.destroy = TRUE]
  <1>1. Core(e) /\ Follows(e, c) /\ e.queue # <<>> /\ e.f = c.f
    BY SmallPackets, QueuePacketCore
  <1> HIDE DEF e
  <1>2. Core(d) /\ Follows(d, e) /\ d.destroy = TRUE /\ d.f = e.f
    BY <1>1, DestroyCore
  <1>3. Error(c, code) = d
    BY DEF Error, e
  <1> HIDE DEF d
  <1> QED
    BY <1>1, <1>2, <1>3 DEF Follows, SameOwner, HasFile

\* An ERROR from the peer.
LEMMA OnErrorGood ==
    ASSUME NEW c, Good(c)
    PROVE  Good(OnError(c)) /\ Follows(OnError(c), c)
  <1> DEFINE e == Acknowledge(c, 1)
             d == [e EXCEPT !.destroy = TRUE]
  <1>1. Core(e) /\ Follows(e, c) /\ e.queue # <<>>
    BY AcknowledgeCore DEF Good
  <1> HIDE DEF e
  <1>2. Core(d) /\ Follows(d, e) /\ d.destroy = TRUE
    BY <1>1, DestroyCore
  <1>3. OnError(c) = d
    BY DEF OnError, e
  <1> HIDE DEF d
  <1> QED
    BY <1>1, <1>2, <1>3 DEF Follows, SameOwner, Good, HasFile

\* A DATA packet in a transfer.
LEMMA OnDataGood ==
    ASSUME NEW c, Good(c), c.sendingfile, c.f.mode # "null",
           NEW p \in [op : {"DATA"}, blockno : Nat, data : Chunks]
    PROVE  Good(OnData(c, p)) /\ Follows(OnData(c, p), c)
  <1> DEFINE n == NextBlock(c)
             h == Write(c.f, p.data)
             w == [n EXCEPT !.f = h]
             a == Acknowledge(w, p.blockno)
             b == a.destroy \/ p.data.len < DEFAULT_BLKSIZE
             d == [a EXCEPT !.destroy = b]
  <1>1. p.blockno \in Nat /\ p.data \in Chunks
    OBVIOUS
  <1>2. Core(n) /\ Follows(n, c) /\ n.f = c.f
    BY NextBlockCore DEF Good
  <1> HIDE DEF n
  <1>3. c.f \in Files
    BY DEF Good, Core, Clients
  <1>4. c.f.mode = "r" => c.f.pos <= Readable(c.f.file)
    BY DEF Good, Core, WithinFile
  <1>5. h \in Files /\ h.mode # "null" /\ (h.mode = "r" => h.pos <= Readable(h.file))
    <2>1. CASE c.f.mode = "w"
      <3>1. c.f \in [mode : {"w"}, file : File, written : Seq(Chunks)]
        BY <1>3, <2>1 DEF Files, NullFile
      <3>2. Append(c.f.written, p.data) \in Seq(Chunks)
        BY <1>1, <3>1, AppendProperties
      <3>3. h = [c.f EXCEPT !.written = Append(c.f.written, p.data)]
        BY <2>1 DEF Write
      <3> HIDE DEF h
      <3>4. h \in [mode : {"w"}, file : File, written : Seq(Chunks)]
        BY <3>1, <3>2, <3>3
      <3> QED
        BY <3>4 DEF Files
    <2>2. CASE c.f.mode # "w"
      BY <1>3, <1>4, <2>2 DEF Write
    <2> QED
      BY <2>1, <2>2
  <1> HIDE DEF h
  <1>6. Core(w) /\ Follows(w, n) /\ w.f = h
    BY <1>2, <1>5, FileCore
  <1>7. w = [NextBlock(c) EXCEPT !.f = Write(c.f, p.data)]
    BY DEF n, h
  <1> HIDE DEF w
  <1>8. Core(a) /\ Follows(a, w) /\ a.queue # <<>> /\ a.f = w.f
    BY <1>1, <1>6, AcknowledgeCore
  <1>9. b \in BOOLEAN
    BY <1>8 DEF Core, Clients
  <1>10. OnData(c, p) = d
    BY <1>7 DEF OnData
  <1> HIDE DEF a, b
  <1>11. Core(d) /\ Follows(d, a) /\ d.f = a.f
    BY <1>8, <1>9, DestroyCore
  <1> HIDE DEF d
  <1> QED
    BY <1>2, <1>5, <1>6, <1>8, <1>10, <1>11 DEF Follows, SameOwner, Good, HasFile

\* An ACK packet in a transfer.
LEMMA OnAckGood ==
    ASSUME NEW c, Good(c), c.sendingfile, c.f.mode # "null"
    PROVE  Good(OnAck(c)) /\ Follows(OnAck(c), c)
  <1> DEFINE n == NextBlock(c)
             s == SendData(n, c.blksize)
             b == s.destroy \/ ReadLen(c.f, c.blksize) < c.blksize
             k == IF s.blk = 0 THEN c.blksize ELSE s.blk
             e == [s EXCEPT !.destroy = b]
             d == [s EXCEPT !.destroy = b, !.blk = k]
  <1>1. c.blksize \in Nat
    BY DEF Good, Core, Clients
  <1>2. Core(n) /\ Follows(n, c) /\ n.f = c.f
    BY NextBlockCore DEF Good
  <1> HIDE DEF n
  <1>3. Core(s) /\ Follows(s, n) /\ s.f.mode = c.f.mode /\ s.queue # <<>>
    BY <1>1, <1>2, SendDataCore
  <1>4. b \in BOOLEAN /\ k \in Nat /\ s \in Clients
    BY <1>1, <1>3 DEF Core, Clients
  <1>5. OnAck(c) = d
    BY DEF OnAck, n
  <1> HIDE DEF s, b, k
  <1>6. Core(e) /\ Follows(e, s) /\ e.f = s.f
    BY <1>3, <1>4, DestroyCore
  <1>7. /\ d \in Clients /\ d.destroy = e.destroy
        /\ d.currentblockno = e.currentblockno /\ d.actualblockno = e.actualblockno
        /\ d.queue = e.queue /\ d.lastpacket = e.lastpacket
        /\ d.fd = e.fd /\ d.src = e.src /\ d.tid = e.tid /\ d.waiting = e.waiting
        /\ d.f = e.f
    BY <1>4 DEF Clients
  <1> HIDE DEF d, e
  <1>8. Core(d)
    BY <1>6, <1>7 DEF Core, Newest, WithinFile
  <1> QED
    BY <1>2, <1>3, <1>5, <1>6, <1>7, <1>8 DEF Follows, SameOwner, Fresh, Good, HasFile

\* A write request.
LEMMA OnWrqGood ==
    ASSUME NEW c, Good(c), NEW p \in Requests
    PROVE  Good(OnWrq(c, p)) /\ Follows(OnWrq(c, p), c)
  <1> DEFINE h == [mode |-> "w", file |-> p.file, written |-> <<>>]
             s == [c EXCEPT !.f = h, !.currentblockno = 1, !.actualblockno = 1,
                            !.sendingfile = TRUE]
             d == Acknowledge(s, 0)
  <1>1. h \in Files /\ h.mode = "w"
    BY EmptySeq DEF Requests, Files
  <1>2. c \in Clients /\ c.blksize \in Nat
    BY DEF Good, Core, Clients
  <1> HIDE DEF h
  <1>3. s = Started(c, 1, c.blksize, h)
    BY <1>2 DEF Clients, Started
  <1> HIDE DEF s
  <1>4. Core(s) /\ Follows(s, c) /\ s.f = h
    <2>1. Core(c) /\ 1 \in {0, 1} /\ (h.mode = "r" => h.pos <= Readable(h.file))
      BY <1>1 DEF Good
    <2> QED
      BY <1>1, <1>2, <1>3, <2>1, StartCore
  <1>5. Core(d) /\ Follows(d, s) /\ d.f = s.f
    BY <1>4, AcknowledgeCore
  <1> HIDE DEF d
  <1>6. Good(d) /\ Follows(d, c)
    BY <1>1, <1>4, <1>5 DEF Follows, SameOwner, Good, HasFile
  <1>7. \A code \in Nat : Good(Error(c, code)) /\ Follows(Error(c, code), c)
    BY ErrorCore DEF Good
  <1>8. \/ OnWrq(c, p) = d
        \/ \E code \in Nat : OnWrq(c, p) = Error(c, code)
    BY DEF OnWrq, d, s, h, ERROR_ILLEGAL, ERROR_NOUSER, ERROR_NOFILE
  <1> QED
    BY <1>6, <1>7, <1>8

\* Negotiating a block size and looking for the file keep the client well
\* formed; without a blksize option they do not touch the transfer.
LEMMA LookedCore ==
    ASSUME NEW c, Good(c), NEW p \in Requests, ~BadBlksize(p)
    PROVE  LET d == Looked(c, p)
           IN  /\ Core(d) /\ Follows(d, c)
               /\ p.opt # "blksize" => HasFile(d)
  <1> DEFINE n == Negotiate(c, p)
             d == Looked(c, p)
  <1>1. Core(n) /\ Follows(n, c) /\ (p.opt # "blksize" => n = c)
    <2>1. CASE p.opt # "blksize"
      BY <2>1 DEF Negotiate, Good, Follows, SameOwner
    <2>2. CASE p.opt = "blksize"
      <3> DEFINE a == OptionAcknowledge(c, "blksize", p.val)
                 s == [a EXCEPT !.sendingfile = TRUE, !.currentblockno = 0,
                                !.actualblockno = 0, !.blksize = p.val]
      <3>1. p.val \in Nat
        <4>1. p.val \in Int /\ ~(p.val < MIN_BLKSIZE)
          BY <2>2 DEF Requests, BadBlksize
        <4> QED
          BY <4>1 DEF MIN_BLKSIZE
      <3>2. Core(a) /\ Follows(a, c)
        BY OptionAcknowledgeCore DEF Good, Options
      <3>3. n = s
        BY <2>2 DEF Negotiate
      <3> HIDE DEF a, n
      <3>4. a \in Clients /\ a.f \in Files /\ (a.f.mode = "r" => a.f.pos <= Readable(a.f.file))
        BY <3>2 DEF Core, Clients, WithinFile
      <3>5. s = Started(a, 0, p.val, a.f)
        BY <3>4 DEF Clients, Started
      <3> HIDE DEF s
      <3>6. Core(s) /\ Follows(s, a)
        BY <3>1, <3>2, <3>4, <3>5, StartCore
      <3> QED
        BY <2>2, <3>2, <3>3, <3>6 DEF Follows, SameOwner
    <2> QED
      BY <2>1, <2>2
  <1>2. d = n \/ d = Error(n, ERROR_NOFILE)
    BY DEF Looked
  <1> HIDE DEF n, d
  <1>3. CASE d = n
    BY <1>1, <1>3 DEF Good, d
  <1>4. CASE d = Error(n, ERROR_NOFILE)
    <2>1. ERROR_NOFILE \in Nat
      BY DEF ERROR_NOFILE
    <2>2. Core(d) /\ HasFile(d) /\ Follows(d, n)
      BY <1>1, <1>4, <2>1, ErrorCore
    <2> QED
      BY <1>1, <2>2 DEF Follows, SameOwner, d
  <1> QED
    BY <1>2, <1>3, <1>4

\* A read request.
LEMMA OnRrqGood ==
    ASSUME NEW c, Good(c), NEW p \in Requests
    PROVE  Good(OnRrq(c, p)) /\ Follows(OnRrq(c, p), c)
  <1> DEFINE l == Looked(c, p)
             r == OnRrq(c, p)
             h == [mode |-> "r", file |-> p.file, pos |-> 0]
             o == [l EXCEPT !.f = h]
             t == [o EXCEPT !.sendingfile = TRUE, !.currentblockno = 1, !.actualblockno = 1]
  <1>1. \A x, code : Core(x) /\ code \in Nat => Good(Error(x, code)) /\ Follows(Error(x, code), x)
    BY ErrorCore DEF Good
  <1>2. CASE p.mode = "mail" \/ BadBlksize(p)
    <2>1. r = Error(c, ERROR_ILLEGAL) \/ r = Error(c, ERROR_OPTION)
      BY <1>2 DEF OnRrq
    <2>2. ERROR_ILLEGAL \in Nat /\ ERROR_OPTION \in Nat
      BY DEF ERROR_ILLEGAL, ERROR_OPTION
    <2>3. Core(c)
      BY DEF Good
    <2> HIDE DEF r
    <2> QED
      BY <1>1, <2>1, <2>2, <2>3 DEF r
  <1>3. CASE ~(p.mode = "mail" \/ BadBlksize(p))
    <2>1. Core(l) /\ Follows(l, c) /\ (p.opt # "blksize" => HasFile(l))
      BY <1>3, LookedCore
    <2>2. CASE ~OpensForRead(p.file)
      <3>1. r = Error(l, ERROR_NOFILE)
        BY <1>3, <2>2 DEF OnRrq
      <3>2. ERROR_NOFILE \in Nat
        BY DEF ERROR_NOFILE
      <3> HIDE DEF l, r
      <3>3. Good(r) /\ Follows(r, l)
        BY <1>1, <2>1, <3>1, <3>2
      <3> QED
        BY <2>1, <3>3 DEF Follows, SameOwner, r
    <2>3. CASE OpensForRead(p.file) /\ ~KeepsFile(p)
      <3>1. r = OptionAcknowledge(l, "tsize", Readable(p.file))
        BY <1>3, <2>3 DEF OnRrq
      <3> HIDE DEF l, r
      <3>2. /\ Core(r) /\ Follows(r, l) /\ r.f = l.f
            /\ r.sendingfile = l.sendingfile /\ r.destroy = l.destroy
        BY <2>1, <3>1, OptionAcknowledgeCore DEF Options
      <3>3. HasFile(l)
        BY <2>1, <2>3 DEF KeepsFile
      <3> QED
        BY <2>1, <3>2, <3>3 DEF Follows, SameOwner, Good, HasFile, r
    <2>4. CASE OpensForRead(p.file) /\ KeepsFile(p)
      <3>1. r = IF o.sendingfile THEN o ELSE SendData(t, DEFAULT_BLKSIZE)
        BY <1>3, <2>4 DEF OnRrq
      <3>2. h \in Files /\ h.mode = "r" /\ h.pos <= Readable(h.file)
        <4>1. p.file \in File
          BY DEF Requests
        <4>2. Readable(p.file) \in Nat
          BY <4>1, FileAssumption DEF Readable
        <4> QED
          BY <4>1, <4>2 DEF Files
      <3> HIDE DEF l, r, h
      <3>3. Core(o) /\ Follows(o, l) /\ o.f = h
        BY <2>1, <3>2, FileCore
      <3> HIDE DEF o
      <3>4. o \in Clients /\ o.blksize \in Nat
        BY <3>3 DEF Core, Clients
      <3>5. t = Started(o, 1, o.blksize, h)
        BY <3>3, <3>4 DEF Clients, Started
      <3> HIDE DEF t
      <3>6. Core(t) /\ Follows(t, o) /\ t.f = h
        BY <3>2, <3>3, <3>4, <3>5, StartCore
      <3> DEFINE s == SendData(t, DEFAULT_BLKSIZE)
      <3>7. Core(s) /\ Follows(s, t) /\ s.f.mode = "r"
        BY <3>2, <3>6, SendDataCore DEF DEFAULT_BLKSIZE
      <3> HIDE DEF s
      <3>8. Good(s) /\ Follows(s, l)
        BY <3>3, <3>6, <3>7 DEF Good, HasFile, Follows, SameOwner
      <3>9. Good(o)
        BY <3>2, <3>3 DEF Good, HasFile
      <3>10. r = o \/ r = s
        BY <3>1 DEF s
      <3>11. Good(r) /\ Follows(r, l)
        BY <3>3, <3>8, <3>9, <3>10
      <3> QED
        BY <2>1, <3>11 DEF Follows, SameOwner, r
    <2> QED
      BY <2>2, <2>3, <2>4
  <1> QED
    BY <1>2, <1>3

\* ProcessPacket keeps every client well formed, whatever arrives.
LEMMA ProcessPacketGood ==
    ASSUME NEW c, Good(c), NEW p \in InPackets
    PROVE  Good(ProcessPacket(c, p)) /\ Follows(ProcessPacket(c, p), c)
  <1> DEFINE z == [c EXCEPT !.waiting = 0]
  <1>1. z = c
    BY DEF Good, Core, Clients
  <1>2. /\ p \in Requests => p.op \in {"RRQ", "WRQ"}
        /\ p.op = "DATA" => p \in [op : {"DATA"}, blockno : Nat, data : Chunks]
        /\ p.op \in {"RRQ", "WRQ"} => p \in Requests
        /\ p.op \in {"RRQ", "WRQ", "DATA", "ACK", "ERROR", "RUNT"}
    BY DEF InPackets, Requests
  <1>3. CASE p.op \in {"RUNT", "RRQ", "WRQ", "ERROR"}
    <2>1. \/ ProcessPacket(c, p) = c
          \/ p \in Requests /\ ProcessPacket(c, p) = OnRrq(c, p)
          \/ p \in Requests /\ ProcessPacket(c, p) = OnWrq(c, p)
          \/ ProcessPacket(c, p) = OnError(c)
      BY <1>1, <1>2, <1>3 DEF ProcessPacket
    <2>2. Follows(c, c)
      BY DEF Follows, SameOwner
    <2> QED
      BY <2>1, <2>2, OnRrqGood, OnWrqGood, OnErrorGood
  <1>4. CASE p.op \in {"DATA", "ACK"}
    <2>1. \/ ProcessPacket(c, p) = c
          \/ /\ c.sendingfile /\ c.f.mode # "null"
             /\ \/ p.op = "DATA" /\ ProcessPacket(c, p) = OnData(c, p)
                \/ ProcessPacket(c, p) = OnAck(c)
      BY <1>1, <1>2, <1>4 DEF ProcessPacket, NullAccess
    <2>2. Follows(c, c)
      BY DEF Follows, SameOwner
    <2> QED
      BY <1>2, <2>1, <2>2, OnDataGood, OnAckGood
  <1> QED
    BY <1>2, <1>3, <1>4

=============================================================================
