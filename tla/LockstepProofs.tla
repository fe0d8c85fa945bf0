--------------------------- MODULE LockstepProofs ---------------------------
(***************************************************************************)
(* On a network without faults, peers that do not get in each other's way  *)
(* (Reliable and Separate) and the server move in lock step: every         *)
(* transfer is in one of a few phases, each of which has at most one       *)
(* packet of it on its way.  That is the invariant of this module.         *)
(*                                                                         *)
(* SendPackets closes the FILE of a client only after its last packet went *)
(* out.  The phases take the client for gone and the FILE for closed as    *)
(* soon as the packet is out (Pool and Disk), which peers cannot tell from *)
(* the truth: nothing else happens to client and FILE in between.          *)
(***************************************************************************)
EXTENDS SessionProofs

-----------------------------------------------------------------------------
(***************************************************************************)
(* What belongs to the transfer of q: its mail to the server, the client   *)
(* that serves it.  A phase is a predicate of q's state s, its mail m, its *)
(* clients C, the packets o on their way to it and what is on disk, d.     *)
(***************************************************************************)
From(box, q) == {box[i].pkt : i \in {j \in 1..Len(box) : box[j].peer = q}}
Mail(q) == From(inbox[Plan[q].fd], q)

Owns(q, c) == c.fd = Plan[q].fd /\ c.src = Plan[q].src
Of(pool, q) == {pool[i] : i \in {j \in 1..Len(pool) : Owns(q, pool[j])}}

\* The pool without the client that SendPackets is about to forget, and the disk
\* once its FILE is closed.
Pool == IF pc = "reap" THEN RemoveAt(clientpool, cidx) ELSE clientpool
Disk ==
    IF pc = "reap" /\ clientpool[cidx].f.mode = "w"
    THEN [disk EXCEPT ![clientpool[cidx].f.file] = clientpool[cidx].f.written]
    ELSE disk
Mine(q) == Of(Pool, q)

\* Requests the server grants, and those it answers with the first block.
Proper(q) ==
    LET r == Plan[q].req
    IN  /\ r.mode # "mail"
        /\ IF Reads(q) THEN FileExists(r.file) /\ ~BadBlksize(r) /\ r.opt # "tsize"
                       ELSE OpensForWrite(r.file)
Plain(q) == Reads(q) /\ Plan[q].req.opt # "blksize"

\* Block k begins within the file; the file ends within block k; the server
\* forgets the client when it has sent or acknowledged block k (a first block
\* sent in answer to the request does not count).
Begins(q, k) == (k - 1) * Blocksize(q) <= FileLen(q)
Ends(q, k)   == FileLen(q) < k * Blocksize(q)
Stops(q, k)  == Ends(q, k) /\ ~(k = 1 /\ Plain(q))

Blocks(q, t, k) == Len(t) = k /\ \A i \in 1..k : t[i] = FileBlock(q, i)

\* The packets of round k.
ServerPacket(q, k) ==
    IF ~Reads(q) THEN AckPacket(k % Modulus)
    ELSE IF k = 0 THEN OackPacket("blksize", Plan[q].req.val)
    ELSE DataPacket(k % Modulus, FileBlock(q, k))
PeerPacket(q, k) ==
    IF Reads(q) THEN AckPacket(k % Modulus)
    ELSE DataPacket((k + 1) % Modulus, FileBlock(q, k + 1))

\* The client after k blocks.
Holding(q, k, c) ==
    /\ c.sendingfile
    /\ IF Reads(q)
       THEN /\ c.actualblockno = k /\ c.blksize = Blocksize(q) /\ c.blk \in {0, Blocksize(q)}
            /\ c.f = ReadingAt(q, k)
       ELSE c.f.mode = "w" /\ c.f.file = Plan[q].req.file /\ Blocks(q, c.f.written, k)

\* The peer waits for the server's packet of round k; it has answered it.
First(q) == IF Reads(q) THEN 1 ELSE 0
Waits(q, k, s) ==
    /\ s.st = "active" /\ s.next = (IF Reads(q) /\ k = 0 THEN 1 ELSE k)
    /\ Reads(q) => Blocks(q, s.got, IF k = 0 THEN 0 ELSE k - 1)
Answered(q, k, s) ==
    /\ s.st = "active" /\ s.next = k + 1
    /\ Reads(q) => Blocks(q, s.got, k)

\* Nothing was written so far; what SendPackets leaves behind.
Untouched(q, d) == ~Reads(q) => d = <<>>
Leaves(q, k, C, d) ==
    IF Stops(q, k) THEN C = {} /\ (~Reads(q) => Blocks(q, d, k))
    ELSE /\ \E c \in C : C = {c} /\ Holding(q, k, c) /\ ~c.destroy /\ c.queue = <<>>
         /\ Untouched(q, d)

(***************************************************************************)
(* The phases of a transfer: not begun; the request is on its way; in      *)
(* round k, the server's packet is queued, on its way, or answered; over.  *)
(***************************************************************************)
Out(q, s, m, C, o, d) ==
    /\ s.st \in {"absent", "start"} /\ s.got = <<>> /\ m = {} /\ C = {} /\ o = <<>>
    /\ s.st = "start" => Untouched(q, d)
Asked(q, s, m, C, o, d) ==
    /\ s.st = "active" /\ s.next = First(q) /\ s.got = <<>> /\ Untouched(q, d)
    /\ m = {Plan[q].req} /\ C = {} /\ o = <<>>

Queued(q, k, s, m, C, o, d) ==
    /\ Waits(q, k, s) /\ m = {} /\ o = <<>> /\ Untouched(q, d)
    /\ \E c \in C : /\ C = {c} /\ Holding(q, k, c)
                    /\ (c.destroy <=> Stops(q, k)) /\ c.queue = <<ServerPacket(q, k)>>
Sent(q, k, s, m, C, o, d) ==
    Waits(q, k, s) /\ m = {} /\ o = <<ServerPacket(q, k)>> /\ Leaves(q, k, C, d)
Replied(q, k, s, m, C, o, d) ==
    /\ ~Ends(q, k)
    /\ Answered(q, k, s) /\ m = {PeerPacket(q, k)} /\ o = <<>> /\ Leaves(q, k, C, d)

\* A client in no transfer; what may be left of a reader's when it is done: the
\* reader's last acknowledgement, which the server answers behind the end of
\* the file if it still has the client, and with a new client if not.
Idles(c) == ~c.sendingfile /\ c.f.mode = "null" /\ ~c.destroy /\ c.queue = <<>>
Trails(q, m, c) ==
    \/ Idles(c)
    \/ /\ m # {} /\ Plain(q) /\ Ends(q, 1)
       /\ Holding(q, 1, c) /\ ~c.destroy /\ c.queue = <<>>
    \/ /\ m = {} /\ c.destroy /\ c.f.mode = "r"
       /\ Len(c.queue) = 1 /\ c.queue[1].op = "DATA" /\ c.queue[1].data.len = 0
Through(q, k, s, m, C, o, d) ==
    /\ s.st = "done" /\ Ends(q, k)
    /\ IF Reads(q) THEN /\ Blocks(q, s.got, k) /\ \A p \in m : p.op = "ACK"
                        /\ \A c \in C : Trails(q, m, c)
       ELSE Blocks(q, d, k) /\ m = {} /\ C = {} /\ o = <<>>

\* A request that is not granted.  Packets that refuse it: an ERROR first, or
\* behind the acknowledgement of an option; a tsize option is acknowledged and
\* nothing more.
Hopeless(q, o) ==
    \A i \in 1..Len(o) :
        /\ o[i].op = "ERROR" \/ o[1].op = "ERROR" \/ (i = 1 /\ o[i].op = "OACK" /\ Reads(q))
        /\ o[i].op = "DATA" => o[i].data.len = 0
Turned(q, s, m, C, o, d) ==
    /\ s.st \in {"active", "refused"} /\ s.got = <<>> /\ s.next = First(q) /\ Untouched(q, d)
    /\ \A p \in m : p.op = "ACK"
    /\ \A c \in C : /\ Hopeless(q, c.queue) /\ c.f.mode # "w"
                    /\ c.destroy \/ (~c.sendingfile /\ c.f.mode = "null")
                    /\ c.queue # <<>> => m = {} /\ o = <<>> /\ s.st = "active"
    /\ s.st = "active" =>
          /\ Hopeless(q, o)
          /\ o # <<>> /\ o[1].op = "OACK" => m = {}
          /\ o = <<>> /\ (\A c \in C : c.queue = <<>>) => s.last.op = "ACK"

Round(q, k, s, m, C, o, d) ==
    /\ Begins(q, k) /\ (k = 0 => ~Plain(q))
    /\ \/ Queued(q, k, s, m, C, o, d)
       \/ Sent(q, k, s, m, C, o, d)
       \/ Replied(q, k, s, m, C, o, d)
       \/ Through(q, k, s, m, C, o, d)
Phase(q, s, m, C, o, d) ==
    \/ Out(q, s, m, C, o, d)
    \/ Asked(q, s, m, C, o, d)
    \/ Turned(q, s, m, C, o, d)
    \/ Proper(q) /\ \E k \in Nat : Round(q, k, s, m, C, o, d)

InPhase(q) == Phase(q, peer[q], Mail(q), Mine(q), outbox[q], Disk[Plan[q].req.file])

\* Only one cast is on the stage; a peer has at most one datagram on its way to
\* the server; every client is that of a peer which takes part; the FILE about
\* to be closed is its owner's.
InCast == \E cast \in Casts : \A q \in Peers : peer[q].st # "absent" => q \in cast
Lone(box) == \A i, j \in 1..Len(box) : box[i].peer = box[j].peer => i = j
Once == \A fd \in Fd : Lone(inbox[fd])
Known ==
    \A i \in 1..Len(clientpool) :
        \E q \in Peers : peer[q].st # "absent" /\ Owns(q, clientpool[i])

ReapsOwn ==
    pc = "reap" =>
        \A q \in Peers : Owns(q, clientpool[cidx]) /\ clientpool[cidx].f.mode = "w" =>
            ~Reads(q) /\ clientpool[cidx].f.file = Plan[q].req.file

LockInv ==
    /\ InCast /\ Once /\ Known /\ ReapsOwn /\ leaked = 0
    /\ \A q \in Peers : InPhase(q)

-----------------------------------------------------------------------------
(***************************************************************************)
(* Blocks of a file that is transferred.                                   *)
(***************************************************************************)

\* The request of a peer.
LEMMA PlanOf ==
    ASSUME NEW q \in Peers
    PROVE  /\ Plan[q].req \in Requests /\ Plan[q].req.file \in File
           /\ Plan[q].req.op \in {"RRQ", "WRQ"} /\ (Reads(q) <=> Plan[q].req.op # "WRQ")
           /\ Plan[q].fd \in Fd /\ Plan[q].src \in Source /\ Plan[q].src.port \in Port
           /\ Reads(q) \in BOOLEAN /\ FileLen(q) \in Nat
  <1>1. Plan[q].req \in Requests /\ Plan[q].fd \in Fd /\ Plan[q].src \in Source /\ Plan[q].size \in Nat
    BY PlanAssumption
  <1>2. Plan[q].req.file \in File /\ Plan[q].req.op \in {"RRQ", "WRQ"} /\ Plan[q].src.port \in Port
    BY <1>1 DEF Requests, Source
  <1>3. FileLen(q) \in Nat
    BY <1>1, <1>2, FileAssumption DEF FileLen, Readable
  <1> QED
    BY <1>1, <1>2, <1>3 DEF Reads

\* Block sizes are positive.
LEMMA ProperSizes ==
    ASSUME NEW q \in Peers, Proper(q)
    PROVE  Blocksize(q) \in Nat /\ Blocksize(q) >= 8 /\ FileLen(q) \in Nat
  <1>1. Plan[q].req.val \in Int
    BY PlanAssumption DEF Requests
  <1>2. Reads(q) => ~BadBlksize(Plan[q].req)
    BY DEF Proper
  <1> QED
    BY <1>1, <1>2, PlanOf DEF Blocksize, BadBlksize, MIN_BLKSIZE, DEFAULT_BLKSIZE

\* Block k + 1, when the blocks before it do not end the file: where it begins,
\* how long it is, and whether it is the last.
LEMMA BlockFacts ==
    ASSUME NEW q \in Peers, Proper(q), NEW k \in Nat, ~Ends(q, k)
    PROVE  LET B == Blocksize(q)
               L == FileLen(q)
               b == FileBlock(q, k + 1)
           IN  /\ k * B \in Nat /\ k * B <= L /\ Upto(q, k) = k * B
               /\ b = Chunk(Plan[q].req.file, k * B, b.len) /\ b \in Chunks
               /\ b.len = (IF k * B + B <= L THEN B ELSE L - k * B)
               /\ b.len \in Nat /\ b.len <= B /\ (b.len < B <=> Ends(q, k + 1))
               /\ Upto(q, k + 1) = k * B + b.len
               /\ Begins(q, k + 1) /\ (k + 1) * B = k * B + B
               /\ k + 1 \in 1..FinalBlock(q) /\ (Ends(q, k + 1) <=> k + 1 = FinalBlock(q))
  <1> DEFINE B == Blocksize(q)
             L == FileLen(q)
             m == k * B
             b == FileBlock(q, k + 1)
             z == IF m + B <= L THEN B ELSE L - m
  <1>1. B \in Nat /\ B >= 8 /\ L \in Nat
    BY ProperSizes
  <1>2. m \in Nat /\ (k + 1) * B = m + B /\ (k + 1 - 1) * B = m
    BY <1>1, SMT
  <1>3. ~(L < m)
    BY DEF Ends
  <1>4. b = Chunk(Plan[q].req.file, m, z)
    BY <1>2 DEF FileBlock
  <1>5. /\ Upto(q, k) = IF m <= L THEN m ELSE L
        /\ Upto(q, k + 1) = IF m + B <= L THEN m + B ELSE L
    BY <1>2 DEF Upto
  <1>6. (Ends(q, k + 1) <=> L < m + B) /\ (Begins(q, k + 1) <=> m <= L)
    BY <1>2 DEF Ends, Begins
  <1>7. L \div B \in Nat /\ k <= L \div B /\ (L < m + B <=> k = L \div B)
    <2> HIDE DEF B, L
    <2> DEFINE d == L \div B
               r == L % B
    <2>1. d \in Nat /\ r \in Nat /\ r < B /\ L = d * B + r
      BY <1>1, SMT
    <2>2. m <= L
      BY <1>1, <1>2, <1>3
    <2>3. k <= d
      BY <1>1, <2>1, <2>2, QuotientBounds
    <2>4. ASSUME L < m + B PROVE k = d
      <3>1. SUFFICES ASSUME k + 1 <= d PROVE FALSE
        BY <2>1, <2>3
      <3> HIDE DEF m, d, r
      <3>2. (k + 1) * B <= d * B
        BY <1>1, <2>1, <3>1, SMT
      <3>3. d * B \in Nat
        BY <1>1, <2>1, SMT
      <3> QED
        BY <1>1, <1>2, <2>1, <2>4, <3>2, <3>3
    <2>5. ASSUME k = d PROVE L < m + B
      BY <1>1, <2>1, <2>5
    <2> QED
      BY <2>1, <2>3, <2>4, <2>5
  <1>8. k + 1 \in 1..FinalBlock(q) /\ (L < m + B <=> k + 1 = FinalBlock(q))
    BY <1>7 DEF FinalBlock
  <1>9. b.len = z /\ b.file = Plan[q].req.file /\ b.off = m
    BY <1>4 DEF Chunk
  <1> HIDE DEF m, B, L, b
  <1>10. m <= L /\ z \in Nat /\ z <= B /\ (z < B <=> L < m + B)
    BY <1>1, <1>2, <1>3
  <1>11. b \in Chunks
    BY <1>2, <1>4, <1>10, PlanOf DEF Chunk, Chunks
  <1>12. Upto(q, k) = m /\ Upto(q, k + 1) = m + z
    BY <1>1, <1>2, <1>5, <1>10
  <1> HIDE DEF z
  <1>13. /\ m \in Nat /\ m <= L /\ Upto(q, k) = m
         /\ b = Chunk(Plan[q].req.file, m, b.len) /\ b \in Chunks
         /\ b.len = z /\ b.len \in Nat /\ b.len <= B /\ (b.len < B <=> Ends(q, k + 1))
         /\ Upto(q, k + 1) = m + b.len
         /\ Begins(q, k + 1) /\ (k + 1) * B = m + B
         /\ k + 1 \in 1..FinalBlock(q) /\ (Ends(q, k + 1) <=> k + 1 = FinalBlock(q))
    BY <1>2, <1>4, <1>6, <1>8, <1>9, <1>10, <1>11, <1>12
  <1> QED
    BY <1>13 DEF m, B, L, b, z

-----------------------------------------------------------------------------
(***************************************************************************)
(* The peer's steps, from phase to phase.  t is its state afterwards.      *)
(***************************************************************************)

\* One packet on its way.
LEMMA OneOnItsWay ==
    ASSUME NEW S, NEW x \in S, NEW o, o = <<x>>
    PROVE  o # <<>> /\ Head(o) = x /\ Tail(o) = <<>> /\ Len(o) = 1 /\ o[1] = x /\ o \in Seq(S)
  OBVIOUS

\* The block after the first k.
LEMMA BlocksAppend ==
    ASSUME NEW q, NEW t \in Seq(Chunks), NEW k \in Nat, Blocks(q, t, k),
           NEW b \in Chunks, b = FileBlock(q, k + 1)
    PROVE  Blocks(q, Append(t, b), k + 1) /\ Append(t, b) \in Seq(Chunks)
  <1>1. /\ Append(t, b) \in Seq(Chunks) /\ Len(Append(t, b)) = Len(t) + 1
        /\ \A i \in 1..Len(t) : Append(t, b)[i] = t[i]
        /\ Append(t, b)[Len(t) + 1] = b
    BY AppendProperties
  <1>2. Len(t) = k /\ \A i \in 1..k : t[i] = FileBlock(q, i)
    BY DEF Blocks
  <1>3. \A i \in 1..k + 1 : i \in 1..k \/ i = k + 1
    OBVIOUS
  <1> QED
    BY <1>1, <1>2, <1>3 DEF Blocks

\* The packets of a round.
LEMMA PacketFacts ==
    ASSUME NEW q \in Peers, Proper(q), NEW k \in Nat, Begins(q, k)
    PROVE  /\ ServerPacket(q, k) \in OutPackets /\ ServerPacket(q, k).op # "ERROR"
           /\ ~Reads(q) => ServerPacket(q, k) = AckPacket(k % Modulus)
           /\ Reads(q) /\ k = 0 => ServerPacket(q, k).op = "OACK"
           /\ Reads(q) /\ k # 0 =>
                 /\ ServerPacket(q, k) = DataPacket(k % Modulus, FileBlock(q, k))
                 /\ FileBlock(q, k) \in Chunks
           /\ k % Modulus \in Nat
           /\ k # 0 => ~Ends(q, k - 1)
           /\ ~Ends(q, 0)
  <1>1. k % Modulus \in Nat /\ 0 \in Nat
    BY BoundsAssumption, SMT
  <1>2. Blocksize(q) \in Nat /\ FileLen(q) \in Nat /\ Blocksize(q) >= 8
    BY ProperSizes
  <1>3. ~Ends(q, 0)
    <2>1. 0 * Blocksize(q) = 0
      BY <1>2, SMT
    <2> QED
      BY <1>2, <2>1 DEF Ends
  <1>4. ASSUME k # 0 PROVE ~Ends(q, k - 1) /\ FileBlock(q, k) \in Chunks
    <2>1. k - 1 \in Nat /\ k - 1 + 1 = k
      BY <1>4
    <2>2. (k - 1) * Blocksize(q) \in Nat
      BY <1>2, <2>1, SMT
    <2>3. ~Ends(q, k - 1)
      BY <1>2, <2>2 DEF Begins, Ends
    <2> DEFINE j == k - 1
    <2> HIDE DEF j
    <2>4. j \in Nat /\ j + 1 = k /\ ~Ends(q, j)
      BY <2>1, <2>3 DEF j
    <2>5. FileBlock(q, j + 1) \in Chunks
      BY <2>4, BlockFacts
    <2> QED
      BY <2>3, <2>4, <2>5
  <1>5. "blksize" \in Options
    BY DEF Options
  <1>6. AckPacket(k % Modulus) \in OutPackets /\ OackPacket("blksize", Plan[q].req.val) \in OutPackets
    BY <1>1, <1>5, SmallPackets
  <1>7. k # 0 => DataPacket(k % Modulus, FileBlock(q, k)) \in OutPackets
    BY <1>1, <1>4 DEF DataPacket, OutPackets
  <1>8. /\ AckPacket(k % Modulus).op = "ACK"
        /\ OackPacket("blksize", Plan[q].req.val).op = "OACK"
        /\ DataPacket(k % Modulus, FileBlock(q, k)).op = "DATA"
    BY DEF AckPacket, OackPacket, DataPacket
  <1> QED
    BY <1>1, <1>3, <1>4, <1>6, <1>7, <1>8 DEF ServerPacket

\* A peer makes its request.
LEMMA RequestPhase ==
    ASSUME NEW q \in Peers, NEW s, NEW m, NEW C, NEW o, NEW d, Phase(q, s, m, C, o, d),
           s.st = "start",
           NEW t, t.st = "active", t.next = First(q), t.got = s.got
    PROVE  m = {} /\ Phase(q, t, {Plan[q].req}, C, o, d)
  <1>1. Out(q, s, m, C, o, d)
    BY DEF Phase, Out, Asked, Turned, Round, Queued, Sent, Replied, Through, Waits, Answered
  <1>2. Asked(q, t, {Plan[q].req}, C, o, d)
    BY <1>1 DEF Out, Asked
  <1> QED
    BY <1>1, <1>2 DEF Phase, Out

\* A peer that is active and has a packet to take is in one of two phases.
LEMMA TakesPhase ==
    ASSUME NEW q \in Peers, NEW s, NEW m, NEW C, NEW o, NEW d, Phase(q, s, m, C, o, d),
           s.st = "active", o # <<>>
    PROVE  \/ Turned(q, s, m, C, o, d)
           \/ /\ Proper(q)
              /\ \E k \in Nat : Begins(q, k) /\ (k = 0 => ~Plain(q)) /\ Sent(q, k, s, m, C, o, d)
  BY DEF Phase, Out, Asked, Round, Queued, Replied, Through

\* What refuses a request does so behind an acknowledgement of its option, too.
LEMMA HopelessTail ==
    ASSUME NEW q, NEW o \in Seq(OutPackets), o # <<>>, Hopeless(q, o)
    PROVE  /\ o[1].op \in {"ERROR", "OACK"} /\ Head(o) = o[1]
           /\ o[1].op = "OACK" =>
                 /\ Reads(q) /\ Hopeless(q, Tail(o))
                 /\ Tail(o) # <<>> => Tail(o)[1].op = "ERROR"
  <1>1. /\ Len(o) \in Nat /\ Len(o) > 0 /\ Head(o) = o[1]
        /\ Tail(o) \in Seq(OutPackets) /\ Len(Tail(o)) = Len(o) - 1
        /\ \A i \in 1..Len(Tail(o)) : Tail(o)[i] = o[i + 1]
    BY HeadTailProperties, EmptySeq, LenProperties
  <1>2. 1 \in 1..Len(o)
    BY <1>1
  <1>3. o[1].op = "ERROR" \/ (o[1].op = "OACK" /\ Reads(q))
    BY <1>2 DEF Hopeless
  <1>4. ASSUME o[1].op = "OACK" PROVE \A i \in 1..Len(Tail(o)) : Tail(o)[i].op = "ERROR"
    <2>1. TAKE i \in 1..Len(Tail(o))
    <2>2. i + 1 \in 1..Len(o) /\ i + 1 # 1 /\ Tail(o)[i] = o[i + 1]
      BY <1>1
    <2> QED
      BY <1>4, <2>2 DEF Hopeless
  <1>5. o[1].op = "OACK" => Hopeless(q, Tail(o))
    BY <1>4 DEF Hopeless
  <1>6. o[1].op = "OACK" /\ Tail(o) # <<>> => Tail(o)[1].op = "ERROR"
    BY <1>1, <1>4, EmptySeq
  <1> QED
    BY <1>1, <1>3, <1>5, <1>6


\* So a peer that was turned away and waits takes an ERROR or an option's
\* acknowledgement next.
LEMMA TurnedHead ==
    ASSUME NEW q, NEW s, NEW m, NEW C, NEW o \in Seq(OutPackets), NEW d,
           Turned(q, s, m, C, o, d), s.st = "active", o # <<>>
    PROVE  /\ Head(o).op \in {"ERROR", "OACK"}
           /\ Head(o).op = "OACK" =>
                 /\ Reads(q) /\ m = {} /\ Hopeless(q, Tail(o))
                 /\ Tail(o) # <<>> => Tail(o)[1].op = "ERROR"
  <1>1. Hopeless(q, o) /\ (o[1].op = "OACK" => m = {})
    BY DEF Turned
  <1> QED
    BY <1>1, HopelessTail

\* A reader keeps block p, s and t being its states before and after; it has
\* one block more.
Keeps(q, s, p, t) ==
    /\ t.next = s.next + 1 /\ t.got = Append(s.got, p.data)
    /\ t.st = IF p.data.len < Blocksize(q) THEN "done" ELSE "active"
OneMore(q, s, t) ==
    \E k \in Nat : ~Ends(q, k) /\ Blocks(q, s.got, k) /\ Blocks(q, t.got, k + 1)

\* A writer goes on to block n, if there is one.
GoesOn(q, s, n, t) ==
    /\ t.got = s.got
    /\ n > FinalBlock(q) => t.st = "done"
    /\ ~(n > FinalBlock(q)) => t.st = "active" /\ t.next = n
Written(q, n) ==
    IF n > FinalBlock(q) THEN {} ELSE {DataPacket(n % Modulus, FileBlock(q, n))}

\* The reader keeps the block it waits for and acknowledges it.
LEMMA ReadsPhase ==
    ASSUME NEW q \in Peers, NEW s \in PeerStates, NEW m, NEW C, NEW o \in Seq(OutPackets), NEW d,
           Phase(q, s, m, C, o, d), Reads(q), s.st = "active", o # <<>>,
           Head(o).op = "DATA", NEW t, Keeps(q, s, Head(o), t)
    PROVE  /\ m = {} /\ Phase(q, t, {AckPacket(Head(o).blockno)}, C, Tail(o), d)
           /\ Proper(q) /\ OneMore(q, s, t)
  <1> DEFINE p == Head(o)
  <1>0. /\ p.op = "DATA" /\ t.next = s.next + 1 /\ t.got = Append(s.got, p.data)
        /\ t.st = IF p.data.len < Blocksize(q) THEN "done" ELSE "active"
    BY DEF Keeps
  <1>1. ~Turned(q, s, m, C, o, d)
    BY TurnedHead
  <1>2. PICK k \in Nat : Begins(q, k) /\ (k = 0 => ~Plain(q)) /\ Sent(q, k, s, m, C, o, d)
    BY <1>1, TakesPhase
  <1>3. Proper(q)
    BY <1>1, TakesPhase
  <1>4. /\ Waits(q, k, s) /\ m = {} /\ o = <<ServerPacket(q, k)>> /\ Leaves(q, k, C, d)
    BY <1>2 DEF Sent
  <1>5. p = ServerPacket(q, k) /\ Tail(o) = <<>>
    BY <1>2, <1>3, <1>4, PacketFacts, OneOnItsWay
  <1> HIDE DEF p
  <1>6. k # 0 /\ p = DataPacket(k % Modulus, FileBlock(q, k)) /\ ~Ends(q, k - 1)
    BY <1>0, <1>2, <1>3, <1>5, PacketFacts
  <1>7. p.blockno = k % Modulus /\ p.data = FileBlock(q, k)
    BY <1>6 DEF DataPacket
  <1>8. PICK j \in Nat : j + 1 = k /\ j = k - 1
    BY <1>6
  <1>9. /\ FileBlock(q, k) \in Chunks
        /\ FileBlock(q, k).len < Blocksize(q) <=> Ends(q, k)
    BY <1>3, <1>6, <1>8, BlockFacts
  <1>10. s.got \in Seq(Chunks) /\ s.next = k /\ Blocks(q, s.got, j)
    BY <1>4, <1>6, <1>8 DEF Waits, PeerStates
  <1>11. Blocks(q, t.got, k)
    BY <1>0, <1>7, <1>8, <1>9, <1>10, BlocksAppend
  <1>12. CASE Ends(q, k)
    <2>1. t.st = "done"
      BY <1>0, <1>7, <1>9, <1>12
    <2>2. \A c \in C : Trails(q, {AckPacket(p.blockno)}, c)
      BY <1>4, <1>12 DEF Leaves, Stops, Trails
    <2>3. \A a \in {AckPacket(p.blockno)} : a.op = "ACK"
      BY DEF AckPacket
    <2>4. Through(q, k, t, {AckPacket(p.blockno)}, C, Tail(o), d)
      BY <1>11, <1>12, <2>1, <2>2, <2>3 DEF Through
    <2> QED
      BY <1>2, <1>3, <1>4, <1>6, <1>8, <1>10, <1>11, <2>4 DEF Phase, Round, OneMore, p
  <1>13. CASE ~Ends(q, k)
    <2>1. t.st = "active" /\ t.next = k + 1
      BY <1>0, <1>7, <1>9, <1>10, <1>13
    <2>2. PeerPacket(q, k) = AckPacket(p.blockno)
      BY <1>7 DEF PeerPacket
    <2>3. Replied(q, k, t, {AckPacket(p.blockno)}, C, Tail(o), d)
      BY <1>4, <1>5, <1>11, <1>13, <2>1, <2>2 DEF Replied, Answered
    <2> QED
      BY <1>2, <1>3, <1>4, <1>6, <1>8, <1>10, <1>11, <2>3 DEF Phase, Round, OneMore, p
  <1> QED
    BY <1>12, <1>13

\* The writer takes the acknowledgement it waits for: the last, or not.
LEMMA WritesPhase ==
    ASSUME NEW q \in Peers, NEW s \in PeerStates, NEW m, NEW C, NEW o \in Seq(OutPackets), NEW d,
           Phase(q, s, m, C, o, d), ~Reads(q), s.st = "active", o # <<>>, Head(o).op = "ACK",
           NEW t, GoesOn(q, s, s.next + 1, t)
    PROVE  m = {} /\ Phase(q, t, Written(q, s.next + 1), C, Tail(o), d)
  <1> DEFINE n == s.next + 1
  <1>0. /\ t.got = s.got
        /\ n > FinalBlock(q) => t.st = "done"
        /\ ~(n > FinalBlock(q)) => t.st = "active" /\ t.next = n
    BY DEF GoesOn
  <1>1. ~Turned(q, s, m, C, o, d)
    BY TurnedHead
  <1>2. PICK k \in Nat : Begins(q, k) /\ (k = 0 => ~Plain(q)) /\ Sent(q, k, s, m, C, o, d)
    BY <1>1, TakesPhase
  <1>3. Proper(q)
    BY <1>1, TakesPhase
  <1>4. /\ Waits(q, k, s) /\ m = {} /\ o = <<ServerPacket(q, k)>> /\ Leaves(q, k, C, d)
    BY <1>2 DEF Sent
  <1>5. Tail(o) = <<>> /\ n = k + 1
    BY <1>2, <1>3, <1>4, PacketFacts, OneOnItsWay DEF Waits
  <1> HIDE DEF n
  <1>6. FinalBlock(q) \in Nat /\ (n > FinalBlock(q) <=> Ends(q, k))
    <2>1. Blocksize(q) \in Nat /\ FileLen(q) \in Nat /\ Blocksize(q) >= 8
      BY <1>3, ProperSizes
    <2>2. FinalBlock(q) \in Nat
      BY <2>1, SMT DEF FinalBlock
    <2>3. CASE ~Ends(q, k)
      <3>1. k + 1 \in 1..FinalBlock(q)
        BY <1>3, <2>3, BlockFacts
      <3> QED
        BY <1>5, <2>2, <2>3, <3>1
    <2>4. CASE Ends(q, k)
      <3>1. k # 0 /\ ~Ends(q, k - 1)
        BY <1>2, <1>3, <2>4, PacketFacts
      <3>2. PICK j \in Nat : j + 1 = k /\ j = k - 1
        BY <3>1
      <3>3. k = FinalBlock(q)
        BY <1>3, <2>4, <3>1, <3>2, BlockFacts
      <3> QED
        BY <1>5, <2>4, <3>3
    <2> QED
      BY <2>2, <2>3, <2>4
  <1>7. CASE Ends(q, k)
    <2>1. Through(q, k, t, {}, C, Tail(o), d)
      BY <1>0, <1>4, <1>5, <1>6, <1>7 DEF Leaves, Stops, Plain, Through
    <2> QED
      BY <1>2, <1>3, <1>4, <1>6, <1>7, <2>1 DEF Phase, Round, Written, n
  <1>8. CASE ~Ends(q, k)
    <2>1. PeerPacket(q, k) = DataPacket(n % Modulus, FileBlock(q, n))
      BY <1>5 DEF PeerPacket
    <2>2. Replied(q, k, t, {PeerPacket(q, k)}, C, Tail(o), d)
      BY <1>0, <1>4, <1>5, <1>6, <1>8 DEF Replied, Answered
    <2> QED
      BY <1>2, <1>3, <1>4, <1>6, <1>8, <2>1, <2>2 DEF Phase, Round, Written, n
  <1> QED
    BY <1>7, <1>8

\* The reader confirms the server's acknowledgement of its option.
LEMMA ConfirmsPhase ==
    ASSUME NEW q \in Peers, NEW s \in PeerStates, NEW m, NEW C, NEW o \in Seq(OutPackets), NEW d,
           Phase(q, s, m, C, o, d), Reads(q), s.st = "active", o # <<>>, Head(o).op = "OACK",
           NEW t, t.st = s.st, t.next = s.next, t.got = s.got, t.last = AckPacket(0)
    PROVE  m = {} /\ Phase(q, t, {AckPacket(0)}, C, Tail(o), d)
  <1>1. CASE Turned(q, s, m, C, o, d)
    <2>2. Hopeless(q, Tail(o)) /\ (Tail(o) # <<>> => Tail(o)[1].op = "ERROR") /\ m = {}
      BY <1>1, TurnedHead
    <2>3. t.last.op = "ACK" /\ \A p \in {AckPacket(0)} : p.op = "ACK"
      BY DEF AckPacket
    <2>4. Turned(q, t, {AckPacket(0)}, C, Tail(o), d)
      BY <1>1, <2>2, <2>3 DEF Turned
    <2> QED
      BY <2>2, <2>4 DEF Phase
  <1>2. CASE ~Turned(q, s, m, C, o, d)
    <2>1. PICK k \in Nat : Begins(q, k) /\ (k = 0 => ~Plain(q)) /\ Sent(q, k, s, m, C, o, d)
      BY <1>2, TakesPhase
    <2>2. Proper(q)
      BY <1>2, TakesPhase
    <2>3. /\ Waits(q, k, s) /\ m = {} /\ o = <<ServerPacket(q, k)>> /\ Leaves(q, k, C, d)
      BY <2>1 DEF Sent
    <2>4. Tail(o) = <<>> /\ Head(o) = ServerPacket(q, k)
      BY <2>1, <2>2, <2>3, PacketFacts, OneOnItsWay
    <2>5. k = 0 /\ ~Ends(q, 0)
      <3>1. k # 0 => Head(o).op = "DATA"
        BY <2>1, <2>2, <2>4, PacketFacts DEF DataPacket
      <3> QED
        BY <2>1, <2>2, <3>1, PacketFacts
    <2>6. PeerPacket(q, 0) = AckPacket(0)
      BY SmallMod DEF PeerPacket
    <2>7. Replied(q, k, t, {AckPacket(0)}, C, Tail(o), d)
      BY <2>3, <2>4, <2>5, <2>6 DEF Replied, Answered, Waits
    <2> QED
      BY <2>1, <2>2, <2>3, <2>7 DEF Phase, Round
  <1> QED
    BY <1>1, <1>2

\* The peer gives up when the server refuses.
LEMMA GivesUpPhase ==
    ASSUME NEW q \in Peers, NEW s \in PeerStates, NEW m, NEW C, NEW o \in Seq(OutPackets), NEW d,
           Phase(q, s, m, C, o, d), s.st = "active", o # <<>>, Head(o).op = "ERROR",
           NEW t, t.st = "refused", t.next = s.next, t.got = s.got
    PROVE  /\ Turned(q, s, m, C, o, d)
           /\ Phase(q, t, m, C, Tail(o), d)
  <1>1. Turned(q, s, m, C, o, d)
    <2>1. ASSUME Proper(q), NEW k \in Nat, Begins(q, k), Sent(q, k, s, m, C, o, d)
          PROVE  FALSE
      <3>1. o = <<ServerPacket(q, k)>>
        BY <2>1 DEF Sent
      <3> QED
        BY <2>1, <3>1, PacketFacts, OneOnItsWay
    <2> QED
      BY <2>1, TakesPhase
  <1>2. Turned(q, t, m, C, Tail(o), d)
    BY <1>1 DEF Turned
  <1> QED
    BY <1>1, <1>2 DEF Phase

\* What a peer in state s drops.
Dropped(q, s, p) ==
    \/ s.st # "active"
    \/ /\ p.op \notin {"OACK", "ERROR"}
       /\ ~(Reads(q) /\ p.op = "DATA" /\ p.blockno = s.next % Modulus)
       /\ ~(~Reads(q) /\ p.op = "ACK" /\ p.blockno = s.next % Modulus)
    \/ p.op = "OACK" /\ s.next # 1

\* What the peer drops.
LEMMA IgnoresPhase ==
    ASSUME NEW q \in Peers, NEW s \in PeerStates, NEW m, NEW C, NEW o \in Seq(OutPackets), NEW d,
           Phase(q, s, m, C, o, d), o # <<>>, Dropped(q, s, Head(o))
    PROVE  Phase(q, s, m, C, Tail(o), d)
  <1> DEFINE p == Head(o)
  <1>0. Dropped(q, s, p)
    OBVIOUS
  <1>1. CASE s.st = "active"
    <2>1. ASSUME Turned(q, s, m, C, o, d) PROVE FALSE
      <3>1. p.op \in {"OACK", "ERROR"} /\ (p.op = "OACK" => Reads(q))
        BY <1>1, <2>1, TurnedHead
      <3> QED
        BY <1>0, <1>1, <2>1, <3>1 DEF Turned, First, Dropped
    <2>2. ASSUME Proper(q), NEW k \in Nat, Begins(q, k), Sent(q, k, s, m, C, o, d)
          PROVE  FALSE
      <3>1. o = <<ServerPacket(q, k)>> /\ Waits(q, k, s)
        BY <2>2 DEF Sent
      <3>2. p = ServerPacket(q, k)
        BY <2>2, <3>1, PacketFacts, OneOnItsWay
      <3> HIDE DEF p
      <3>3. CASE ~Reads(q)
        BY <1>0, <1>1, <2>2, <3>1, <3>2, <3>3, PacketFacts DEF Dropped, Waits, AckPacket
      <3>4. CASE Reads(q) /\ k = 0
        BY <1>0, <1>1, <2>2, <3>1, <3>2, <3>4, PacketFacts DEF Dropped, Waits
      <3>5. CASE Reads(q) /\ k # 0
        BY <1>0, <1>1, <2>2, <3>1, <3>2, <3>5, PacketFacts DEF Dropped, Waits, DataPacket
      <3> QED
        BY <3>3, <3>4, <3>5
    <2> QED
      BY <1>1, <2>1, <2>2, TakesPhase
  <1>2. CASE s.st # "active"
    <2>1. CASE Turned(q, s, m, C, o, d)
      <3>1. Turned(q, s, m, C, Tail(o), d)
        BY <1>2, <2>1 DEF Turned
      <3> QED
        BY <3>1 DEF Phase
    <2>2. CASE Proper(q) /\ \E k \in Nat : Round(q, k, s, m, C, o, d)
      <3>1. PICK k \in Nat : Round(q, k, s, m, C, o, d)
        BY <2>2
      <3>2. Through(q, k, s, m, C, o, d)
        BY <1>2, <3>1 DEF Round, Queued, Sent, Replied, Waits, Answered
      <3>3. Through(q, k, s, m, C, Tail(o), d)
        BY <3>2 DEF Through
      <3> QED
        BY <2>2, <3>1, <3>3 DEF Phase, Round
    <2>3. ~Out(q, s, m, C, o, d) /\ ~Asked(q, s, m, C, o, d)
      BY DEF Out, Asked
    <2> QED
      BY <2>1, <2>2, <2>3 DEF Phase
  <1> QED
    BY <1>1, <1>2

\* The timer fires only for a peer that has been turned away without an ERROR.
LEMMA TimeoutPhase ==
    ASSUME NEW q \in Peers, NEW s \in PeerStates, NEW C, NEW d,
           Phase(q, s, {}, C, <<>>, d), s.st = "active", \A c \in C : c.queue = <<>>,
           NEW t, t.st = s.st, t.next = s.next, t.got = s.got, t.last = s.last
    PROVE  Phase(q, t, {s.last}, C, <<>>, d)
  <1>1. ASSUME NEW k \in Nat, Round(q, k, s, {}, C, <<>>, d) PROVE FALSE
    <2>1. <<ServerPacket(q, k)>> # <<>>
      OBVIOUS
    <2> QED
      BY <1>1, <2>1 DEF Round, Queued, Sent, Replied, Through
  <1>2. Turned(q, s, {}, C, <<>>, d)
    BY <1>1 DEF Phase, Out, Asked
  <1>3. Turned(q, t, {s.last}, C, <<>>, d)
    BY <1>2 DEF Turned
  <1> QED
    BY <1>3 DEF Phase


-----------------------------------------------------------------------------
(***************************************************************************)
(* What ProcessPacket makes of a client that has nothing to do.            *)
(***************************************************************************)
Blank(c) ==
    /\ c \in Clients /\ c.queue = <<>> /\ c.f = NullFile
    /\ c.sendingfile = FALSE /\ c.destroy = FALSE /\ c.blk = 0 /\ c.blksize = DEFAULT_BLKSIZE

\* Queueing a packet and marking a client change nothing else.
LEMMA QueueFields ==
    ASSUME NEW c \in Clients, NEW p \in OutPackets
    PROVE  LET d == QueuePacket(c, p)
           IN  /\ d \in Clients /\ d.queue = Append(c.queue, p) /\ d.f = c.f
               /\ d.sendingfile = c.sendingfile /\ d.destroy = c.destroy
               /\ d.blk = c.blk /\ d.blksize = c.blksize
               /\ d.currentblockno = c.currentblockno /\ d.actualblockno = c.actualblockno
  <1>1. c.queue \in Seq(OutPackets)
    BY DEF Clients
  <1>2. Append(c.queue, p) \in Seq(OutPackets)
    BY <1>1, AppendProperties
  <1> QED
    BY <1>2 DEF Clients, QueuePacket

\* An ERROR.
LEMMA ErrorFields ==
    ASSUME NEW c \in Clients, NEW code \in Nat
    PROVE  LET d == Error(c, code)
           IN  /\ d \in Clients /\ d.queue = Append(c.queue, ErrorPacket(code)) /\ d.f = c.f
               /\ d.sendingfile = c.sendingfile /\ d.destroy = TRUE
               /\ d.blk = c.blk /\ d.blksize = c.blksize
               /\ d.currentblockno = c.currentblockno /\ d.actualblockno = c.actualblockno
  <1> DEFINE e == QueuePacket(c, ErrorPacket(code))
  <1>1. ErrorPacket(code) \in OutPackets
    BY SmallPackets
  <1>2. /\ e \in Clients /\ e.queue = Append(c.queue, ErrorPacket(code)) /\ e.f = c.f
        /\ e.sendingfile = c.sendingfile
        /\ e.blk = c.blk /\ e.blksize = c.blksize
        /\ e.currentblockno = c.currentblockno /\ e.actualblockno = c.actualblockno
    BY <1>1, QueueFields
  <1> HIDE DEF e
  <1>3. [e EXCEPT !.destroy = TRUE] \in Clients
    BY <1>2 DEF Clients
  <1>4. Error(c, code) = [e EXCEPT !.destroy = TRUE]
    BY DEF Error, e
  <1> QED
    BY <1>2, <1>3, <1>4 DEF Clients

\* Packets that add to a refusal.
LEMMA HopelessAppend ==
    ASSUME NEW q, NEW o \in Seq(OutPackets), Hopeless(q, o), NEW p \in OutPackets,
           p.op = "DATA" => p.data.len = 0,
           \/ p.op = "ERROR"
           \/ o # <<>> /\ o[1].op = "ERROR"
           \/ o = <<>> /\ p.op = "OACK" /\ Reads(q)
    PROVE  /\ Hopeless(q, Append(o, p)) /\ Append(o, p) # <<>> /\ Append(o, p) \in Seq(OutPackets)
           /\ o = <<>> => Append(o, p)[1] = p
           /\ o # <<>> => Append(o, p)[1] = o[1]
  <1> DEFINE a == Append(o, p)
  <1>1. /\ Len(o) \in Nat /\ Len(a) = Len(o) + 1 /\ a \in Seq(OutPackets) /\ a # <<>>
        /\ \A i \in 1..Len(o) : a[i] = o[i]
        /\ a[Len(o) + 1] = p
        /\ o = <<>> <=> Len(o) = 0
    BY AppendProperties, LenProperties, EmptySeq
  <1> HIDE DEF a
  <1>2. (o = <<>> => a[1] = p) /\ (o # <<>> => a[1] = o[1])
    BY <1>1
  <1>3. ASSUME NEW i \in 1..Len(a)
        PROVE  /\ a[i].op = "ERROR" \/ a[1].op = "ERROR" \/ (i = 1 /\ a[i].op = "OACK" /\ Reads(q))
               /\ a[i].op = "DATA" => a[i].data.len = 0
    <2>1. CASE i = Len(o) + 1
      BY <1>1, <1>2, <2>1
    <2>2. CASE i # Len(o) + 1
      <3>1. i \in 1..Len(o) /\ a[i] = o[i] /\ a[1] = o[1]
        BY <1>1, <1>2, <2>2
      <3> QED
        BY <3>1 DEF Hopeless
    <2> QED
      BY <2>1, <2>2
  <1>4. Hopeless(q, a)
    BY <1>3 DEF Hopeless
  <1> QED
    BY <1>1, <1>2, <1>4 DEF a

\* OnRrq after it has looked at the options and at the name.
LEMMA LookedFields ==
    ASSUME NEW q \in Peers, Reads(q), NEW c, Blank(c), ~BadBlksize(Plan[q].req)
    PROVE  LET r == Plan[q].req
               l == Looked(c, r)
           IN  /\ l \in Clients /\ Hopeless(q, l.queue) /\ l.f = NullFile /\ l.blk = 0
               /\ FileExists(r.file) => l.destroy = FALSE
               /\ ~FileExists(r.file) => l.destroy = TRUE /\ l.queue # <<>>
               /\ r.opt # "blksize" => /\ l.sendingfile = FALSE /\ l.blksize = DEFAULT_BLKSIZE
                                       /\ FileExists(r.file) => l.queue = <<>>
                                       /\ ~FileExists(r.file) => l.queue[1].op = "ERROR"
               /\ r.opt = "blksize" =>
                     /\ l.sendingfile = TRUE /\ l.blksize = r.val
                     /\ l.currentblockno = 0 /\ l.actualblockno = 0
                     /\ FileExists(r.file) => l.queue = <<OackPacket("blksize", r.val)>>
  <1> DEFINE r == Plan[q].req
             n == Negotiate(c, r)
             k == OackPacket("blksize", r.val)
             e == ErrorPacket(ERROR_NOFILE)
  <1>1. /\ c \in Clients /\ c.queue = <<>> /\ c.f = NullFile /\ c.queue \in Seq(OutPackets)
        /\ c.sendingfile = FALSE /\ c.destroy = FALSE /\ c.blk = 0 /\ c.blksize = DEFAULT_BLKSIZE
    BY DEF Blank, Clients
  <1>2. k \in OutPackets /\ k.op = "OACK" /\ e \in OutPackets /\ e.op = "ERROR" /\ ERROR_NOFILE \in Nat
    <2>1. "blksize" \in Options
      BY DEF Options
    <2>2. ERROR_NOFILE \in Nat
      BY DEF ERROR_NOFILE
    <2> QED
      BY <2>1, <2>2, SmallPackets DEF OackPacket, ErrorPacket
  <1>3. Hopeless(q, <<>>) /\ <<>> \in Seq(OutPackets)
    BY DEF Hopeless
  <1>4. /\ n \in Clients /\ Hopeless(q, n.queue) /\ n.f = NullFile /\ n.blk = 0 /\ n.destroy = FALSE
        /\ r.opt # "blksize" => n.sendingfile = FALSE /\ n.blksize = DEFAULT_BLKSIZE /\ n.queue = <<>>
        /\ r.opt = "blksize" => /\ n.sendingfile = TRUE /\ n.blksize = r.val
                                /\ n.currentblockno = 0 /\ n.actualblockno = 0
                                /\ n.queue = <<k>>
    <2>1. CASE r.opt # "blksize"
      BY <1>1, <1>3, <2>1 DEF Negotiate
    <2>2. CASE r.opt = "blksize"
      <3> DEFINE a == QueuePacket(c, k)
      <3>1. /\ a \in Clients /\ a.queue = Append(<<>>, k) /\ a.f = NullFile
            /\ a.destroy = FALSE /\ a.blk = 0
        BY <1>1, <1>2, QueueFields
      <3>2. n = [a EXCEPT !.sendingfile = TRUE, !.currentblockno = 0, !.actualblockno = 0,
                          !.blksize = r.val]
        BY <2>2 DEF Negotiate, OptionAcknowledge
      <3>3. r.val \in Nat /\ 0 \in 0..Modulus - 1
        <4>1. r.val \in Int
          BY PlanAssumption DEF Requests
        <4> QED
          BY <2>2, <4>1, SmallMod DEF BadBlksize, MIN_BLKSIZE
      <3> HIDE DEF a, n, k
      <3>4. Append(<<>>, k) = <<k>> /\ Hopeless(q, Append(<<>>, k))
        <4>1. Append(<<>>, k) = <<k>> /\ Len(<<k>>) = 1 /\ <<k>>[1] = k
          OBVIOUS
        <4>2. Hopeless(q, <<k>>)
          BY <1>2, <4>1 DEF Hopeless
        <4> QED
          BY <4>1, <4>2
      <3>5. n \in Clients
        BY <3>1, <3>2, <3>3 DEF Clients
      <3>6. /\ n.queue = a.queue /\ n.f = a.f /\ n.blk = a.blk /\ n.destroy = a.destroy
            /\ n.sendingfile = TRUE /\ n.blksize = r.val
            /\ n.currentblockno = 0 /\ n.actualblockno = 0
        BY <3>1, <3>2 DEF Clients
      <3> QED
        BY <2>2, <3>1, <3>4, <3>5, <3>6
    <2> QED
      BY <2>1, <2>2
  <1> HIDE DEF n, k, e
  <1>5. CASE FileExists(r.file)
    <2>1. Looked(c, r) = n
      BY <1>5 DEF Looked, n
    <2> QED
      BY <1>4, <1>5, <2>1 DEF k
  <1>6. CASE ~FileExists(r.file)
    <2> DEFINE l == Error(n, ERROR_NOFILE)
    <2>1. Looked(c, r) = l
      BY <1>6 DEF Looked, n
    <2>2. /\ l \in Clients /\ l.queue = Append(n.queue, e) /\ l.f = n.f
          /\ l.sendingfile = n.sendingfile /\ l.destroy = TRUE /\ l.blk = n.blk /\ l.blksize = n.blksize
          /\ l.currentblockno = n.currentblockno /\ l.actualblockno = n.actualblockno
      BY <1>2, <1>4, ErrorFields DEF e
    <2> HIDE DEF l
    <2>3. n.queue \in Seq(OutPackets)
      BY <1>4 DEF Clients
    <2>4. /\ Hopeless(q, l.queue) /\ l.queue # <<>>
          /\ n.queue = <<>> => l.queue[1].op = "ERROR"
      BY <1>2, <1>4, <2>2, <2>3, HopelessAppend
    <2> QED
      BY <1>4, <1>6, <2>1, <2>2, <2>4
  <1> QED
    BY <1>5, <1>6


\* A request, processed for a client without anything to do.
LEMMA RequestOf ==
    ASSUME NEW q \in Peers, NEW c, Blank(c)
    PROVE  LET b == [c EXCEPT !.waiting = 0]
               r == Plan[q].req
           IN  /\ Blank(b)
               /\ Reads(q) => ProcessPacket(c, r) = OnRrq(b, r)
               /\ ~Reads(q) => ProcessPacket(c, r) = OnWrq(b, r)
  <1> DEFINE b == [c EXCEPT !.waiting = 0]
  <1>1. Blank(b)
    BY DEF Blank, Clients
  <1>2. Plan[q].req.op = "RRQ" \/ Plan[q].req.op = "WRQ"
    BY PlanOf
  <1>3. Plan[q].req.op = "RRQ" => ProcessPacket(c, Plan[q].req) = OnRrq(b, Plan[q].req)
    BY DEF ProcessPacket
  <1>4. Plan[q].req.op = "WRQ" => ProcessPacket(c, Plan[q].req) = OnWrq(b, Plan[q].req)
    BY DEF ProcessPacket
  <1> QED
    BY <1>1, <1>2, <1>3, <1>4 DEF Reads

\* The server turns a request away.
Refusal(q, n) ==
    /\ n.queue # <<>> /\ Hopeless(q, n.queue) /\ n.f.mode # "w"
    /\ n.destroy \/ (~n.sendingfile /\ n.f.mode = "null")

\* An ERROR refuses, whatever has been said before.
LEMMA ErrorRefuses ==
    ASSUME NEW q, NEW c \in Clients, Hopeless(q, c.queue), c.f.mode # "w", NEW code \in Nat
    PROVE  Refusal(q, Error(c, code))
  <1>1. ErrorPacket(code) \in OutPackets /\ ErrorPacket(code).op = "ERROR"
    BY SmallPackets DEF ErrorPacket
  <1>2. c.queue \in Seq(OutPackets)
    BY DEF Clients
  <1>3. Hopeless(q, Append(c.queue, ErrorPacket(code))) /\ Append(c.queue, ErrorPacket(code)) # <<>>
    BY <1>1, <1>2, HopelessAppend
  <1> QED
    BY <1>3, ErrorFields DEF Refusal

\* A request that is not granted is refused.
LEMMA RequestRefused ==
    ASSUME NEW q \in Peers, NEW c, Blank(c), ~Proper(q)
    PROVE  Refusal(q, ProcessPacket(c, Plan[q].req))
  <1> DEFINE b == [c EXCEPT !.waiting = 0]
             r == Plan[q].req
  <1>1. /\ Blank(b) /\ (Reads(q) => ProcessPacket(c, r) = OnRrq(b, r))
        /\ ~Reads(q) => ProcessPacket(c, r) = OnWrq(b, r)
    BY RequestOf
  <1>2. r \in Requests /\ r.file \in File
    BY PlanOf
  <1> HIDE DEF b
  <1>3. ERROR_ILLEGAL \in Nat /\ ERROR_OPTION \in Nat /\ ERROR_NOFILE \in Nat /\ ERROR_NOUSER \in Nat
    BY DEF ERROR_ILLEGAL, ERROR_OPTION, ERROR_NOFILE, ERROR_NOUSER
  <1>4. NullFile.mode = "null"
    BY DEF NullFile
  <1>5. b \in Clients /\ Hopeless(q, b.queue) /\ b.f.mode # "w" /\ b.queue = <<>> /\ b.f = NullFile
    BY <1>1, <1>4 DEF Blank, Hopeless
  <1>6. \A code \in Nat : Refusal(q, Error(b, code))
    BY <1>5, ErrorRefuses
  <1>7. CASE ~Reads(q)
    <2>1. r.mode = "mail" \/ ~OpensForWrite(r.file)
      BY <1>7 DEF Proper
    <2>2. OnWrq(b, r) \in {Error(b, ERROR_ILLEGAL), Error(b, ERROR_NOUSER), Error(b, ERROR_NOFILE)}
      BY <2>1 DEF OnWrq
    <2> QED
      BY <1>1, <1>3, <1>6, <1>7, <2>2
  <1>8. CASE Reads(q) /\ (r.mode = "mail" \/ BadBlksize(r))
    <2>1. OnRrq(b, r) \in {Error(b, ERROR_ILLEGAL), Error(b, ERROR_OPTION)}
      BY <1>8 DEF OnRrq
    <2> QED
      BY <1>1, <1>3, <1>6, <1>8, <2>1
  <1>9. CASE Reads(q) /\ ~(r.mode = "mail" \/ BadBlksize(r))
    <2> DEFINE l == Looked(b, r)
    <2>1. /\ l \in Clients /\ Hopeless(q, l.queue) /\ l.f = NullFile
          /\ ~FileExists(r.file) => l.destroy = TRUE /\ l.queue # <<>>
          /\ r.opt # "blksize" => /\ l.sendingfile = FALSE
                                  /\ FileExists(r.file) => l.queue = <<>>
                                  /\ ~FileExists(r.file) => l.queue[1].op = "ERROR"
          /\ r.opt = "blksize" => l.sendingfile = TRUE
      BY <1>1, <1>9, LookedFields
    <2>2. ~FileExists(r.file) \/ r.opt = "tsize"
      BY <1>9 DEF Proper
    <2>3. l.queue \in Seq(OutPackets)
      BY <2>1 DEF Clients
    <2>4. CASE ~OpensForRead(r.file)
      <3>1. OnRrq(b, r) = Error(l, ERROR_NOFILE)
        BY <1>9, <2>4 DEF OnRrq
      <3> HIDE DEF l
      <3>2. Refusal(q, Error(l, ERROR_NOFILE))
        BY <1>3, <1>4, <2>1, ErrorRefuses
      <3> QED
        BY <1>1, <1>9, <3>1, <3>2
    <2>5. CASE OpensForRead(r.file) /\ r.opt = "tsize"
      <3> DEFINE k == OackPacket("tsize", Readable(r.file))
                 n == QueuePacket(l, k)
      <3>1. OnRrq(b, r) = n
        BY <1>9, <2>5 DEF OnRrq, KeepsFile, OptionAcknowledge
      <3>2. k \in OutPackets /\ k.op = "OACK"
        BY SmallPackets DEF OackPacket, Options
      <3> HIDE DEF l, k, n
      <3>3. n.queue = Append(l.queue, k) /\ n.f = l.f /\ n.sendingfile = FALSE
        BY <2>1, <2>5, <3>2, QueueFields DEF n
      <3>4. l.queue = <<>> \/ (l.queue # <<>> /\ l.queue[1].op = "ERROR")
        BY <2>1, <2>5
      <3>5. Hopeless(q, n.queue) /\ n.queue # <<>>
        BY <1>9, <2>1, <2>3, <3>2, <3>3, <3>4, HopelessAppend
      <3>6. Refusal(q, n)
        BY <1>4, <2>1, <3>3, <3>5 DEF Refusal
      <3> QED
        BY <1>1, <1>9, <3>1, <3>6
    <2>6. CASE OpensForRead(r.file) /\ r.opt # "tsize"
      <3> DEFINE h == [mode |-> "r", file |-> r.file, pos |-> 0]
                 g == [l EXCEPT !.f = h]
                 a == [g EXCEPT !.sendingfile = TRUE, !.currentblockno = 1, !.actualblockno = 1]
      <3>1. OnRrq(b, r) = IF g.sendingfile THEN g ELSE SendData(a, DEFAULT_BLKSIZE)
        BY <1>9, <2>6 DEF OnRrq, KeepsFile
      <3>2. ~FileExists(r.file) /\ Readable(r.file) = 0 /\ h \in Files
        BY <1>2, <2>2, <2>6 DEF FileExists, Readable, Files
      <3> HIDE DEF l, h
      <3>3. /\ g \in Clients /\ g.queue = l.queue /\ g.sendingfile = l.sendingfile
            /\ g.destroy = TRUE /\ g.f = h /\ h.mode = "r"
        BY <2>1, <3>2 DEF Clients, h
      <3>4. CASE r.opt = "blksize"
        <4>1. Refusal(q, g) /\ g.sendingfile
          BY <2>1, <3>2, <3>3, <3>4 DEF Refusal
        <4> QED
          BY <1>1, <1>9, <3>1, <4>1
      <3>5. CASE r.opt # "blksize"
        <4>1. 1 \in 0..Modulus - 1
          BY SmallMod
        <4>2. a \in Clients /\ a.queue = l.queue /\ a.destroy = TRUE /\ a.f = h /\ a.currentblockno = 1
          BY <3>3, <4>1 DEF Clients
        <4> HIDE DEF g, a
        <4> DEFINE x == DataPacket(1, Chunk(r.file, 0, 0))
                   e == [a EXCEPT !.f = Advance(h, 0)]
        <4>3. ReadLen(h, DEFAULT_BLKSIZE) = 0 /\ ReadOff(h) = 0 /\ h.file = r.file
          BY <3>2 DEF h, ReadLen, ReadOff, DEFAULT_BLKSIZE
        <4>4. SendData(a, DEFAULT_BLKSIZE) = QueuePacket(e, x)
          BY <4>2, <4>3 DEF SendData
        <4>5. Advance(h, 0) = h
          BY DEF Advance, h
        <4>6. e \in Clients /\ e.queue = l.queue /\ e.destroy = TRUE /\ e.f = h
          BY <4>2, <4>5, <3>2 DEF Clients
        <4>7. x \in OutPackets /\ x.op = "DATA" /\ x.data.len = 0
          BY <1>2 DEF DataPacket, Chunk, OutPackets, Chunks
        <4> DEFINE n == QueuePacket(e, x)
        <4> HIDE DEF e, x
        <4>8. n.queue = Append(l.queue, x) /\ n.f = h /\ n.destroy = TRUE
          BY <4>6, <4>7, QueueFields
        <4>9. l.queue # <<>> /\ l.queue[1].op = "ERROR"
          BY <2>1, <3>2, <3>5
        <4> HIDE DEF n
        <4>10. Hopeless(q, n.queue) /\ n.queue # <<>>
          BY <2>1, <2>3, <4>7, <4>8, <4>9, HopelessAppend
        <4>11. Refusal(q, n)
          BY <3>3, <4>8, <4>10 DEF Refusal
        <4>12. OnRrq(b, r) = n
          BY <2>1, <3>1, <3>3, <3>5, <4>4 DEF n
        <4> QED
          BY <1>1, <1>9, <4>11, <4>12
      <3> QED
        BY <3>4, <3>5
    <2> QED
      BY <2>4, <2>5, <2>6
  <1> QED
    BY <1>7, <1>8, <1>9

\* A request that is granted begins round 0, or round 1 when the answer is the
\* first block.
LEMMA RequestGranted ==
    ASSUME NEW q \in Peers, NEW c, Blank(c), Proper(q)
    PROVE  LET n == ProcessPacket(c, Plan[q].req)
               k == IF Plain(q) THEN 1 ELSE 0
           IN  /\ Holding(q, k, n) /\ n.destroy = FALSE /\ n.queue = <<ServerPacket(q, k)>>
               /\ Begins(q, k) /\ ~Stops(q, k)
  <1> DEFINE b == [c EXCEPT !.waiting = 0]
             r == Plan[q].req
  <1>1. /\ Blank(b) /\ (Reads(q) => ProcessPacket(c, r) = OnRrq(b, r))
        /\ ~Reads(q) => ProcessPacket(c, r) = OnWrq(b, r)
    BY RequestOf
  <1>2. r \in Requests /\ r.file \in File
    BY PlanOf
  <1> HIDE DEF b
  <1>3. b \in Clients /\ b.queue = <<>> /\ b.f = NullFile /\ b.destroy = FALSE /\ b.blk = 0
    BY <1>1 DEF Blank
  <1>4. Blocksize(q) \in Nat /\ Blocksize(q) >= 8 /\ FileLen(q) \in Nat
    BY ProperSizes
  <1>5. /\ (0 - 1) * Blocksize(q) = -Blocksize(q)
        /\ 0 * Blocksize(q) = 0 /\ (1 - 1) * Blocksize(q) = 0 /\ 1 * Blocksize(q) = Blocksize(q)
    BY <1>4, SMT
  <1>6. Begins(q, 0) /\ Begins(q, 1) /\ ~Ends(q, 0) /\ Upto(q, 0) = 0
    BY <1>4, <1>5 DEF Begins, Ends, Upto
  <1>7. 0 % Modulus = 0 /\ 1 % Modulus = 1 /\ 0 \in 0..Modulus - 1 /\ 1 \in 0..Modulus - 1
    BY SmallMod
  <1>8. CASE ~Reads(q)
    <2> DEFINE h == [mode |-> "w", file |-> r.file, written |-> <<>>]
               a == [b EXCEPT !.f = h, !.currentblockno = 1, !.actualblockno = 1, !.sendingfile = TRUE]
               n == QueuePacket(a, AckPacket(0))
    <2>1. OnWrq(b, r) = n
      <3>1. r.mode # "mail" /\ OpensForWrite(r.file) /\ Kind[r.file] # "denied"
        BY <1>8 DEF Proper, OpensForWrite
      <3> QED
        BY <3>1 DEF OnWrq, Acknowledge
    <2>2. h \in Files /\ Blocks(q, <<>>, 0)
      BY <1>2 DEF Files, Blocks
    <2>3. h.mode = "w" /\ h.file = r.file /\ h.written = <<>>
      OBVIOUS
    <2> HIDE DEF h
    <2>4. a \in Clients /\ a.f = h /\ a.sendingfile = TRUE /\ a.destroy = FALSE /\ a.queue = <<>>
      BY <1>3, <1>7, <2>2 DEF Clients
    <2> HIDE DEF a
    <2>5. AckPacket(0) \in OutPackets
      BY SmallPackets
    <2>6. n.f = h /\ n.sendingfile = TRUE /\ n.destroy = FALSE /\ n.queue = Append(<<>>, AckPacket(0))
      BY <2>4, <2>5, QueueFields
    <2> HIDE DEF n
    <2>7. n.queue = <<ServerPacket(q, 0)>>
      BY <1>7, <1>8, <2>6 DEF ServerPacket
    <2>8. Holding(q, 0, n)
      BY <1>8, <2>2, <2>3, <2>6 DEF Holding
    <2> QED
      BY <1>1, <1>6, <1>8, <2>1, <2>6, <2>7, <2>8 DEF Plain, Stops
  <1>9. CASE Reads(q)
    <2>1. r.mode # "mail" /\ FileExists(r.file) /\ ~BadBlksize(r) /\ r.opt # "tsize"
      BY <1>9 DEF Proper
    <2> DEFINE l == Looked(b, r)
               h == ReadingAt(q, 0)
               g == [l EXCEPT !.f = h]
               a == [g EXCEPT !.sendingfile = TRUE, !.currentblockno = 1, !.actualblockno = 1]
    <2>2. /\ l \in Clients /\ l.blk = 0 /\ l.destroy = FALSE
          /\ r.opt # "blksize" => l.sendingfile = FALSE /\ l.blksize = DEFAULT_BLKSIZE /\ l.queue = <<>>
          /\ r.opt = "blksize" => /\ l.sendingfile = TRUE /\ l.blksize = r.val /\ l.actualblockno = 0
                                  /\ l.queue = <<OackPacket("blksize", r.val)>>
      BY <1>1, <1>9, <2>1, LookedFields
    <2>3. OpensForRead(r.file) /\ h = [mode |-> "r", file |-> r.file, pos |-> 0] /\ h \in Files
      BY <1>2, <1>6, <2>1 DEF FileExists, OpensForRead, ReadingAt, Files
    <2>4. OnRrq(b, r) = IF g.sendingfile THEN g ELSE SendData(a, DEFAULT_BLKSIZE)
      BY <2>1, <2>3 DEF OnRrq, KeepsFile
    <2> HIDE DEF l, h
    <2>5. /\ g \in Clients /\ g.queue = l.queue /\ g.sendingfile = l.sendingfile /\ g.blk = 0
          /\ g.destroy = FALSE /\ g.f = h /\ g.blksize = l.blksize /\ g.actualblockno = l.actualblockno
      BY <2>2, <2>3 DEF Clients
    <2>6. CASE r.opt = "blksize"
      <3>1. Blocksize(q) = r.val /\ ~Plain(q)
        BY <1>9, <2>6 DEF Blocksize, Plain
      <3>2. g.queue = <<ServerPacket(q, 0)>>
        BY <1>9, <2>2, <2>5, <2>6 DEF ServerPacket
      <3>3. Holding(q, 0, g)
        BY <1>9, <2>2, <2>5, <2>6, <3>1 DEF Holding, h
      <3> QED
        BY <1>1, <1>6, <1>9, <2>2, <2>4, <2>5, <2>6, <3>1, <3>2, <3>3 DEF Stops
    <2>7. CASE r.opt # "blksize"
      <3>1. Blocksize(q) = DEFAULT_BLKSIZE /\ Plain(q) /\ DEFAULT_BLKSIZE \in Nat
        BY <1>9, <2>7 DEF Blocksize, Plain, DEFAULT_BLKSIZE
      <3>2. /\ a \in Clients /\ a.queue = <<>> /\ a.sendingfile = TRUE /\ a.blk = 0 /\ a.destroy = FALSE
            /\ a.f = h /\ a.blksize = DEFAULT_BLKSIZE /\ a.actualblockno = 1 /\ a.currentblockno = 1
        BY <1>7, <2>2, <2>5, <2>7 DEF Clients
      <3> HIDE DEF g, a
      <3> DEFINE f1 == FileBlock(q, 0 + 1)
                 x == DataPacket(1, f1)
                 e == [a EXCEPT !.f = ReadingAt(q, 1)]
      <3>3. /\ f1 = Chunk(r.file, 0 * Blocksize(q), f1.len) /\ f1 \in Chunks /\ f1.len \in Nat
            /\ f1.len = (IF 0 * Blocksize(q) + Blocksize(q) <= FileLen(q)
                         THEN Blocksize(q) ELSE FileLen(q) - 0 * Blocksize(q))
            /\ Upto(q, 0 + 1) = 0 * Blocksize(q) + f1.len
        BY <1>6, BlockFacts
      <3>4. f1 = FileBlock(q, 1)
        OBVIOUS
      <3> HIDE DEF f1
      <3>5. /\ f1 = Chunk(r.file, 0, f1.len) /\ Upto(q, 1) = f1.len
            /\ f1.len = (IF 0 + DEFAULT_BLKSIZE <= FileLen(q) THEN DEFAULT_BLKSIZE ELSE FileLen(q) - 0)
        BY <1>4, <1>5, <3>1, <3>3
      <3>6. FileLen(q) = Readable(r.file)
        BY <1>9 DEF FileLen
      <3>7. ReadLen(h, DEFAULT_BLKSIZE) = f1.len /\ ReadOff(h) = 0 /\ h.file = r.file
        BY <2>3, <3>5, <3>6 DEF ReadLen, ReadOff
      <3>8. Advance(h, f1.len) = ReadingAt(q, 1)
        BY <2>3, <3>3, <3>5 DEF Advance, ReadingAt
      <3>9. SendData(a, DEFAULT_BLKSIZE) = QueuePacket(e, x)
        BY <3>2, <3>5, <3>7, <3>8 DEF SendData
      <3>10. ReadingAt(q, 1) \in Files
        BY <1>2, <3>3, <3>5 DEF ReadingAt, Files
      <3>11. x \in OutPackets
        BY <3>3 DEF DataPacket, OutPackets
      <3>12. /\ e \in Clients /\ e.queue = <<>> /\ e.sendingfile = TRUE /\ e.blk = 0 /\ e.destroy = FALSE
             /\ e.f = ReadingAt(q, 1) /\ e.blksize = DEFAULT_BLKSIZE /\ e.actualblockno = 1
        BY <3>2, <3>10 DEF Clients
      <3> HIDE DEF e, x
      <3> DEFINE n == QueuePacket(e, x)
      <3>13. /\ n.queue = Append(<<>>, x) /\ n.sendingfile = TRUE /\ n.blk = 0 /\ n.destroy = FALSE
             /\ n.f = ReadingAt(q, 1) /\ n.blksize = DEFAULT_BLKSIZE /\ n.actualblockno = 1
        BY <3>11, <3>12, QueueFields
      <3> HIDE DEF n
      <3>14. n.queue = <<ServerPacket(q, 1)>>
        BY <1>7, <1>9, <3>4, <3>13 DEF ServerPacket, x
      <3>15. Holding(q, 1, n)
        BY <1>9, <3>1, <3>13 DEF Holding
      <3>16. OnRrq(b, r) = n
        BY <2>2, <2>4, <2>5, <2>7, <3>9 DEF n
      <3> QED
        BY <1>1, <1>6, <1>9, <3>1, <3>13, <3>14, <3>15, <3>16 DEF Stops
    <2> QED
      BY <2>6, <2>7
  <1> QED
    BY <1>8, <1>9


\* The client of a packet other than a request starts with waiting at 0, as it
\* always is.
LEMMA NotWaiting ==
    ASSUME NEW c, Core(c)
    PROVE  [c EXCEPT !.waiting = 0] = c /\ c \in Clients
  BY DEF Core, Clients

\* A client without a transfer takes no notice of an acknowledgement.
LEMMA AckUnnoticed ==
    ASSUME NEW c, Core(c), c.sendingfile = FALSE, NEW p, p.op = "ACK"
    PROVE  ProcessPacket(c, p) = c /\ Survival(c, p) = {TRUE}
  <1>1. ProcessPacket(c, p) = c
    BY NotWaiting DEF ProcessPacket
  <1>2. ~NullAccess(c, p) /\ ~Overruns(c, p) /\ ~PrintsStray(p) /\ ~Aborts(p)
    BY DEF NullAccess, Overruns, PrintsStray, Aborts
  <1> QED
    BY <1>1, <1>2 DEF Survival

\* What fread returns of a block at offset u.
LenAt(q, u) == IF u + Blocksize(q) <= FileLen(q) THEN Blocksize(q) ELSE FileLen(q) - u

\* The client n of q after that, at the end of block k.
Read(q, k, n) ==
    LET len == LenAt(q, Upto(q, k))
    IN  /\ n.sendingfile = TRUE /\ n.actualblockno = k + 1
        /\ n.blksize = Blocksize(q) /\ n.blk = Blocksize(q)
        /\ n.f = [mode |-> "r", file |-> Plan[q].req.file, pos |-> Upto(q, k) + len]
        /\ n.destroy <=> len < Blocksize(q)
        /\ n.queue = <<DataPacket((k + 1) % Modulus, Chunk(Plan[q].req.file, Upto(q, k), len))>>

\* OnAck on a FILE with its position in the file: fread's chunk is queued under
\* the next number.
LEMMA AckReads ==
    ASSUME NEW q \in Peers, Proper(q), Reads(q), NEW k \in Nat,
           NEW c, Core(c), Holding(q, k, c), c.queue = <<>>, c.destroy = FALSE,
           NEW p, p.op = "ACK", Upto(q, k) \in Nat, LenAt(q, Upto(q, k)) \in Nat
    PROVE  Read(q, k, ProcessPacket(c, p)) /\ Survival(c, p) = {TRUE}
  <1> DEFINE B == Blocksize(q)
             L == FileLen(q)
             file == Plan[q].req.file
             u == Upto(q, k)
             len == LenAt(q, u)
             h == [mode |-> "r", file |-> file, pos |-> u + len]
             a == NextBlock(c)
             e == [a EXCEPT !.f = h]
             x == DataPacket((k + 1) % Modulus, Chunk(file, u, len))
             y == QueuePacket(e, x)
             n == [y EXCEPT !.destroy = @ \/ len < B, !.blk = IF @ = 0 THEN B ELSE @]
  <1>1. B \in Nat /\ B >= 8 /\ L \in Nat /\ L = Readable(file) /\ file \in File
    BY ProperSizes, PlanOf DEF FileLen
  <1>2. /\ c \in Clients /\ c.sendingfile /\ c.actualblockno = k /\ c.blksize = B /\ c.blk \in {0, B}
        /\ c.f = [mode |-> "r", file |-> file, pos |-> u] /\ c.currentblockno = k % Modulus
    BY DEF Holding, Core, ReadingAt
  <1>3. /\ ((k % Modulus) + 1) % Modulus = (k + 1) % Modulus
        /\ (k + 1) % Modulus \in 0..Modulus - 1 /\ (k + 1) % Modulus \in Nat /\ k + 1 \in Nat
    <2>1. Modulus \in Nat \ {0, 1}
      BY BoundsAssumption
    <2>2. (k + 1) % Modulus \in 0..Modulus - 1
      BY <2>1, SMT
    <2>3. (k + 1) % Modulus \in Nat
      BY <2>1, <2>2
    <2>4. ((k % Modulus) + 1) % Modulus = (k + 1) % Modulus
      BY <2>1, ModStep
    <2> QED
      BY <2>2, <2>3, <2>4
  <1>4. ProcessPacket(c, p) = OnAck(c)
    BY <1>2, NotWaiting DEF ProcessPacket, NullAccess
  <1>5. ReadLen(c.f, B) = len /\ ReadOff(c.f) = u
    BY <1>1, <1>2 DEF ReadLen, ReadOff, LenAt
  <1> HIDE DEF B, L, file, u, len
  <1>6. Advance(c.f, len) = h
    BY <1>2 DEF Advance
  <1>7. /\ a = [c EXCEPT !.currentblockno = (k + 1) % Modulus, !.actualblockno = k + 1]
    BY <1>2, <1>3 DEF NextBlock
  <1>8. /\ a \in Clients /\ a.f = c.f /\ a.blksize = B /\ a.blk = c.blk /\ a.sendingfile = TRUE
        /\ a.actualblockno = k + 1 /\ a.currentblockno = (k + 1) % Modulus
        /\ a.destroy = FALSE /\ a.queue = <<>>
    BY <1>2, <1>3, <1>7 DEF Clients
  <1> HIDE DEF a, h
  <1>9. SendData(a, B) = y
    BY <1>2, <1>5, <1>6, <1>8 DEF SendData
  <1>10. OnAck(c) = [SendData(a, B) EXCEPT !.destroy = @ \/ ReadLen(c.f, B) < B,
                                          !.blk = IF @ = 0 THEN B ELSE @]
    BY <1>2 DEF OnAck, a
  <1>11. OnAck(c) = n
    BY <1>5, <1>9, <1>10
  <1>12. h \in Files /\ u \in Nat /\ len \in Nat
    <2>1. u \in Nat /\ len \in Nat
      BY DEF u, len
    <2> QED
      BY <1>1, <2>1 DEF h, Files
  <1>13. x \in OutPackets
    BY <1>1, <1>3, <1>12 DEF DataPacket, OutPackets, Chunk, Chunks
  <1>14. /\ e \in Clients /\ e.f = h /\ e.blksize = B /\ e.blk = c.blk /\ e.sendingfile = TRUE
         /\ e.actualblockno = k + 1 /\ e.destroy = FALSE /\ e.queue = <<>>
    BY <1>8, <1>12 DEF Clients
  <1> HIDE DEF e, x
  <1>15. /\ y \in Clients /\ y.f = h /\ y.blksize = B /\ y.blk = c.blk /\ y.sendingfile = TRUE
         /\ y.actualblockno = k + 1 /\ y.destroy = FALSE /\ y.queue = Append(<<>>, x)
    BY <1>13, <1>14, QueueFields
  <1> HIDE DEF y
  <1>16. /\ n.f = h /\ n.blksize = B /\ n.blk = B /\ n.sendingfile = TRUE
         /\ n.actualblockno = k + 1 /\ n.destroy = (len < B) /\ n.queue = <<x>>
    BY <1>1, <1>2, <1>15 DEF Clients
  <1>17. Survival(c, p) = {TRUE}
    <2>1. ~NullAccess(c, p) /\ ~PrintsStray(p) /\ ~Aborts(p)
      BY <1>2 DEF NullAccess, PrintsStray, Aborts
    <2>2. ~Overruns(c, p)
      BY <1>1, <1>2 DEF Overruns
    <2> QED
      BY <2>1, <2>2 DEF Survival
  <1> HIDE DEF n
  <1>18. Read(q, k, n)
    BY <1>16 DEF Read, h, x, B, file, u, len
  <1> QED
    BY <1>4, <1>11, <1>17, <1>18

\* The client n at the beginning of round k + 1.
NextRound(q, k, n) ==
    /\ Holding(q, k + 1, n) /\ (n.destroy <=> Stops(q, k + 1))
    /\ n.queue = <<ServerPacket(q, k + 1)>>

\* An acknowledgement of round k brings on round k + 1.
LEMMA AckAdvances ==
    ASSUME NEW q \in Peers, Proper(q), Reads(q), NEW k \in Nat, ~Ends(q, k), k = 0 => ~Plain(q),
           NEW c, Core(c), Holding(q, k, c), c.queue = <<>>, c.destroy = FALSE,
           NEW p, p.op = "ACK"
    PROVE  NextRound(q, k, ProcessPacket(c, p)) /\ Survival(c, p) = {TRUE}
  <1> DEFINE n == ProcessPacket(c, p)
             b == FileBlock(q, k + 1)
             u == k * Blocksize(q)
  <1>1. /\ u \in Nat /\ Upto(q, k) = u /\ b = Chunk(Plan[q].req.file, u, b.len) /\ b.len \in Nat
        /\ b.len = (IF u + Blocksize(q) <= FileLen(q) THEN Blocksize(q) ELSE FileLen(q) - u)
        /\ b.len < Blocksize(q) <=> Ends(q, k + 1)
        /\ Upto(q, k + 1) = u + b.len
    BY BlockFacts
  <1> HIDE DEF b, u
  <1>8. LenAt(q, Upto(q, k)) = b.len
    BY <1>1 DEF LenAt
  <1> DEFINE len == LenAt(q, Upto(q, k))
  <1>9. Upto(q, k) \in Nat /\ len \in Nat
    BY <1>1, <1>8
  <1>2. /\ n.sendingfile = TRUE /\ n.actualblockno = k + 1 /\ n.blksize = Blocksize(q)
        /\ n.blk = Blocksize(q)
        /\ n.f = [mode |-> "r", file |-> Plan[q].req.file, pos |-> Upto(q, k) + len]
        /\ n.destroy <=> len < Blocksize(q)
        /\ n.queue = <<DataPacket((k + 1) % Modulus, Chunk(Plan[q].req.file, Upto(q, k), len))>>
        /\ Survival(c, p) = {TRUE}
    <2>1. Read(q, k, n) /\ Survival(c, p) = {TRUE}
      BY <1>9, AckReads
    <2> HIDE DEF n
    <2> QED
      BY <2>1 DEF Read
  <1> HIDE DEF n, len
  <1>3. Holding(q, k + 1, n)
    BY <1>1, <1>2, <1>8 DEF Holding, ReadingAt, len
  <1>4. Stops(q, k + 1) <=> Ends(q, k + 1)
    BY DEF Stops
  <1>5. n.destroy <=> Stops(q, k + 1)
    BY <1>1, <1>2, <1>4, <1>8 DEF len
  <1>6. k + 1 # 0 /\ n.queue = <<DataPacket((k + 1) % Modulus, b)>>
    BY <1>1, <1>2, <1>8 DEF len
  <1>7. n.queue = <<ServerPacket(q, k + 1)>>
    BY <1>6 DEF ServerPacket, b
  <1> QED
    BY <1>2, <1>3, <1>5, <1>7 DEF n, NextRound

\* The acknowledgement of a block that was the first and the last makes OnAck
\* read behind the end of the file.
LEMMA AckBehindEnd ==
    ASSUME NEW q \in Peers, Proper(q), Plain(q), Ends(q, 1),
           NEW c, Core(c), Holding(q, 1, c), c.queue = <<>>, c.destroy = FALSE,
           NEW p, p.op = "ACK"
    PROVE  LET n == ProcessPacket(c, p)
           IN  /\ n.destroy /\ n.f.mode = "r" /\ Len(n.queue) = 1
               /\ n.queue[1].op = "DATA" /\ n.queue[1].data.len = 0
               /\ Survival(c, p) = {TRUE}
  <1> DEFINE n == ProcessPacket(c, p)
             L == FileLen(q)
             B == Blocksize(q)
             x == DataPacket((1 + 1) % Modulus, Chunk(Plan[q].req.file, L, 0))
  <1>1. B \in Nat /\ B >= 8 /\ L \in Nat /\ Reads(q)
    BY ProperSizes DEF Plain
  <1>2. 1 * B = B
    BY <1>1, SMT
  <1>3. Upto(q, 1) = L
    BY <1>1, <1>2 DEF Upto, Ends
  <1>4. LenAt(q, Upto(q, 1)) = 0
    BY <1>1, <1>3 DEF LenAt
  <1> DEFINE len == LenAt(q, Upto(q, 1))
  <1>11. Upto(q, 1) \in Nat /\ len \in Nat /\ 1 \in Nat
    BY <1>1, <1>3, <1>4
  <1>12. /\ n.f = [mode |-> "r", file |-> Plan[q].req.file, pos |-> Upto(q, 1) + len]
         /\ n.destroy <=> len < Blocksize(q)
         /\ n.queue = <<DataPacket((1 + 1) % Modulus, Chunk(Plan[q].req.file, Upto(q, 1), len))>>
         /\ Survival(c, p) = {TRUE}
    <2>1. Read(q, 1, n) /\ Survival(c, p) = {TRUE}
      BY <1>1, <1>11, AckReads
    <2> HIDE DEF n
    <2> QED
      BY <2>1 DEF Read
  <1> HIDE DEF n
  <1>5. /\ n.f.mode = "r" /\ n.destroy
        /\ n.queue = <<DataPacket((1 + 1) % Modulus, Chunk(Plan[q].req.file, L, 0))>>
        /\ Survival(c, p) = {TRUE}
    BY <1>1, <1>3, <1>4, <1>12
  <1>6. x.op = "DATA" /\ x.data.len = 0
    BY DEF DataPacket, Chunk
  <1> HIDE DEF x
  <1>7. n.queue = <<x>>
    BY <1>5 DEF x
  <1>8. Len(n.queue) = 1 /\ n.queue[1] = x
    BY <1>7
  <1>9. n.destroy /\ n.f.mode = "r"
    BY <1>1, <1>5
  <1>10. n.queue[1].op = "DATA" /\ n.queue[1].data.len = 0
    BY <1>6, <1>8
  <1> QED
    BY <1>5, <1>8, <1>9, <1>10 DEF n

\* A block of round k brings on round k + 1.
LEMMA DataAdvances ==
    ASSUME NEW q \in Peers, Proper(q), ~Reads(q), NEW k \in Nat, ~Ends(q, k),
           NEW c, Core(c), Holding(q, k, c), c.queue = <<>>, c.destroy = FALSE,
           NEW p, p = PeerPacket(q, k)
    PROVE  /\ NextRound(q, k, ProcessPacket(c, p)) /\ Survival(c, p) = {TRUE}
           /\ p.op = "DATA"
  <1> DEFINE b == FileBlock(q, k + 1)
             w == (k + 1) % Modulus
             h == [c.f EXCEPT !.written = Append(@, b)]
             a == [NextBlock(c) EXCEPT !.f = h]
             y == QueuePacket(a, AckPacket(w))
             n == [y EXCEPT !.destroy = @ \/ b.len < DEFAULT_BLKSIZE]
  <1>1. b \in Chunks /\ b.len \in Nat /\ (b.len < Blocksize(q) <=> Ends(q, k + 1))
    BY BlockFacts
  <1>2. Blocksize(q) = DEFAULT_BLKSIZE
    BY DEF Blocksize
  <1> HIDE DEF b
  <1>3. p.op = "DATA" /\ p.blockno = w /\ p.data = b
    BY DEF PeerPacket, DataPacket, b
  <1>4. /\ c \in Clients /\ c.sendingfile /\ c.f.mode = "w" /\ c.f.file = Plan[q].req.file
        /\ Blocks(q, c.f.written, k)
    BY DEF Holding, Core
  <1>5. Plan[q].req.file \in File
    BY PlanOf
  <1>6. c.f \in [mode : {"w"}, file : File, written : Seq(Chunks)]
    <2>1. c.f \in Files
      BY <1>4 DEF Clients
    <2> QED
      BY <1>4, <2>1 DEF Files, NullFile
  <1> DEFINE t == Append(c.f.written, b)
  <1>7. Blocks(q, t, k + 1) /\ t \in Seq(Chunks)
    <2>1. b = FileBlock(q, k + 1)
      BY DEF b
    <2>2. Blocks(q, c.f.written, k) /\ b \in Chunks /\ c.f.written \in Seq(Chunks)
      BY <1>1, <1>4, <1>6
    <2> QED
      BY <2>1, <2>2, BlocksAppend
  <1> HIDE DEF t
  <1>8. h.mode = "w" /\ h.file = Plan[q].req.file /\ h.written = t /\ h \in Files
    <2>1. h = [c.f EXCEPT !.written = t]
      BY DEF t
    <2> HIDE DEF h
    <2> QED
      BY <1>4, <1>6, <1>7, <2>1 DEF Files
  <1> HIDE DEF h
  <1>9. h \in Files
    BY <1>8
  <1>10. w \in Nat
    BY BoundsAssumption, SMT
  <1>11. ProcessPacket(c, p) = OnData(c, p)
    BY <1>3, <1>4, NotWaiting DEF ProcessPacket, NullAccess
  <1>12. Write(c.f, p.data) = h
    BY <1>3, <1>4 DEF Write, h
  <1>13. OnData(c, p) = n
    BY <1>3, <1>12 DEF OnData, Acknowledge
  <1>14. a \in Clients /\ a.f = h /\ a.sendingfile = TRUE /\ a.destroy = FALSE /\ a.queue = <<>>
    <2>1. (c.currentblockno + 1) % Modulus \in 0..Modulus - 1 /\ c.actualblockno + 1 \in Nat
      <3>1. c.currentblockno \in Nat /\ c.actualblockno \in Nat
        BY <1>4, BoundsAssumption DEF Clients
      <3> QED
        BY <3>1, BoundsAssumption, SMT
    <2> QED
      BY <1>4, <1>9, <2>1 DEF Clients, NextBlock
  <1>15. AckPacket(w) \in OutPackets
    BY <1>10, SmallPackets
  <1> HIDE DEF a, w
  <1>16. /\ y \in Clients /\ y.f = h /\ y.sendingfile = TRUE /\ y.destroy = FALSE
         /\ y.queue = Append(<<>>, AckPacket(w))
    BY <1>14, <1>15, QueueFields
  <1> HIDE DEF y
  <1>17. /\ n.f = h /\ n.sendingfile = TRUE /\ n.destroy = (b.len < DEFAULT_BLKSIZE)
         /\ n.queue = <<AckPacket(w)>>
    BY <1>16 DEF Clients
  <1> HIDE DEF n
  <1>18. Holding(q, k + 1, n)
    BY <1>7, <1>8, <1>17 DEF Holding
  <1>19. n.destroy <=> Stops(q, k + 1)
    BY <1>1, <1>2, <1>17 DEF Stops, Plain
  <1>20. n.queue = <<ServerPacket(q, k + 1)>>
    BY <1>17 DEF ServerPacket, w
  <1>21. Survival(c, p) = {TRUE}
    BY <1>3, <1>4 DEF Survival, NullAccess, Overruns, PrintsStray, Aborts
  <1>22. NextRound(q, k, n)
    BY <1>18, <1>19, <1>20 DEF NextRound
  <1> QED
    BY <1>3, <1>11, <1>13, <1>21, <1>22

-----------------------------------------------------------------------------
(***************************************************************************)
(* The server's steps, from phase to phase.                                *)
(***************************************************************************)

\* A new client has nothing to do.
LEMMA NewIsBlank ==
    ASSUME NEW q \in Peers
    PROVE  LET c == NewClient(Plan[q].fd, Plan[q].src)
           IN  Blank(c) /\ Good(c) /\ Idles(c) /\ Hopeless(q, c.queue) /\ c.f.mode = "null"
  <1> DEFINE c == NewClient(Plan[q].fd, Plan[q].src)
  <1>1. Good(c)
    BY PlanOf, NewClientGood
  <1>2. c \in Clients
    BY <1>1 DEF Good, Core
  <1>3. /\ c.queue = <<>> /\ c.f = NullFile /\ c.sendingfile = FALSE /\ c.destroy = FALSE
        /\ c.blk = 0 /\ c.blksize = DEFAULT_BLKSIZE
    BY DEF NewClient
  <1>4. c.f.mode = "null"
    BY <1>3 DEF NullFile
  <1> HIDE DEF c
  <1>5. Hopeless(q, c.queue)
    BY <1>3 DEF Hopeless
  <1> QED
    BY <1>1, <1>2, <1>3, <1>4, <1>5 DEF Blank, Idles, c

\* What a datagram p of q does: c is the client it finds or gets, e what is on
\* disk afterwards.
Delivered(q, s, m, c, o, d, e, p) ==
    LET n == ProcessPacket(c, p)
    IN  /\ Phase(q, s, m, {n}, o, e) /\ s.st # "absent"
        /\ ~(OpensFile(p) /\ c.f.mode # "null")
        /\ p.op = "WRQ" => p = Plan[q].req
        /\ StrayRead = {TRUE} /\ ~Aborts(Plan[q].req) => Survival(c, p) = {TRUE}

\* The request arrives.
LEMMA AskedDelivered ==
    ASSUME NEW q \in Peers, NEW s, NEW p, NEW C, NEW o, NEW d, Asked(q, s, {p}, C, o, d),
           NEW c, c = NewClient(Plan[q].fd, Plan[q].src),
           NEW e, e = IF p.op = "WRQ" /\ AcceptsWrq(p) THEN <<>> ELSE d
    PROVE  Delivered(q, s, {}, c, o, d, e, p)
  <1> DEFINE n == ProcessPacket(c, p)
             k == IF Plain(q) THEN 1 ELSE 0
  <1>1. /\ s.st = "active" /\ s.next = First(q) /\ s.got = <<>> /\ Untouched(q, d)
        /\ p = Plan[q].req /\ o = <<>>
    BY DEF Asked
  <1>2. Untouched(q, e)
    BY <1>1 DEF Untouched
  <1>3. Blank(c) /\ c.f.mode = "null"
    BY NewIsBlank
  <1>4. p.op \in {"RRQ", "WRQ"} /\ Reads(q) \in BOOLEAN
    BY <1>1, PlanOf
  <1>7. StrayRead = {TRUE} /\ ~Aborts(Plan[q].req) => Survival(c, p) = {TRUE}
    <2>1. p.op \in {"RRQ", "WRQ"}
      BY <1>4
    <2>2. ~NullAccess(c, p) /\ ~Overruns(c, p)
      BY <2>1 DEF NullAccess, Overruns
    <2> QED
      BY <1>1, <2>2 DEF Survival
  <1>5. CASE ~Proper(q)
    <2>1. Refusal(q, n)
      BY <1>1, <1>3, <1>5, RequestRefused
    <2> HIDE DEF n
    <2>2. Hopeless(q, <<>>)
      BY DEF Hopeless
    <2>3. Turned(q, s, {}, {n}, o, e)
      BY <1>1, <1>2, <2>1, <2>2 DEF Refusal, Turned
    <2>4. Phase(q, s, {}, {n}, o, e)
      BY <2>3 DEF Phase
    <2> QED
      BY <1>1, <1>3, <1>7, <2>4 DEF Delivered, n
  <1>6. CASE Proper(q)
    <2>1. /\ Holding(q, k, n) /\ n.destroy = FALSE /\ n.queue = <<ServerPacket(q, k)>>
          /\ Begins(q, k) /\ ~Stops(q, k)
      BY <1>1, <1>3, <1>6, RequestGranted
    <2>2. k \in Nat /\ (k = 0 => ~Plain(q)) /\ (Plain(q) => Reads(q))
      BY DEF Plain
    <2> HIDE DEF n
    <2>3. Waits(q, k, s)
      <3>1. Blocks(q, <<>>, 0) /\ k \in {0, 1}
        BY DEF Blocks
      <3>2. k = 1 => Reads(q) /\ k - 1 = 0
        BY <2>2
      <3> QED
        BY <1>1, <1>4, <3>1, <3>2 DEF Waits, First
    <2> HIDE DEF k
    <2>4. Queued(q, k, s, {}, {n}, o, e)
      BY <1>1, <1>2, <2>1, <2>3 DEF Queued
    <2>5. Phase(q, s, {}, {n}, o, e)
      BY <1>6, <2>1, <2>2, <2>4 DEF Phase, Round
    <2> QED
      BY <1>1, <1>3, <1>7, <2>5 DEF Delivered, n
  <1> QED
    BY <1>5, <1>6

\* An acknowledgement arrives for a client without a transfer, or there is none.
LEMMA IdleDelivered ==
    ASSUME NEW q \in Peers, NEW s, NEW p, NEW C, NEW o, NEW d, NEW c, Good(c),
           \/ Turned(q, s, {p}, C, o, d)
           \/ \E k \in Nat : Proper(q) /\ Begins(q, k) /\ (k = 0 => ~Plain(q))
                             /\ Through(q, k, s, {p}, C, o, d),
           c.sendingfile = FALSE, Idles(c), Hopeless(q, c.queue), C = {} \/ C = {c},
           p.op = "ACK"
    PROVE  Delivered(q, s, {}, c, o, d, d, p)
  <1>1. ProcessPacket(c, p) = c /\ Survival(c, p) = {TRUE}
    BY AckUnnoticed DEF Good
  <1>2. ~OpensFile(p) /\ p.op # "WRQ"
    BY DEF OpensFile
  <1>3. CASE Turned(q, s, {p}, C, o, d)
    <2>1. Turned(q, s, {}, {c}, o, d)
      BY <1>3 DEF Turned, Idles
    <2> QED
      BY <1>1, <1>2, <2>1 DEF Delivered, Phase, Turned
  <1>4. CASE \E k \in Nat : Proper(q) /\ Begins(q, k) /\ (k = 0 => ~Plain(q))
                            /\ Through(q, k, s, {p}, C, o, d)
    <2>1. PICK k \in Nat : Proper(q) /\ Begins(q, k) /\ (k = 0 => ~Plain(q))
                           /\ Through(q, k, s, {p}, C, o, d)
      BY <1>4
    <2>2. Through(q, k, s, {}, {c}, o, d)
      BY <2>1 DEF Through, Trails
    <2>3. Phase(q, s, {}, {c}, o, d) /\ s.st # "absent"
      BY <2>1, <2>2 DEF Phase, Round, Through
    <2> QED
      BY <1>1, <1>2, <2>3 DEF Delivered
  <1> QED
    BY <1>3, <1>4

\* A datagram arrives.
LEMMA DeliverPhase ==
    ASSUME NEW q \in Peers, NEW s, NEW p, NEW C, NEW o, NEW d, Phase(q, s, {p}, C, o, d),
           NEW c, Good(c), C = {c} \/ (C = {} /\ c = NewClient(Plan[q].fd, Plan[q].src)),
           NEW e, e = IF p.op = "WRQ" /\ AcceptsWrq(p) THEN <<>> ELSE d
    PROVE  Delivered(q, s, {}, c, o, d, e, p)
  <1> DEFINE n == ProcessPacket(c, p)
  <1>1. Core(c) /\ c.destroy \in BOOLEAN /\ c.sendingfile \in BOOLEAN /\ (c.destroy => c.queue # <<>>)
    BY DEF Good, Core, Clients
  <1>5. C = {} => Idles(c) /\ Hopeless(q, c.queue) /\ c.sendingfile = FALSE
    <2>1. SUFFICES ASSUME C = {}
                   PROVE  Idles(c) /\ Hopeless(q, c.queue) /\ c.sendingfile = FALSE
      OBVIOUS
    <2>2. c = NewClient(Plan[q].fd, Plan[q].src)
      BY <2>1
    <2>3. Idles(c) /\ Hopeless(q, c.queue)
      BY <2>2, NewIsBlank
    <2> QED
      BY <1>1, <2>3 DEF Idles
  <1>2. CASE Asked(q, s, {p}, C, o, d)
    <2>1. C = {}
      BY <1>2 DEF Asked
    <2> QED
      BY <1>2, <2>1, AskedDelivered
  <1>3. CASE Turned(q, s, {p}, C, o, d)
    <2>1. p.op = "ACK" /\ e = d
      BY <1>3 DEF Turned
    <2>2. CASE C = {}
      BY <1>3, <1>5, <2>1, <2>2, IdleDelivered
    <2>3. CASE C = {c}
      <3>1. c.queue = <<>> /\ Hopeless(q, c.queue) /\ (c.destroy \/ (~c.sendingfile /\ c.f.mode = "null"))
        BY <1>3, <2>3 DEF Turned
      <3>2. Idles(c) /\ c.sendingfile = FALSE
        BY <1>1, <3>1 DEF Idles
      <3> QED
        BY <1>3, <2>1, <2>3, <3>1, <3>2, IdleDelivered
    <2> QED
      BY <2>2, <2>3
  <1>4. CASE Proper(q) /\ \E k \in Nat : Round(q, k, s, {p}, C, o, d)
    <2>1. PICK k \in Nat : Round(q, k, s, {p}, C, o, d)
      BY <1>4
    <2>2. Proper(q) /\ Begins(q, k) /\ (k = 0 => ~Plain(q)) /\ {p} # {}
      BY <1>4, <2>1 DEF Round
    <2>3. CASE Replied(q, k, s, {p}, C, o, d)
      <3>1. /\ ~Ends(q, k) /\ Answered(q, k, s) /\ p = PeerPacket(q, k) /\ o = <<>>
            /\ Leaves(q, k, C, d)
        BY <2>3 DEF Replied
      <3>2. /\ C = {c} /\ Holding(q, k, c) /\ c.destroy = FALSE /\ c.queue = <<>> /\ Untouched(q, d)
        BY <1>1, <3>1 DEF Leaves, Stops
      <3>3. p.op \in {"ACK", "DATA"} /\ (Reads(q) => p.op = "ACK") /\ e = d /\ ~OpensFile(p)
        BY <3>1 DEF PeerPacket, AckPacket, DataPacket, OpensFile
      <3>4. NextRound(q, k, n) /\ Survival(c, p) = {TRUE}
        <4>1. CASE Reads(q)
          BY <1>1, <2>2, <3>1, <3>2, <3>3, <4>1, AckAdvances
        <4>2. CASE ~Reads(q)
          BY <1>1, <2>2, <3>1, <3>2, <4>2, DataAdvances
        <4> QED
          BY <4>1, <4>2
      <3> HIDE DEF n
      <3>5. Waits(q, k + 1, s)
        <4>1. k + 1 # 0 /\ k + 1 - 1 = k
          OBVIOUS
        <4> QED
          BY <3>1, <4>1 DEF Answered, Waits
      <3>6. Queued(q, k + 1, s, {}, {n}, o, d)
        BY <3>1, <3>2, <3>4, <3>5 DEF Queued, NextRound
      <3>7. Begins(q, k + 1) /\ k + 1 \in Nat /\ k + 1 # 0
        BY <2>2, <3>1, BlockFacts
      <3>8. Phase(q, s, {}, {n}, o, d) /\ s.st # "absent"
        BY <2>2, <3>1, <3>6, <3>7 DEF Phase, Round, Answered
      <3> QED
        BY <3>3, <3>4, <3>8 DEF Delivered, n
    <2>4. CASE Through(q, k, s, {p}, C, o, d)
      <3>1. /\ Reads(q) /\ s.st = "done" /\ Ends(q, k) /\ Blocks(q, s.got, k) /\ p.op = "ACK"
            /\ \A x \in C : Trails(q, {p}, x)
        BY <2>4 DEF Through
      <3>2. e = d /\ ~OpensFile(p)
        BY <3>1 DEF OpensFile
      <3>3. CASE C = {}
        BY <1>5, <2>2, <2>4, <3>1, <3>2, <3>3, IdleDelivered
      <3>4. CASE C = {c} /\ Idles(c)
        <4>1. c.sendingfile = FALSE /\ Hopeless(q, c.queue)
          BY <1>1, <3>4 DEF Idles, Hopeless
        <4> QED
          BY <2>2, <2>4, <3>1, <3>2, <3>4, <4>1, IdleDelivered
      <3>5. CASE C = {c} /\ ~Idles(c)
        <4>1. Plain(q) /\ Ends(q, 1) /\ Holding(q, 1, c) /\ c.destroy = FALSE /\ c.queue = <<>>
          BY <1>1, <3>1, <3>5 DEF Trails
        <4>2. /\ n.destroy /\ n.f.mode = "r" /\ Len(n.queue) = 1
              /\ n.queue[1].op = "DATA" /\ n.queue[1].data.len = 0 /\ Survival(c, p) = {TRUE}
          BY <1>1, <2>2, <3>1, <4>1, AckBehindEnd
        <4> HIDE DEF n
        <4>3. Through(q, k, s, {}, {n}, o, d)
          BY <3>1, <4>2 DEF Through, Trails
        <4>4. Phase(q, s, {}, {n}, o, d)
          BY <2>2, <4>3 DEF Phase, Round
        <4> QED
          BY <3>1, <3>2, <4>2, <4>4 DEF Delivered, n
      <3> QED
        BY <3>3, <3>4, <3>5
    <2> QED
      BY <2>1, <2>2, <2>3, <2>4 DEF Round, Queued, Sent
  <1> QED
    BY <1>2, <1>3, <1>4 DEF Phase, Out


\* What SendPackets leaves of a client, and on disk.
Rest(c) == IF c.destroy THEN {} ELSE {[c EXCEPT !.queue = <<>>]}
Saved(c, d) == IF c.destroy /\ c.f.mode = "w" THEN c.f.written ELSE d

\* A client whose queue has been sent.
LEMMA RestFields ==
    ASSUME NEW c \in Clients
    PROVE  LET n == [c EXCEPT !.queue = <<>>]
           IN  /\ n.queue = <<>> /\ n.f = c.f /\ n.sendingfile = c.sendingfile /\ n.destroy = c.destroy
               /\ n.blk = c.blk /\ n.blksize = c.blksize /\ n.actualblockno = c.actualblockno
               /\ c.queue = <<>> => n = c
  BY DEF Clients

\* SendPackets serves the client c of q.
LEMMA SendPhase ==
    ASSUME NEW q \in Peers, NEW s, NEW m, NEW o \in Seq(OutPackets), NEW d, NEW c, Good(c),
           Phase(q, s, m, {c}, o, d)
    PROVE  /\ Phase(q, s, m, Rest(c), o \o c.queue, Saved(c, d)) /\ s.st # "absent"
           /\ c.f.mode = "w" => ~Reads(q) /\ c.f.file = Plan[q].req.file
  <1> DEFINE n == [c EXCEPT !.queue = <<>>]
  <1>1. /\ c \in Clients /\ c.destroy \in BOOLEAN /\ (c.destroy => c.queue # <<>>)
        /\ c.queue \in Seq(OutPackets)
    BY DEF Good, Core, Clients
  <1>2. /\ n.queue = <<>> /\ n.f = c.f /\ n.sendingfile = c.sendingfile /\ n.destroy = c.destroy
        /\ n.blk = c.blk /\ n.blksize = c.blksize /\ n.actualblockno = c.actualblockno
        /\ c.queue = <<>> => n = c
    BY <1>1, RestFields
  <1>3. Rest(c) = IF c.destroy THEN {} ELSE {n}
    BY DEF Rest
  <1> HIDE DEF n
  <1>4. {c} # {} /\ \A x : {c} = {x} => x = c
    OBVIOUS
  <1>5. /\ s.st # "absent"
        /\ c.f.mode = "w" => ~Reads(q) /\ c.f.file = Plan[q].req.file
    <2>1. ASSUME NEW k, Holding(q, k, c)
          PROVE  c.f.mode = "w" => ~Reads(q) /\ c.f.file = Plan[q].req.file
      BY <2>1 DEF Holding, ReadingAt
    <2>2. CASE Turned(q, s, m, {c}, o, d)
      BY <2>2 DEF Turned
    <2>3. CASE \E k \in Nat : Round(q, k, s, m, {c}, o, d)
      <3>1. PICK k \in Nat : Round(q, k, s, m, {c}, o, d)
        BY <2>3
      <3>2. s.st # "absent"
        BY <3>1 DEF Round, Queued, Sent, Replied, Through, Waits, Answered
      <3>3. CASE Through(q, k, s, m, {c}, o, d)
        <4>1. Trails(q, m, c)
          BY <1>4, <3>3 DEF Through
        <4> QED
          BY <2>1, <3>2, <4>1 DEF Trails, Idles
      <3>4. CASE ~Through(q, k, s, m, {c}, o, d)
        <4>1. Holding(q, k, c)
          BY <1>4, <3>1, <3>4 DEF Round, Queued, Sent, Replied, Leaves
        <4> QED
          BY <2>1, <3>2, <4>1
      <3> QED
        BY <3>3, <3>4
    <2> QED
      BY <1>4, <2>2, <2>3 DEF Phase, Out, Asked
  <1>6. CASE c.queue = <<>>
    <2>1. Rest(c) = {c} /\ Saved(c, d) = d
      BY <1>1, <1>2, <1>3, <1>6 DEF Saved
    <2>2. o \o c.queue = o
      BY <1>6
    <2> QED
      BY <1>5, <2>1, <2>2
  <1>7. CASE c.queue # <<>>
    <2>1. CASE Turned(q, s, m, {c}, o, d)
      <3>1. /\ m = {} /\ o = <<>> /\ s.st = "active" /\ Hopeless(q, c.queue) /\ c.f.mode # "w"
            /\ c.destroy \/ (~c.sendingfile /\ c.f.mode = "null")
        BY <1>7, <2>1 DEF Turned
      <3>2. o \o c.queue = c.queue /\ Saved(c, d) = d
        BY <1>1, <3>1 DEF Saved
      <3>3. Hopeless(q, <<>>)
        BY DEF Hopeless
      <3>4. Turned(q, s, m, Rest(c), c.queue, d)
        BY <1>2, <1>3, <1>7, <2>1, <3>1, <3>3 DEF Turned
      <3> QED
        BY <1>5, <3>2, <3>4 DEF Phase
    <2>2. CASE Proper(q) /\ \E k \in Nat : Round(q, k, s, m, {c}, o, d)
      <3>1. PICK k \in Nat : Round(q, k, s, m, {c}, o, d)
        BY <2>2
      <3>2. CASE Queued(q, k, s, m, {c}, o, d)
        <4>1. /\ Waits(q, k, s) /\ m = {} /\ o = <<>> /\ Untouched(q, d) /\ Holding(q, k, c)
              /\ (c.destroy <=> Stops(q, k)) /\ c.queue = <<ServerPacket(q, k)>>
          BY <1>4, <3>2 DEF Queued
        <4>2. o \o c.queue = <<ServerPacket(q, k)>>
          BY <1>1, <4>1
        <4>3. Leaves(q, k, Rest(c), Saved(c, d))
          <5>1. CASE Stops(q, k)
            <6>1. ~Reads(q) => Blocks(q, Saved(c, d), k)
              BY <4>1, <5>1 DEF Saved, Holding
            <6> QED
              BY <1>3, <4>1, <5>1, <6>1 DEF Leaves
          <5>2. CASE ~Stops(q, k)
            <6>1. Rest(c) = {n} /\ Saved(c, d) = d /\ ~n.destroy
              BY <1>2, <1>3, <4>1, <5>2 DEF Saved
            <6>2. Holding(q, k, n)
              BY <1>2, <4>1 DEF Holding
            <6> QED
              BY <1>2, <4>1, <5>2, <6>1, <6>2 DEF Leaves
          <5> QED
            BY <5>1, <5>2
        <4>4. Sent(q, k, s, m, Rest(c), o \o c.queue, Saved(c, d))
          BY <4>1, <4>2, <4>3 DEF Sent
        <4> QED
          BY <1>5, <2>2, <3>1, <4>4 DEF Phase, Round
      <3>3. CASE Through(q, k, s, m, {c}, o, d)
        <4>1. Reads(q) /\ Trails(q, m, c)
          BY <1>4, <3>3 DEF Through
        <4>2. c.destroy /\ c.f.mode = "r"
          BY <1>7, <4>1 DEF Trails, Idles
        <4>3. Rest(c) = {} /\ Saved(c, d) = d
          BY <1>3, <4>2 DEF Saved
        <4>4. Through(q, k, s, m, Rest(c), o \o c.queue, Saved(c, d))
          BY <3>3, <4>1, <4>3 DEF Through
        <4> QED
          BY <1>5, <2>2, <3>1, <4>4 DEF Phase, Round
      <3>4. ASSUME Leaves(q, k, {c}, d) PROVE FALSE
        BY <1>4, <1>7, <3>4 DEF Leaves
      <3> QED
        BY <3>1, <3>2, <3>3, <3>4 DEF Round, Sent, Replied
    <2> QED
      BY <1>4, <2>1, <2>2 DEF Phase, Out, Asked
  <1> QED
    BY <1>6, <1>7

\* What is on disk under the name it asks for does not matter to a reader, nor
\* to a peer that takes no part.
LEMMA DiskPhase ==
    ASSUME NEW q, NEW s, NEW m, NEW C, NEW o, NEW d, NEW e, Phase(q, s, m, C, o, d),
           Reads(q) \/ s.st = "absent"
    PROVE  Phase(q, s, m, C, o, e)
  <1>1. CASE Out(q, s, m, C, o, d)
    <2>1. Out(q, s, m, C, o, e)
      BY <1>1 DEF Out, Untouched
    <2> QED
      BY <2>1 DEF Phase
  <1>2. CASE Asked(q, s, m, C, o, d)
    <2>1. Asked(q, s, m, C, o, e)
      BY <1>2 DEF Asked, Untouched
    <2> QED
      BY <2>1 DEF Phase
  <1>3. CASE Turned(q, s, m, C, o, d)
    <2>1. Turned(q, s, m, C, o, e)
      BY <1>3 DEF Turned, Untouched
    <2> QED
      BY <2>1 DEF Phase
  <1>4. CASE Proper(q) /\ \E k \in Nat : Round(q, k, s, m, C, o, d)
    <2>1. PICK k \in Nat : Round(q, k, s, m, C, o, d)
      BY <1>4
    <2>2. s.st # "absent"
      BY <2>1 DEF Round, Queued, Sent, Replied, Through, Waits, Answered
    <2>3. Untouched(q, d) /\ Untouched(q, e)
      BY <2>2 DEF Untouched
    <2>4. Leaves(q, k, C, d) => Leaves(q, k, C, e)
      BY <2>2, <2>3 DEF Leaves
    <2>5. Round(q, k, s, m, C, o, e)
      BY <2>1, <2>2, <2>3, <2>4 DEF Round, Queued, Sent, Replied, Through
    <2> QED
      BY <1>4, <2>5 DEF Phase
  <1> QED
    BY <1>1, <1>2, <1>3, <1>4 DEF Phase


-----------------------------------------------------------------------------
(***************************************************************************)
(* The channel to a descriptor and the client pool, peer by peer.          *)
(***************************************************************************)

\* A datagram arrives behind the others.
LEMMA FromAppend ==
    ASSUME NEW box \in Seq(Letters), NEW l \in Letters
    PROVE  /\ From(Append(box, l), l.peer) = From(box, l.peer) \union {l.pkt}
           /\ \A q : q # l.peer => From(Append(box, l), q) = From(box, q)
           /\ Lone(box) /\ From(box, l.peer) = {} => Lone(Append(box, l))
  <1> DEFINE a == Append(box, l)
             n == Len(box)
  <1>1. /\ n \in Nat /\ Len(a) = n + 1 /\ a[n + 1] = l
        /\ \A i \in 1..n : a[i] = box[i]
    BY AppendProperties, LenProperties
  <1> HIDE DEF a, n
  <1>2. \A i \in 1..n + 1 : i \in 1..n \/ i = n + 1
    BY <1>1
  <1>3. 1..n \subseteq 1..n + 1 /\ n + 1 \in 1..n + 1 /\ n + 1 \notin 1..n
    BY <1>1
  <1>4. ASSUME NEW q, q # l.peer PROVE From(a, q) = From(box, q)
    <2>1. {j \in 1..n + 1 : a[j].peer = q} = {j \in 1..n : box[j].peer = q}
      BY <1>1, <1>2, <1>3, <1>4
    <2> QED
      BY <1>1, <2>1 DEF From, n
  <1>5. From(a, l.peer) = From(box, l.peer) \union {l.pkt}
    <2>1. {j \in 1..n + 1 : a[j].peer = l.peer} = {j \in 1..n : box[j].peer = l.peer} \union {n + 1}
      BY <1>1, <1>2, <1>3
    <2> QED
      BY <1>1, <2>1 DEF From, n
  <1>6. ASSUME Lone(box), From(box, l.peer) = {} PROVE Lone(a)
    <2>1. \A i \in 1..n : box[i].peer # l.peer
      BY <1>6 DEF From, n
    <2>2. \A i, j \in 1..n : box[i].peer = box[j].peer => i = j
      BY <1>6 DEF Lone, n
    <2> QED
      BY <1>1, <1>2, <2>1, <2>2 DEF Lone
  <1> QED
    BY <1>4, <1>5, <1>6 DEF a

\* The first datagram is read.
LEMMA FromTail ==
    ASSUME NEW box \in Seq(Letters), box # <<>>, Lone(box), NEW l, l = Head(box)
    PROVE  /\ From(box, l.peer) = {l.pkt} /\ From(Tail(box), l.peer) = {}
           /\ \A q : q # l.peer => From(Tail(box), q) = From(box, q)
           /\ Lone(Tail(box))
  <1> DEFINE a == Tail(box)
             n == Len(box)
  <1>1. /\ n \in Nat /\ n > 0 /\ Len(a) = n - 1 /\ l = box[1]
        /\ \A i \in 1..n - 1 : a[i] = box[i + 1]
    BY HeadTailProperties, EmptySeq, LenProperties
  <1>2. \A i, j \in 1..n : box[i].peer = box[j].peer => i = j
    BY DEF Lone
  <1> HIDE DEF a, n
  <1>3. \A i \in 1..n : i = 1 \/ (i - 1 \in 1..n - 1 /\ i - 1 + 1 = i)
    BY <1>1
  <1>4. \A i \in 1..n - 1 : i + 1 \in 1..n /\ i + 1 # 1
    BY <1>1
  <1>5. From(box, l.peer) = {l.pkt}
    <2>1. {j \in 1..n : box[j].peer = l.peer} = {1}
      BY <1>1, <1>2
    <2> QED
      BY <1>1, <2>1 DEF From, n
  <1>6. From(a, l.peer) = {}
    <2>1. \A j \in 1..n - 1 : a[j].peer # l.peer
      BY <1>1, <1>2, <1>4
    <2> QED
      BY <1>1, <2>1 DEF From
  <1>7. ASSUME NEW q, q # l.peer PROVE From(a, q) = From(box, q)
    <2>1. ASSUME NEW x \in From(box, q) PROVE x \in From(a, q)
      <3>1. PICK i \in 1..n : box[i].peer = q /\ x = box[i].pkt
        BY <2>1 DEF From, n
      <3>2. i - 1 \in 1..n - 1 /\ a[i - 1] = box[i]
        BY <1>1, <1>3, <1>7, <3>1
      <3> QED
        BY <1>1, <3>1, <3>2 DEF From
    <2>2. ASSUME NEW x \in From(a, q) PROVE x \in From(box, q)
      <3>1. PICK i \in 1..n - 1 : a[i].peer = q /\ x = a[i].pkt
        BY <1>1, <2>2 DEF From
      <3>2. i + 1 \in 1..n /\ a[i] = box[i + 1]
        BY <1>1, <1>4, <3>1
      <3> QED
        BY <3>1, <3>2 DEF From, n
    <2> QED
      BY <2>1, <2>2
  <1>8. Lone(a)
    <2>1. SUFFICES ASSUME NEW i \in 1..n - 1, NEW j \in 1..n - 1, a[i].peer = a[j].peer PROVE i = j
      BY <1>1 DEF Lone
    <2>2. i + 1 = j + 1
      <3>1. i + 1 \in 1..n /\ j + 1 \in 1..n /\ a[i] = box[i + 1] /\ a[j] = box[j + 1]
        BY <1>1, <1>4
      <3> QED
        BY <1>2, <2>1, <3>1
    <2> QED
      BY <1>1, <2>2
  <1> QED
    BY <1>5, <1>6, <1>7, <1>8 DEF a

\* A new client.
LEMMA OfAppend ==
    ASSUME NEW pool \in Seq(Clients), NEW c \in Clients
    PROVE  /\ \A q : Owns(q, c) => Of(Append(pool, c), q) = Of(pool, q) \union {c}
           /\ \A q : ~Owns(q, c) => Of(Append(pool, c), q) = Of(pool, q)
  <1> DEFINE a == Append(pool, c)
             n == Len(pool)
  <1>1. /\ n \in Nat /\ Len(a) = n + 1 /\ a[n + 1] = c
        /\ \A i \in 1..n : a[i] = pool[i]
    BY AppendProperties, LenProperties
  <1> HIDE DEF a, n
  <1>2. \A i \in 1..n + 1 : i \in 1..n \/ i = n + 1
    BY <1>1
  <1>3. 1..n \subseteq 1..n + 1 /\ n + 1 \in 1..n + 1 /\ n + 1 \notin 1..n
    BY <1>1
  <1>4. ASSUME NEW q, ~Owns(q, c) PROVE Of(a, q) = Of(pool, q)
    <2>1. {j \in 1..n + 1 : Owns(q, a[j])} = {j \in 1..n : Owns(q, pool[j])}
      BY <1>1, <1>2, <1>3, <1>4
    <2> QED
      BY <1>1, <2>1 DEF Of, n
  <1>5. ASSUME NEW q, Owns(q, c) PROVE Of(a, q) = Of(pool, q) \union {c}
    <2>1. {j \in 1..n + 1 : Owns(q, a[j])} = {j \in 1..n : Owns(q, pool[j])} \union {n + 1}
      BY <1>1, <1>2, <1>3, <1>5
    <2> QED
      BY <1>1, <2>1 DEF Of, n
  <1> QED
    BY <1>4, <1>5 DEF a

\* The client at k is that of q alone, and q has no other.
Only(q, pool, k) ==
    /\ Owns(q, pool[k])
    /\ \A j \in 1..Len(pool) : Owns(q, pool[j]) => j = k

\* A client changes.
Replaced(q, pool, k, c) ==
    LET a == [pool EXCEPT ![k] = c]
    IN  /\ Of(pool, q) = {pool[k]} /\ Of(a, q) = {c}
        /\ \A r : ~Owns(r, pool[k]) => Of(a, r) = Of(pool, r)

\* What a client that changes leaves of the rest of its pool.
LEMMA OfUpdate ==
    ASSUME NEW pool \in Seq(Clients), NEW k \in 1..Len(pool), NEW q, Only(q, pool, k),
           NEW c, SameOwner(c, pool[k])
    PROVE  Replaced(q, pool, k, c)
  <1> DEFINE a == [pool EXCEPT ![k] = c]
             n == Len(pool)
  <1>1. /\ Len(a) = n /\ a[k] = c /\ k \in 1..n
        /\ \A i \in 1..n : i # k => a[i] = pool[i]
    BY ExceptSeq
  <1>2. \A r : Owns(r, c) <=> Owns(r, pool[k])
    BY DEF Owns, SameOwner
  <1> HIDE DEF a, n
  <1>3. Of(pool, q) = {pool[k]} /\ Of(a, q) = {c}
    <2>1. {j \in 1..n : Owns(q, pool[j])} = {k} /\ {j \in 1..n : Owns(q, a[j])} = {k}
      BY <1>1, <1>2 DEF Only, n
    <2> QED
      BY <1>1, <2>1 DEF Of, n
  <1>4. ASSUME NEW r, ~Owns(r, pool[k]) PROVE Of(a, r) = Of(pool, r)
    <2>1. {j \in 1..n : Owns(r, a[j])} = {j \in 1..n : Owns(r, pool[j])}
      BY <1>1, <1>2, <1>4
    <2>2. \A j \in 1..n : Owns(r, pool[j]) => a[j] = pool[j]
      BY <1>1, <1>4
    <2> QED
      BY <1>1, <2>1, <2>2 DEF Of, n
  <1> QED
    BY <1>3, <1>4 DEF Replaced, a

\* A client goes.
LEMMA OfRemove ==
    ASSUME NEW pool \in Seq(Clients), NEW k \in 1..Len(pool), NEW q, Only(q, pool, k)
    PROVE  LET a == RemoveAt(pool, k)
           IN  /\ Of(pool, q) = {pool[k]} /\ Of(a, q) = {}
               /\ \A r : ~Owns(r, pool[k]) => Of(a, r) = Of(pool, r)
  <1> DEFINE a == RemoveAt(pool, k)
             n == Len(pool)
  <1>1. /\ n \in Nat /\ Len(a) = n - 1 /\ k \in 1..n
        /\ \A j \in 1..n - 1 : a[j] = IF j < k THEN pool[j] ELSE pool[j + 1]
    BY RemoveAtProperties, LenProperties
  <1>2. \A j \in 1..n : Owns(q, pool[j]) <=> j = k
    BY DEF Only
  <1> HIDE DEF a, n
  <1>3. Of(pool, q) = {pool[k]}
    <2>1. {j \in 1..n : Owns(q, pool[j])} = {k}
      BY <1>1, <1>2
    <2> QED
      BY <2>1 DEF Of, n
  <1>4. \A j \in 1..n - 1 : \E i \in 1..n : i # k /\ a[j] = pool[i]
    <2>1. TAKE j \in 1..n - 1
    <2>2. CASE j < k
      BY <1>1, <2>2
    <2>3. CASE ~(j < k)
      <3>1. j + 1 \in 1..n /\ j + 1 # k /\ a[j] = pool[j + 1]
        BY <1>1, <2>3
      <3> QED
        BY <3>1
    <2> QED
      BY <2>2, <2>3
  <1>5. \A i \in 1..n : i # k => \E j \in 1..n - 1 : a[j] = pool[i]
    <2>1. SUFFICES ASSUME NEW i \in 1..n, i # k PROVE \E j \in 1..n - 1 : a[j] = pool[i]
      OBVIOUS
    <2>2. CASE i < k
      <3>1. i \in 1..n - 1 /\ a[i] = pool[i]
        BY <1>1, <2>2
      <3> QED
        BY <3>1
    <2>3. CASE i > k
      <3>1. i - 1 \in 1..n - 1 /\ a[i - 1] = pool[i - 1 + 1] /\ i - 1 + 1 = i
        BY <1>1, <2>3
      <3> QED
        BY <3>1
    <2> QED
      BY <1>1, <2>1, <2>2, <2>3
  <1>6. Of(a, q) = {}
    <2>1. \A j \in 1..n - 1 : ~Owns(q, a[j])
      BY <1>2, <1>4
    <2> QED
      BY <1>1, <2>1 DEF Of
  <1>7. ASSUME NEW r, ~Owns(r, pool[k]) PROVE Of(a, r) = Of(pool, r)
    <2>1. ASSUME NEW x \in Of(a, r) PROVE x \in Of(pool, r)
      <3>1. PICK j \in 1..n - 1 : Owns(r, a[j]) /\ x = a[j]
        BY <1>1, <2>1 DEF Of
      <3>2. PICK i \in 1..n : a[j] = pool[i]
        BY <1>4
      <3> QED
        BY <3>1, <3>2 DEF Of, n
    <2>2. ASSUME NEW x \in Of(pool, r) PROVE x \in Of(a, r)
      <3>1. PICK i \in 1..n : Owns(r, pool[i]) /\ x = pool[i]
        BY <2>2 DEF Of, n
      <3>2. PICK j \in 1..n - 1 : a[j] = pool[i]
        BY <1>5, <1>7, <3>1
      <3> QED
        BY <1>1, <3>1, <3>2 DEF Of
    <2> QED
      BY <2>1, <2>2
  <1> QED
    BY <1>3, <1>6, <1>7 DEF a


-----------------------------------------------------------------------------
(***************************************************************************)
(* A step of one peer leaves the transfers of the others alone.            *)
(***************************************************************************)

\* A peer with nothing on its way sends a packet.
LEMMA MailSent ==
    ASSUME NetInv, Once, NEW q \in Peers, NEW p \in InPackets, SendTo(q, p), Mail(q) = {}
    PROVE  /\ Mail(q)' = {p} /\ \A r \in Peers : r # q => Mail(r)' = Mail(r)
           /\ Once'
  <1> DEFINE fd == Plan[q].fd
             l  == [peer |-> q, pkt |-> p]
             a  == Append(inbox[fd], l)
  <1>1. fd \in Fd /\ l \in Letters /\ l.peer = q /\ l.pkt = p
    BY PlanOf DEF Letters
  <1>2. inbox \in [Fd -> Seq(Letters)] /\ inbox[fd] \in Seq(Letters) /\ Lone(inbox[fd])
    BY <1>1 DEF NetInv, Once
  <1>3. inbox' = [inbox EXCEPT ![fd] = a]
    BY DEF SendTo
  <1> HIDE DEF l, fd
  <1>4. From(inbox[fd], q) = {}
    BY DEF Mail, fd
  <1>5. /\ From(a, q) = {p}
        /\ \A r : r # q => From(a, r) = From(inbox[fd], r)
        /\ Lone(a)
    <2>1. /\ From(a, l.peer) = From(inbox[fd], l.peer) \union {l.pkt}
          /\ \A r : r # l.peer => From(a, r) = From(inbox[fd], r)
          /\ Lone(inbox[fd]) /\ From(inbox[fd], l.peer) = {} => Lone(a)
      BY <1>1, <1>2, FromAppend
    <2> QED
      BY <1>1, <1>2, <1>4, <2>1
  <1> HIDE DEF a
  <1>6. inbox'[fd] = a /\ \A x \in Fd : x # fd => inbox'[x] = inbox[x]
    BY <1>1, <1>2, <1>3
  <1>7. Mail(q)' = {p}
    BY <1>5, <1>6 DEF Mail, fd
  <1>8. ASSUME NEW r \in Peers, r # q PROVE Mail(r)' = Mail(r)
    <2>1. Plan[r].fd \in Fd
      BY PlanOf
    <2>2. CASE Plan[r].fd = fd
      BY <1>5, <1>6, <1>8, <2>2 DEF Mail
    <2>3. CASE Plan[r].fd # fd
      BY <1>6, <2>1, <2>3 DEF Mail
    <2> QED
      BY <2>2, <2>3
  <1>9. Once'
    BY <1>5, <1>6 DEF Once
  <1> QED
    BY <1>7, <1>8, <1>9

\* The clients of a phase are in the pool.
LEMMA MineInPool ==
    ASSUME SInv, NEW q
    PROVE  \A c \in Mine(q) : \E i \in 1..Len(clientpool) : c = clientpool[i] /\ Owns(q, c)
  <1>1. clientpool \in Seq(Clients) /\ Len(clientpool) \in Nat /\ Reaping
    BY LenProperties DEF SInv, PInv, LInv, IInv, TypeOK
  <1>2. CASE pc # "reap"
    BY <1>2 DEF Mine, Pool, Of
  <1>3. CASE pc = "reap"
    <2>1. cidx \in 1..Len(clientpool) /\ Pool = RemoveAt(clientpool, cidx)
      BY <1>1, <1>3 DEF Reaping, Pool
    <2>2. /\ Len(Pool) = Len(clientpool) - 1
          /\ \A j \in 1..Len(clientpool) - 1 :
                Pool[j] = IF j < cidx THEN clientpool[j] ELSE clientpool[j + 1]
      BY <1>1, <2>1, RemoveAtProperties
    <2>3. \A j \in 1..Len(Pool) : \E i \in 1..Len(clientpool) : Pool[j] = clientpool[i]
      BY <1>1, <2>1, <2>2
    <2> QED
      BY <2>3 DEF Mine, Of
  <1> QED
    BY <1>2, <1>3

\* What peer q does that keeps its own transfer in a phase, m being its mail
\* afterwards, keeps all of them in one.
Posts(q, m) ==
    \/ inbox' = inbox /\ m = Mail(q)
    \/ /\ SendTo(q, peer'[q].last) /\ peer'[q].last \in InPackets
       /\ Mail(q) = {} /\ m = {peer'[q].last}

\* The other transfers keep their phase when one peer acts.
LEMMA PeerFrame ==
    ASSUME SInv, LockInv, NEW q \in Peers, PeerActs(q, peer'[q]),
           peer'[q].st = "absent" <=> peer[q].st = "absent", NEW m, Posts(q, m),
           Phase(q, peer'[q], m, Mine(q), outbox'[q], Disk[Plan[q].req.file])
    PROVE  /\ LockInv' /\ Mail(q)' = m
           /\ \A r \in Peers : r # q => peer'[r] = peer[r] /\ Mail(r)' = Mail(r)
  <1>1. /\ NetInv /\ Once /\ InCast /\ Known /\ ReapsOwn /\ leaked = 0
        /\ \A r \in Peers : InPhase(r)
    BY DEF SInv, LockInv
  <1>2. /\ \A r \in Peers : r # q => peer'[r] = peer[r] /\ outbox'[r] = outbox[r]
        /\ UNCHANGED <<clientpool, disk, leaked, pc, cidx>>
    BY <1>1 DEF NetInv, PeerActs, PeerTakes, vars
  <1>3. /\ Mail(q)' = m /\ Once'
        /\ \A r \in Peers : r # q => Mail(r)' = Mail(r)
    <2>1. CASE inbox' = inbox /\ m = Mail(q)
      BY <1>1, <2>1 DEF Mail, Once
    <2>2. CASE /\ SendTo(q, peer'[q].last) /\ peer'[q].last \in InPackets
               /\ Mail(q) = {} /\ m = {peer'[q].last}
      <3> DEFINE p == peer'[q].last
      <3>1. SendTo(q, p) /\ p \in InPackets /\ m = {p} /\ Mail(q) = {}
        BY <2>2
      <3> HIDE DEF p
      <3> QED
        BY <1>1, <3>1, MailSent
    <2> QED
      BY <2>1, <2>2 DEF Posts
  <1>4. \A r \in Peers : Mine(r)' = Mine(r)
    BY <1>2 DEF Mine, Pool
  <1>8. Disk' = Disk
    BY <1>2 DEF Disk
  <1>5. ASSUME NEW r \in Peers PROVE InPhase(r)'
    <2>1. CASE r = q
      BY <1>2, <1>3, <1>4, <1>8, <2>1 DEF InPhase
    <2>2. CASE r # q
      <3>1. Phase(r, peer[r], Mail(r), Mine(r), outbox[r], Disk[Plan[r].req.file])
        BY <1>1 DEF InPhase
      <3>2. peer'[r] = peer[r] /\ Mail(r)' = Mail(r) /\ Mine(r)' = Mine(r) /\ outbox'[r] = outbox[r]
            /\ Disk' = Disk
        BY <1>2, <1>3, <1>4, <1>8, <2>2
      <3> QED
        BY <3>1, <3>2 DEF InPhase
    <2> QED
      BY <2>1, <2>2
  <1>6. \A r \in Peers : peer'[r].st = "absent" <=> peer[r].st = "absent"
    BY <1>2
  <1>7. InCast' /\ Known' /\ ReapsOwn'
    BY <1>1, <1>2, <1>6 DEF InCast, Known, ReapsOwn
  <1> QED
    BY <1>1, <1>2, <1>3, <1>5, <1>7 DEF LockInv


\* A step of a peer starts from its phase and leaves a well-formed state.
LEMMA PeerBegins ==
    ASSUME SInv, LockInv, NEW q \in Peers, PeerRequest(q) \/ PeerStep(q) \/ PeerTimeout(q)
    PROVE  /\ PeerActs(q, peer'[q]) /\ peer'[q] \in PeerStates /\ Speaks(peer'[q])
           /\ peer[q] \in PeerStates /\ Speaks(peer[q]) /\ outbox[q] \in Seq(OutPackets)
           /\ Phase(q, peer[q], Mail(q), Mine(q), outbox[q], Disk[Plan[q].req.file])
  <1>1. NetInv /\ InPhase(q)
    BY DEF SInv, LockInv
  <1>2. PICK s \in PeerStates : Speaks(s) /\ PeerActs(q, s)
    BY <1>1, PeerGood
  <1>3. peer'[q] = s
    BY <1>1, <1>2 DEF NetInv, PeerActs
  <1> QED
    BY <1>1, <1>2, <1>3 DEF NetInv, InPhase

\* A peer that sends a packet.
LEMMA SendsFields ==
    ASSUME NetInv, NEW q \in Peers, NEW p, NEW state \in PeerStates, PeerSends(q, p, state)
    PROVE  /\ SendTo(q, p) /\ peer'[q].last = p
           /\ peer'[q].st = state.st /\ peer'[q].next = state.next /\ peer'[q].got = state.got
  <1>1. peer'[q] = [state EXCEPT !.last = p] /\ SendTo(q, p)
    BY DEF NetInv, PeerSends
  <1> QED
    BY <1>1 DEF PeerStates

\* What a peer has and whether it was refused: unchanged; or one block more; or
\* refused with nothing.
Stays(q) ==
    /\ peer'[q].got = peer[q].got
    /\ peer'[q].st = "refused" <=> peer[q].st = "refused"
Gains(q) ==
    /\ Reads(q) /\ Proper(q) /\ peer[q].st = "active" /\ peer'[q].st \in {"active", "done"}
    /\ OneMore(q, peer[q], peer'[q])
Yields(q) ==
    /\ peer[q].st = "active" /\ peer'[q].st = "refused" /\ peer'[q].got = peer[q].got
    /\ Turned(q, peer[q], Mail(q), Mine(q), outbox[q], Disk[Plan[q].req.file])

Progress(q) ==
    /\ Stays(q) \/ Gains(q) \/ Yields(q)
    /\ peer'[q].st = "absent" <=> peer[q].st = "absent"
    /\ \A r \in Peers : r # q => peer'[r] = peer[r] /\ Mail(r)' = Mail(r)
    /\ UNCHANGED vars

\* The request.
LEMMA RequestLock ==
    ASSUME SInv, LockInv, NEW q \in Peers, PeerRequest(q)
    PROVE  LockInv' /\ Progress(q)
  <1> DEFINE s == peer[q]
             state == [s EXCEPT !.st = "active", !.next = IF Reads(q) THEN 1 ELSE 0]
             t == peer'[q]
             d == Disk[Plan[q].req.file]
  <1>1. /\ PeerActs(q, t) /\ s \in PeerStates /\ outbox[q] \in Seq(OutPackets)
        /\ Phase(q, s, Mail(q), Mine(q), outbox[q], d)
    BY PeerBegins
  <1>2. /\ s.st = "start" /\ PeerSends(q, Plan[q].req, state) /\ outbox' = outbox
        /\ UNCHANGED vars
    BY DEF PeerRequest
  <1>3. /\ state \in PeerStates /\ state.st = "active" /\ state.next = First(q) /\ state.got = s.got
    BY <1>1 DEF PeerStates, First
  <1> HIDE DEF state
  <1>4. /\ SendTo(q, Plan[q].req) /\ t.last = Plan[q].req
        /\ t.st = "active" /\ t.next = First(q) /\ t.got = s.got
    BY <1>2, <1>3, SendsFields DEF SInv
  <1>5. Plan[q].req \in InPackets
    BY PlanOf DEF InPackets
  <1> HIDE DEF s, t, d
  <1>6. Mail(q) = {} /\ Phase(q, t, {Plan[q].req}, Mine(q), outbox'[q], d)
    BY <1>1, <1>2, <1>4, RequestPhase
  <1>7. Posts(q, {Plan[q].req})
    BY <1>4, <1>5, <1>6 DEF Posts, t
  <1>8. /\ LockInv' /\ \A r \in Peers : r # q => peer'[r] = peer[r] /\ Mail(r)' = Mail(r)
    BY <1>1, <1>2, <1>4, <1>6, <1>7, PeerFrame DEF s, t, d
  <1> QED
    BY <1>2, <1>4, <1>8 DEF Progress, Stays, s, t

\* A block for a reader.
LEMMA ReadsLock ==
    ASSUME SInv, LockInv, NEW q \in Peers, PeerReads(q)
    PROVE  LockInv' /\ Progress(q)
  <1> DEFINE s == peer[q]
             o == outbox[q]
             p == Head(o)
             state == [s EXCEPT !.next = @ + 1, !.got = Append(@, p.data),
                                !.st = IF p.data.len < Blocksize(q) THEN "done" ELSE @]
             t == peer'[q]
             d == Disk[Plan[q].req.file]
             a == AckPacket(p.blockno)
  <1>0. NetInv
    BY DEF SInv
  <1>1. /\ PeerActs(q, t) /\ s \in PeerStates /\ o \in Seq(OutPackets)
        /\ Phase(q, s, Mail(q), Mine(q), o, d)
    BY PeerBegins DEF PeerStep
  <1>2. /\ Reads(q) /\ s.st = "active" /\ PeerTakes(q) /\ o # <<>> /\ p.op = "DATA"
        /\ PeerSends(q, a, state) /\ UNCHANGED vars
    BY DEF PeerReads, PeerTakes, Wanted
  <1>3. outbox'[q] = Tail(o)
    BY <1>0, <1>2 DEF PeerTakes, NetInv
  <1>4. p.blockno \in Nat /\ p.data \in Chunks
    BY <1>0, <1>2, HeadGood
  <1> HIDE DEF p
  <1>5. /\ state \in PeerStates /\ state.next = s.next + 1 /\ state.got = Append(s.got, p.data)
        /\ state.st = IF p.data.len < Blocksize(q) THEN "done" ELSE "active"
    <2>1. s.next + 1 \in Nat /\ Append(s.got, p.data) \in Seq(Chunks)
      BY <1>1, <1>4, AppendProperties DEF PeerStates
    <2> QED
      BY <1>1, <1>2, <2>1 DEF PeerStates
  <1> HIDE DEF state, a
  <1>6. /\ SendTo(q, a) /\ t.last = a
        /\ t.st = state.st /\ t.next = state.next /\ t.got = state.got
    BY <1>0, <1>2, <1>5, SendsFields
  <1> HIDE DEF s, t, d, o
  <1>7. /\ Mail(q) = {} /\ Phase(q, t, {a}, Mine(q), Tail(o), d)
        /\ Proper(q) /\ OneMore(q, s, t)
    <2>1. Keeps(q, s, p, t)
      BY <1>5, <1>6 DEF Keeps
    <2> QED
      BY <1>1, <1>2, <2>1, ReadsPhase DEF a, p
  <1>8. t.st \in {"active", "done"}
    BY <1>5, <1>6
  <1>9. Posts(q, {a})
    <2>1. a \in InPackets
      BY <1>4, AckIsInbound DEF a
    <2> QED
      BY <1>6, <1>7, <2>1 DEF Posts, t
  <1>10. /\ LockInv' /\ \A r \in Peers : r # q => peer'[r] = peer[r] /\ Mail(r)' = Mail(r)
    BY <1>1, <1>2, <1>3, <1>7, <1>8, <1>9, PeerFrame DEF s, t, d
  <1> QED
    BY <1>2, <1>7, <1>8, <1>10 DEF Progress, Gains, s, t

\* An acknowledgement for a writer.
LEMMA WritesLock ==
    ASSUME SInv, LockInv, NEW q \in Peers, PeerWrites(q)
    PROVE  LockInv' /\ Progress(q)
  <1> DEFINE s == peer[q]
             o == outbox[q]
             n == s.next + 1
             state == [s EXCEPT !.next = n]
             t == peer'[q]
             d == Disk[Plan[q].req.file]
             b == DataPacket(n % Modulus, FileBlock(q, n))
             m == Written(q, n)
  <1>0. NetInv
    BY DEF SInv
  <1>1. /\ PeerActs(q, t) /\ s \in PeerStates /\ o \in Seq(OutPackets) /\ Speaks(t)
        /\ Phase(q, s, Mail(q), Mine(q), o, d)
    BY PeerBegins DEF PeerStep
  <1>2. /\ ~Reads(q) /\ s.st = "active" /\ PeerTakes(q) /\ o # <<>> /\ Head(o).op = "ACK"
        /\ n > FinalBlock(q) => peer' = [peer EXCEPT ![q].st = "done"] /\ inbox' = inbox
        /\ ~(n > FinalBlock(q)) => PeerSends(q, b, state)
        /\ UNCHANGED vars
    BY DEF PeerWrites, PeerTakes, Wanted
  <1>3. outbox'[q] = Tail(o)
    BY <1>0, <1>2 DEF PeerTakes, NetInv
  <1>4. n \in Nat
    BY <1>1 DEF PeerStates
  <1>5. /\ n > FinalBlock(q) => t.st = "done" /\ t.got = s.got /\ inbox' = inbox
    BY <1>0, <1>1, <1>2 DEF NetInv, PeerStates
  <1>6. ~(n > FinalBlock(q)) => /\ SendTo(q, b) /\ t.last = b
                                /\ t.st = "active" /\ t.next = n /\ t.got = s.got
    <2>1. state \in PeerStates /\ state.st = s.st /\ state.next = n /\ state.got = s.got
      BY <1>1, <1>4 DEF PeerStates
    <2> HIDE DEF state, n, b, s
    <2> QED
      BY <1>0, <1>2, <2>1, SendsFields
  <1>7. GoesOn(q, s, n, t)
    BY <1>5, <1>6 DEF GoesOn
  <1> HIDE DEF s, t, d, o, b, state
  <1>8. Mail(q) = {} /\ Phase(q, t, m, Mine(q), Tail(o), d)
    BY <1>1, <1>2, <1>7, WritesPhase
  <1> HIDE DEF n
  <1>9. (n > FinalBlock(q) => m = {}) /\ (~(n > FinalBlock(q)) => m = {b})
    BY DEF Written, b
  <1> HIDE DEF m
  <1>10. Posts(q, m)
    <2>1. ~(n > FinalBlock(q)) => b \in InPackets
      BY <1>1, <1>6 DEF Speaks
    <2> QED
      BY <1>5, <1>6, <1>8, <1>9, <2>1 DEF Posts, t
  <1>11. t.st \in {"active", "done"} /\ t.got = s.got
    BY <1>5, <1>6
  <1>12. /\ LockInv' /\ \A r \in Peers : r # q => peer'[r] = peer[r] /\ Mail(r)' = Mail(r)
    BY <1>1, <1>2, <1>3, <1>8, <1>10, <1>11, PeerFrame DEF s, t, d
  <1> QED
    BY <1>2, <1>11, <1>12 DEF Progress, Stays, s, t


\* An acknowledgement of its option for a reader.
LEMMA ConfirmsLock ==
    ASSUME SInv, LockInv, NEW q \in Peers, PeerConfirms(q)
    PROVE  LockInv' /\ Progress(q)
  <1> DEFINE s == peer[q]
             o == outbox[q]
             t == peer'[q]
             d == Disk[Plan[q].req.file]
             a == AckPacket(0)
  <1>0. NetInv
    BY DEF SInv
  <1>1. /\ PeerActs(q, t) /\ s \in PeerStates /\ o \in Seq(OutPackets)
        /\ Phase(q, s, Mail(q), Mine(q), o, d)
    BY PeerBegins DEF PeerStep
  <1>2. /\ Reads(q) /\ s.st = "active" /\ PeerTakes(q) /\ o # <<>> /\ Head(o).op = "OACK"
        /\ PeerSends(q, a, s) /\ UNCHANGED vars
    BY DEF PeerConfirms, PeerTakes
  <1>3. outbox'[q] = Tail(o)
    BY <1>0, <1>2 DEF PeerTakes, NetInv
  <1> HIDE DEF a
  <1>4. /\ SendTo(q, a) /\ t.last = a
        /\ t.st = s.st /\ t.next = s.next /\ t.got = s.got
    BY <1>0, <1>1, <1>2, SendsFields
  <1>5. a \in InPackets
    BY AckIsInbound DEF a
  <1> HIDE DEF s, t, d, o
  <1>6. Mail(q) = {} /\ Phase(q, t, {a}, Mine(q), Tail(o), d)
    BY <1>1, <1>2, <1>4, ConfirmsPhase DEF a
  <1>7. Posts(q, {a})
    BY <1>4, <1>5, <1>6 DEF Posts, t
  <1>8. /\ LockInv' /\ \A r \in Peers : r # q => peer'[r] = peer[r] /\ Mail(r)' = Mail(r)
    BY <1>1, <1>3, <1>4, <1>6, <1>7, PeerFrame DEF s, t, d
  <1> QED
    BY <1>2, <1>4, <1>8 DEF Progress, Stays, s, t

\* An ERROR.
LEMMA GivesUpLock ==
    ASSUME SInv, LockInv, NEW q \in Peers, PeerGivesUp(q)
    PROVE  LockInv' /\ Progress(q)
  <1> DEFINE s == peer[q]
             o == outbox[q]
             t == peer'[q]
             d == Disk[Plan[q].req.file]
  <1>0. NetInv
    BY DEF SInv
  <1>1. /\ PeerActs(q, t) /\ s \in PeerStates /\ o \in Seq(OutPackets)
        /\ Phase(q, s, Mail(q), Mine(q), o, d)
    BY PeerBegins DEF PeerStep
  <1>2. /\ s.st = "active" /\ PeerTakes(q) /\ o # <<>> /\ Head(o).op = "ERROR"
        /\ peer' = [peer EXCEPT ![q].st = "refused"] /\ inbox' = inbox /\ UNCHANGED vars
    BY DEF PeerGivesUp, PeerTakes
  <1>3. outbox'[q] = Tail(o)
    BY <1>0, <1>2 DEF PeerTakes, NetInv
  <1>4. t.st = "refused" /\ t.next = s.next /\ t.got = s.got
    BY <1>0, <1>1, <1>2 DEF NetInv, PeerStates
  <1> HIDE DEF s, t, d, o
  <1>5. /\ Turned(q, s, Mail(q), Mine(q), o, d)
        /\ Phase(q, t, Mail(q), Mine(q), Tail(o), d)
    BY <1>1, <1>2, <1>4, GivesUpPhase
  <1>6. Posts(q, Mail(q))
    BY <1>2 DEF Posts
  <1>7. /\ LockInv' /\ \A r \in Peers : r # q => peer'[r] = peer[r] /\ Mail(r)' = Mail(r)
    BY <1>1, <1>2, <1>3, <1>4, <1>5, <1>6, PeerFrame DEF s, t, d
  <1> QED
    BY <1>2, <1>4, <1>5, <1>7 DEF Progress, Yields, s, t, o, d

\* Anything else.
LEMMA IgnoresLock ==
    ASSUME SInv, LockInv, NEW q \in Peers, PeerIgnores(q)
    PROVE  LockInv' /\ Progress(q)
  <1> DEFINE s == peer[q]
             o == outbox[q]
             d == Disk[Plan[q].req.file]
  <1>0. NetInv
    BY DEF SInv
  <1>1. /\ PeerActs(q, peer'[q]) /\ s \in PeerStates /\ o \in Seq(OutPackets)
        /\ Phase(q, s, Mail(q), Mine(q), o, d)
    BY PeerBegins DEF PeerStep
  <1>2. /\ PeerTakes(q) /\ o # <<>> /\ peer' = peer /\ inbox' = inbox /\ UNCHANGED vars
    BY DEF PeerIgnores, PeerTakes
  <1>3. Dropped(q, s, Head(o))
    BY DEF PeerIgnores, Wanted, Dropped
  <1>4. outbox'[q] = Tail(o)
    BY <1>0, <1>2 DEF PeerTakes, NetInv
  <1> HIDE DEF s, d, o
  <1>5. Phase(q, s, Mail(q), Mine(q), Tail(o), d)
    BY <1>1, <1>2, <1>3, IgnoresPhase
  <1>6. Posts(q, Mail(q))
    BY <1>2 DEF Posts
  <1>7. peer'[q] = s
    BY <1>2 DEF s
  <1>8. /\ LockInv' /\ \A r \in Peers : r # q => peer'[r] = peer[r] /\ Mail(r)' = Mail(r)
    BY <1>1, <1>4, <1>5, <1>6, <1>7, PeerFrame DEF s, d
  <1> QED
    BY <1>2, <1>8 DEF Progress, Stays

\* The timer.
LEMMA TimeoutLock ==
    ASSUME SInv, LockInv, NEW q \in Peers, PeerTimeout(q)
    PROVE  LockInv' /\ Progress(q)
  <1> DEFINE s == peer[q]
             t == peer'[q]
             d == Disk[Plan[q].req.file]
  <1>0. NetInv /\ Plan[q].fd \in Fd
    BY PlanOf DEF SInv
  <1>1. /\ PeerActs(q, t) /\ s \in PeerStates /\ Speaks(s)
        /\ Phase(q, s, Mail(q), Mine(q), outbox[q], d)
    BY PeerBegins
  <1>2. /\ s.st = "active" /\ outbox[q] = <<>> /\ SendTo(q, s.last)
        /\ peer' = [peer EXCEPT ![q].retries = @ + 1] /\ outbox' = outbox /\ UNCHANGED vars
    BY DEF PeerTimeout
  <1>3. t.st = s.st /\ t.next = s.next /\ t.got = s.got /\ t.last = s.last
    BY <1>0, <1>1, <1>2 DEF NetInv, PeerStates
  <1>4. s.last \in InPackets
    BY <1>1, <1>2 DEF Speaks
  <1>5. Mail(q) = {}
    <2>1. inbox[Plan[q].fd] \in Seq(Letters)
      BY <1>0 DEF NetInv
    <2>2. DOMAIN inbox[Plan[q].fd] = 1..Len(inbox[Plan[q].fd])
      BY <2>1, LenProperties
    <2>3. \A i \in 1..Len(inbox[Plan[q].fd]) : inbox[Plan[q].fd][i].peer # q
      BY <2>2 DEF PeerTimeout
    <2> QED
      BY <2>3 DEF Mail, From
  <1>6. \A c \in Mine(q) : c.queue = <<>>
    <2>1. \A i \in 1..Len(clientpool) :
             clientpool[i].src = Plan[q].src => clientpool[i].queue = <<>>
      BY DEF PeerTimeout
    <2>2. \A c \in Mine(q) : \E i \in 1..Len(clientpool) : c = clientpool[i] /\ Owns(q, c)
      BY MineInPool
    <2> QED
      BY <2>1, <2>2 DEF Owns
  <1> HIDE DEF s, t, d
  <1>7. Phase(q, t, {s.last}, Mine(q), <<>>, d)
    BY <1>1, <1>2, <1>3, <1>5, <1>6, TimeoutPhase
  <1>8. Posts(q, {s.last})
    BY <1>2, <1>3, <1>4, <1>5 DEF Posts, t
  <1>9. outbox'[q] = <<>>
    BY <1>2
  <1>10. /\ LockInv' /\ \A r \in Peers : r # q => peer'[r] = peer[r] /\ Mail(r)' = Mail(r)
    BY <1>1, <1>3, <1>7, <1>8, <1>9, PeerFrame DEF s, t, d
  <1> QED
    BY <1>2, <1>3, <1>10 DEF Progress, Stays, s, t

\* Every step of a peer.
LEMMA PeerLock ==
    ASSUME SInv, LockInv, NEW q \in Peers, PeerRequest(q) \/ PeerStep(q) \/ PeerTimeout(q)
    PROVE  LockInv' /\ Progress(q)
  BY RequestLock, ReadsLock, WritesLock, ConfirmsLock, GivesUpLock, IgnoresLock, TimeoutLock DEF PeerStep


-----------------------------------------------------------------------------
(***************************************************************************)
(* The server's steps: they concern one client, which belongs to one peer. *)
(***************************************************************************)

\* A client has one owner, and an owner that takes part has one client.
LEMMA OneOwner ==
    ASSUME NEW q \in Peers, NEW r \in Peers, NEW c, Owns(q, c), Owns(r, c)
    PROVE  q = r
  BY PlanAssumption DEF Owns

\* FindClient finds a peer that takes part by its one client.
LEMMA OnlyClient ==
    ASSUME GoodPool(clientpool), InCast, Separate, NEW q \in Peers, peer[q].st # "absent",
           NEW i \in 1..Len(clientpool), Owns(q, clientpool[i])
    PROVE  Only(q, clientpool, i)
  <1>1. Plan[q].src.port # UnmatchablePort
    BY DEF InCast, Separate
  <1>2. Keyed(clientpool)
    BY DEF GoodPool
  <1>3. ASSUME NEW j \in 1..Len(clientpool), Owns(q, clientpool[j]) PROVE j = i
    BY <1>1, <1>2, <1>3 DEF Keyed, Owns
  <1> QED
    BY <1>3 DEF Only

\* What a writer's file becomes is no concern of the other transfers.
LEMMA OthersDisk ==
    ASSUME InCast, Separate, NEW before \in [File -> Seq(Chunks)],
           NEW q \in Peers, peer[q].st # "absent", ~Reads(q), NEW r \in Peers, r # q,
           NEW m, NEW C, NEW o, Phase(r, peer[r], m, C, o, before[Plan[r].req.file]),
           NEW x, NEW after, after = [before EXCEPT ![Plan[q].req.file] = x]
    PROVE  Phase(r, peer[r], m, C, o, after[Plan[r].req.file])
  <1>1. Plan[q].req.file \in File /\ Plan[r].req.file \in File
    BY PlanOf
  <1>2. CASE peer[r].st = "absent"
    BY <1>2, DiskPhase
  <1>3. CASE peer[r].st # "absent"
    <2>1. Plan[q].req.file # Plan[r].req.file
      BY <1>3 DEF InCast, Separate
    <2> QED
      BY <1>1, <2>1
  <1> QED
    BY <1>2, <1>3

\* The queue of a client goes out.
LEMMA TransmitLock ==
    ASSUME SInv, LockInv, Separate, Transmit
    PROVE  LockInv' /\ UNCHANGED <<peer, inbox>> /\ alive'
  <1> DEFINE c == clientpool[cidx]
             n == [c EXCEPT !.queue = <<>>]
  <1>1. /\ NetInv /\ PInv /\ IInv /\ clientpool \in Seq(Clients) /\ Len(clientpool) \in Nat
        /\ disk \in [File -> Seq(Chunks)] /\ GoodPool(clientpool)
        /\ Once /\ InCast /\ Known /\ leaked = 0 /\ pc = "send" /\ Pool = clientpool /\ Disk = disk /\ \A r \in Peers : InPhase(r)
    BY LenProperties DEF SInv, PInv, LInv, IInv, TypeOK, LockInv, Transmit, SendClient, Pool, Disk
  <1>2. /\ SendClient /\ UNCHANGED <<inbox, peer, leaked>> /\ alive' \in SendSurvival(c.queue)
        /\ c.destroy => Pool' = RemoveAt(clientpool, cidx)
        /\ ~c.destroy => Pool' = [clientpool EXCEPT ![cidx] = n]
        /\ ~(c.destroy /\ c.f.mode = "w") => Disk' = disk
        /\ c.destroy /\ c.f.mode = "w" => Disk' = [disk EXCEPT ![c.f.file] = c.f.written]
        /\ c.destroy => pc' = "reap" /\ UNCHANGED <<clientpool, cidx>>
        /\ ~c.destroy => pc' # "reap" /\ Pool' = clientpool'
    BY <1>1 DEF Transmit, SendClient, files, Pool, Disk
  <1>3. cidx \in 1..Len(clientpool)
    BY <1>1, <1>2 DEF IInv, TypeOK, SendClient
  <1>4. Good(c) /\ c \in Clients /\ c.queue \in Seq(OutPackets)
    BY <1>1, <1>3, PoolMember
  <1>5. PICK q \in Peers : peer[q].st # "absent" /\ Owns(q, c)
    BY <1>1, <1>3 DEF Known
  <1> DEFINE s == peer[q]
             d == disk[Plan[q].req.file]
  <1>6. Only(q, clientpool, cidx)
    BY <1>1, <1>3, <1>5, OnlyClient
  <1>7. outbox' = [r \in Peers |-> IF Plan[r].fd = c.fd /\ Plan[r].src = c.src
                                   THEN outbox[r] \o c.queue ELSE outbox[r]]
    BY DEF Transmit
  <1>8. \A r \in Peers : r # q => ~Owns(r, c)
    BY <1>5, OneOwner
  <1>9. SameOwner(n, c)
    BY <1>4 DEF Clients, SameOwner
  <1>10. alive'
    <2>1. Fresh(c)
      BY <1>1, <1>3 DEF PInv, NetInv
    <2>2. DOMAIN c.queue = 1..Len(c.queue)
      BY <1>4, LenProperties
    <2>3. FreedPacket \notin Range(c.queue)
      BY <2>1, <2>2 DEF Fresh, Range
    <2>4. alive' \in {TRUE}
      BY <1>2, <2>3 DEF SendSurvival
    <2> QED
      BY <2>4
  <1>11. /\ Mine(q) = {c} /\ Mine(q)' = Rest(c)
         /\ \A r \in Peers : r # q => Mine(r)' = Mine(r)
    <2>1. CASE c.destroy
      <3>1. /\ Of(clientpool, q) = {c} /\ Of(Pool', q) = {}
            /\ \A r : ~Owns(r, c) => Of(Pool', r) = Of(clientpool, r)
        BY <1>1, <1>2, <1>3, <1>6, <2>1, OfRemove
      <3> QED
        BY <1>1, <1>8, <2>1, <3>1 DEF Mine, Rest
    <2>2. CASE ~c.destroy
      <3> HIDE DEF n
      <3>1. Pool' = [clientpool EXCEPT ![cidx] = n]
        BY <1>2, <2>2
      <3>2. /\ Of(clientpool, q) = {c} /\ Of(Pool', q) = {n}
            /\ \A r : ~Owns(r, c) => Of(Pool', r) = Of(clientpool, r)
        <4>1. Replaced(q, clientpool, cidx, n)
          BY <1>1, <1>3, <1>6, <1>9, OfUpdate
        <4> QED
          BY <3>1, <4>1 DEF Replaced
      <3> QED
        BY <1>1, <1>8, <2>2, <3>2 DEF Mine, Rest, n
    <2> QED
      BY <2>1, <2>2
  <1>12. Known'
    <2>1. CASE c.destroy
      BY <1>1, <1>2, <2>1 DEF Known
    <2>2. CASE ~c.destroy
      <3> HIDE DEF n
      <3>1. Len(clientpool') = Len(clientpool)
            /\ \A i \in 1..Len(clientpool) : clientpool'[i] = IF i = cidx THEN n ELSE clientpool[i]
        BY <1>1, <1>2, <1>3, <2>2, ExceptSeq
      <3>2. \A i \in 1..Len(clientpool) : SameOwner(clientpool'[i], clientpool[i])
        BY <1>9, <3>1 DEF SameOwner
      <3>3. \A i \in 1..Len(clientpool') :
               \E r \in Peers : peer[r].st # "absent" /\ Owns(r, clientpool'[i])
        BY <1>1, <3>1, <3>2 DEF Known, SameOwner, Owns
      <3> QED
        BY <1>2, <3>3 DEF Known
    <2> QED
      BY <2>1, <2>2
  <1> HIDE DEF n
  <1>13. \A r \in Peers : Mail(r)' = Mail(r)
    BY <1>2 DEF Mail
  <1>14. /\ Phase(q, s, Mail(q), Rest(c), outbox[q] \o c.queue, Saved(c, d))
         /\ c.f.mode = "w" => ~Reads(q) /\ c.f.file = Plan[q].req.file
    <2>1. Phase(q, s, Mail(q), {c}, outbox[q], d) /\ outbox[q] \in Seq(OutPackets)
      BY <1>1, <1>11 DEF InPhase, NetInv
    <2> HIDE DEF s, d, c
    <2> QED
      BY <1>4, <2>1, SendPhase
  <1>15. /\ outbox'[q] = outbox[q] \o c.queue
         /\ \A r \in Peers : r # q => outbox'[r] = outbox[r]
    BY <1>5, <1>7, <1>8 DEF Owns
  <1> HIDE DEF c
  <1>20. ReapsOwn'
    <2>1. CASE c.destroy
      BY <1>2, <1>8, <1>14, <2>1 DEF ReapsOwn, c
    <2>2. CASE ~c.destroy
      BY <1>2, <2>2 DEF ReapsOwn
    <2> QED
      BY <2>1, <2>2
  <1>16. Disk'[Plan[q].req.file] = Saved(c, d)
    <2>1. Plan[q].req.file \in File
      BY PlanOf
    <2> QED
      BY <1>1, <1>2, <1>14, <2>1 DEF Saved
  <1>17. InPhase(q)'
    BY <1>2, <1>11, <1>13, <1>14, <1>15, <1>16 DEF InPhase
  <1>18. ASSUME NEW r \in Peers, r # q PROVE InPhase(r)'
    <2>1. Phase(r, peer[r], Mail(r), Mine(r), outbox[r], disk[Plan[r].req.file])
      BY <1>1 DEF InPhase
    <2>2. Phase(r, peer[r], Mail(r), Mine(r), outbox[r], Disk'[Plan[r].req.file])
      <3>1. CASE c.destroy /\ c.f.mode = "w"
        <4>1. Disk' = [disk EXCEPT ![Plan[q].req.file] = c.f.written] /\ ~Reads(q)
          BY <1>2, <1>14, <3>1
        <4> QED
          BY <1>1, <1>5, <1>18, <2>1, <4>1, OthersDisk
      <3>2. CASE ~(c.destroy /\ c.f.mode = "w")
        BY <1>2, <2>1, <3>2
      <3> QED
        BY <3>1, <3>2
    <2>3. peer'[r] = peer[r] /\ Mail(r)' = Mail(r) /\ Mine(r)' = Mine(r) /\ outbox'[r] = outbox[r]
      BY <1>2, <1>11, <1>13, <1>15, <1>18
    <2> QED
      BY <2>2, <2>3 DEF InPhase
  <1>19. InCast' /\ Once'
    BY <1>1, <1>2 DEF InCast, Once
  <1> QED
    BY <1>1, <1>2, <1>10, <1>12, <1>17, <1>18, <1>19, <1>20 DEF LockInv


\* Whoever has mail takes part.
LEMMA MailPresent ==
    ASSUME NEW q, NEW s, NEW p, NEW C, NEW o, NEW d, Phase(q, s, {p}, C, o, d)
    PROVE  s.st # "absent"
  <1>1. {p} # {}
    OBVIOUS
  <1> QED
    BY <1>1 DEF Phase, Out, Asked, Turned, Round, Queued, Sent, Replied, Through, Waits, Answered

\* The client that FindClient or AddClient gives to a datagram of q: q's only
\* one, in a pool where the others have theirs.
Reached(q, pool, k) ==
    /\ GoodPool(pool) /\ k \in 1..Len(pool) /\ Only(q, pool, k)
    /\ \/ Mine(q) = {pool[k]}
       \/ Mine(q) = {} /\ pool[k] = NewClient(Plan[q].fd, Plan[q].src)
    /\ \A r \in Peers : r # q => Of(pool, r) = Mine(r)
    /\ \A i \in 1..Len(pool) : \E r \in Peers : peer[r].st # "absent" /\ Owns(r, pool[i])

\* FindOrAllocateClient reaches the client of the peer that wrote.
LEMMA ReachesClient ==
    ASSUME SInv, LockInv, Separate, Pool = clientpool, NEW q \in Peers, peer[q].st # "absent", Plan[q].fd = ev.fd
    PROVE  Reached(q, PoolFor(Plan[q].src), IndexFor(Plan[q].src))
  <1> DEFINE src  == Plan[q].src
             pool == PoolFor(src)
             k    == IndexFor(src)
             n    == NewClient(ev.fd, src)
  <1>1. /\ IInv /\ GoodPool(clientpool) /\ ev.fd \in Fd /\ InCast /\ Known
        /\ clientpool \in Seq(Clients) /\ Len(clientpool) \in Nat
    BY LenProperties DEF SInv, PInv, LInv, IInv, TypeOK, GoodPool, LockInv
  <1>2. src \in Source /\ src.port \in Port
    BY PlanOf
  <1>3. GoodPool(pool) /\ k \in 1..Len(pool)
    BY <1>1, <1>2, ReceivePool
  <1>4. src.port # UnmatchablePort
    BY <1>1 DEF InCast, Separate
  <1> HIDE DEF src
  <1>5. CASE Target(src) # 0
    <2>1. pool = clientpool /\ k = Target(src)
      BY <1>5 DEF PoolFor, IndexFor
    <2> DEFINE c == clientpool[k]
    <2>2. k \in 1..Len(clientpool) /\ c.fd = ev.fd /\ c.src.port = src.port
      BY <1>1, <1>2, <1>5, <2>1, FindClientFinds DEF Target
    <2> HIDE DEF pool, k
    <2>3. PICK r \in Peers : peer[r].st # "absent" /\ Owns(r, c)
      BY <1>1, <2>2 DEF Known
    <2>4. r = q
      <3>1. Plan[r].fd = Plan[q].fd /\ Plan[r].src.port = Plan[q].src.port
        BY <2>2, <2>3 DEF Owns, src
      <3> QED
        BY <1>1, <2>3, <3>1 DEF InCast, Separate
    <2>5. Only(q, clientpool, k)
      BY <1>1, <2>2, <2>3, <2>4, OnlyClient
    <2>6. Mine(q) = {c}
      <3>1. {j \in 1..Len(clientpool) : Owns(q, clientpool[j])} = {k}
        BY <2>2, <2>5 DEF Only
      <3> QED
        BY <3>1 DEF Mine, Of
    <2>7. \A i \in 1..Len(clientpool) : \E x \in Peers : peer[x].st # "absent" /\ Owns(x, clientpool[i])
      BY <1>1 DEF Known
    <2>8. Reached(q, pool, k)
      BY <1>3, <2>1, <2>5, <2>6, <2>7 DEF Reached, Mine
    <2> QED
      BY <2>8 DEF pool, k, src
  <1>6. CASE Target(src) = 0
    <2>1. pool = Append(clientpool, n) /\ k = Len(pool)
      BY <1>6 DEF PoolFor, IndexFor
    <2>2. Good(n) /\ n.fd = ev.fd /\ n.src = src /\ n \in Clients
      BY <1>1, <1>2, NewClientGood DEF Good, Core
    <2>3. \A j \in 1..Len(clientpool) :
             ~(clientpool[j].fd = ev.fd /\ clientpool[j].src.port = src.port)
      BY <1>1, <1>2, <1>4, <1>6, FindClientFinds DEF Target
    <2>4. \A j \in 1..Len(clientpool) : ~Owns(q, clientpool[j])
      BY <2>3 DEF Owns, src
    <2>5. Mine(q) = {}
      BY <2>4 DEF Mine, Of
    <2>6. n = NewClient(Plan[q].fd, Plan[q].src) /\ Owns(q, n)
      BY <2>2 DEF Owns, src
    <2> HIDE DEF n, pool, k
    <2>7. /\ Len(pool) = Len(clientpool) + 1 /\ pool[Len(clientpool) + 1] = n
          /\ \A i \in 1..Len(clientpool) : pool[i] = clientpool[i]
      BY <1>1, <2>1, <2>2, AppendProperties
    <2>8. \A i \in 1..Len(pool) : i \in 1..Len(clientpool) \/ i = k
      BY <1>1, <2>1, <2>7
    <2>9. pool[k] = n
      BY <2>1, <2>7
    <2>10. Only(q, pool, k)
      BY <2>4, <2>6, <2>7, <2>8, <2>9 DEF Only
    <2>11. \A r \in Peers : r # q => Of(pool, r) = Mine(r)
      BY <1>1, <2>1, <2>2, <2>6, OfAppend, OneOwner DEF Mine
    <2>12. \A i \in 1..Len(pool) : \E x \in Peers : peer[x].st # "absent" /\ Owns(x, pool[i])
      BY <1>1, <2>6, <2>7, <2>8, <2>9 DEF Known
    <2>13. Reached(q, pool, k)
      BY <1>3, <2>5, <2>6, <2>9, <2>10, <2>11, <2>12 DEF Reached
    <2> QED
      BY <2>13 DEF pool, k, src
  <1> QED
    BY <1>5, <1>6

\* The first datagram in a socket buffer goes.
LEMMA MailTaken ==
    ASSUME NetInv, Once, NEW fd \in Fd, inbox[fd] # <<>>,
           inbox' = [inbox EXCEPT ![fd] = Tail(inbox[fd])],
           NEW q, NEW p, [peer |-> q, pkt |-> p] = Head(inbox[fd])
    PROVE  /\ q \in Peers /\ Plan[q].fd = fd /\ p \in InPackets
           /\ Mail(q) = {p} /\ Mail(q)' = {}
           /\ \A r \in Peers : r # q => Mail(r)' = Mail(r)
           /\ Once'
  <1> DEFINE box == inbox[fd]
             l == [peer |-> q, pkt |-> p]
  <1>1. inbox \in [Fd -> Seq(Letters)] /\ box \in Seq(Letters) /\ box \in Seq(LettersTo(fd)) /\ Lone(box)
    BY DEF NetInv, Once
  <1>2. l \in LettersTo(fd)
    BY <1>1, HeadTailProperties
  <1>3. l = Head(box) /\ box # <<>> /\ l.peer = q /\ l.pkt = p
    OBVIOUS
  <1>4. inbox'[fd] = Tail(box) /\ \A x \in Fd : x # fd => inbox'[x] = inbox[x]
    BY <1>1
  <1> HIDE DEF l
  <1>5. q \in Peers /\ Plan[q].fd = fd /\ p \in InPackets
    BY <1>2, <1>3 DEF LettersTo, Letters
  <1> HIDE DEF box
  <1>6. /\ From(box, q) = {p} /\ From(Tail(box), q) = {}
        /\ \A r : r # q => From(Tail(box), r) = From(box, r)
        /\ Lone(Tail(box))
    <2>1. /\ From(box, l.peer) = {l.pkt} /\ From(Tail(box), l.peer) = {}
          /\ \A r : r # l.peer => From(Tail(box), r) = From(box, r)
          /\ Lone(Tail(box))
      BY <1>1, <1>3, FromTail
    <2> QED
      BY <1>3, <2>1
  <1>7. Mail(q) = {p} /\ Mail(q)' = {}
    BY <1>4, <1>5, <1>6 DEF Mail, box
  <1>8. ASSUME NEW r \in Peers, r # q PROVE Mail(r)' = Mail(r)
    <2>1. Plan[r].fd \in Fd
      BY PlanOf
    <2>2. CASE Plan[r].fd = fd
      BY <1>4, <1>6, <1>8, <2>2 DEF Mail, box
    <2>3. CASE Plan[r].fd # fd
      BY <1>4, <2>1, <2>3 DEF Mail
    <2> QED
      BY <2>2, <2>3
  <1>9. Once'
    BY <1>4, <1>6 DEF Once
  <1> QED
    BY <1>5, <1>7, <1>8, <1>9

\* A datagram is delivered: q's, whose mail is then empty.
Empties(q) ==
    /\ Mail(q) # {} /\ Mail(q)' = {} /\ \A r \in Peers : r # q => Mail(r)' = Mail(r)
    /\ peer' = peer

\* ReceivePackets keeps the lock step, and the process alive if logging does and
\* the answers fit.
LEMMA DeliverLock ==
    ASSUME SInv, LockInv, Separate, Deliver
    PROVE  /\ LockInv' /\ \E q \in Peers : Empties(q)
           /\ StrayRead = {TRUE} /\ AllFit => alive'
  <1> DEFINE box == inbox[ev.fd]
  <1>1. /\ NetInv /\ PInv /\ IInv /\ ev.fd \in Fd
        /\ disk \in [File -> Seq(Chunks)]
        /\ Once /\ InCast /\ Known /\ leaked = 0 /\ \A r \in Peers : InPhase(r)
        /\ Pool = clientpool /\ Disk = disk
    BY DEF SInv, PInv, LInv, IInv, TypeOK, LockInv, Deliver, Receive, Pool, Disk
  <1>2. /\ box # <<>> /\ inbox' = [inbox EXCEPT ![ev.fd] = Tail(box)]
        /\ UNCHANGED <<outbox, peer>> /\ Receive(Plan[Head(box).peer].src, Head(box).pkt)
    BY DEF Deliver
  <1>3. PICK q, p : [peer |-> q, pkt |-> p] = Head(box)
    <2>1. box \in Seq(Letters)
      BY <1>1 DEF NetInv
    <2>2. Head(box) \in Letters
      BY <1>2, <2>1, HeadTailProperties
    <2> QED
      BY <2>2 DEF Letters
  <1>4. Head(box).peer = q /\ Head(box).pkt = p
    BY <1>3
  <1>5. /\ q \in Peers /\ Plan[q].fd = ev.fd /\ p \in InPackets
        /\ Mail(q) = {p} /\ Mail(q)' = {}
        /\ \A r \in Peers : r # q => Mail(r)' = Mail(r)
        /\ Once'
    BY <1>1, <1>2, <1>3, MailTaken
  <1>6. Receive(Plan[q].src, p)
    BY <1>2, <1>4
  <1> HIDE DEF box
  <1> DEFINE pool == PoolFor(Plan[q].src)
             k    == IndexFor(Plan[q].src)
             c    == pool[k]
             new  == ProcessPacket(c, p)
             s    == peer[q]
             d    == disk[Plan[q].req.file]
             e    == IF p.op = "WRQ" /\ AcceptsWrq(p) THEN <<>> ELSE d
  <1>7. /\ clientpool' = [pool EXCEPT ![k] = new]
        /\ disk' = IF p.op = "WRQ" /\ AcceptsWrq(p) THEN [disk EXCEPT ![p.file] = <<>>] ELSE disk
        /\ leaked' = IF OpensFile(p) /\ c.f.mode # "null" THEN leaked + 1 ELSE leaked
        /\ alive' \in Survival(c, p)
        /\ pc' = "check"
    BY <1>6 DEF Receive, Target, PoolFor, IndexFor, Goto
  <1>25. Pool' = clientpool' /\ Disk' = disk' /\ ReapsOwn'
    BY <1>7 DEF Pool, Disk, ReapsOwn
  <1>8. Phase(q, s, {p}, Mine(q), outbox[q], d)
    BY <1>1, <1>5 DEF InPhase
  <1>9. s.st # "absent"
    BY <1>8, MailPresent
  <1>10. Reached(q, pool, k)
    BY <1>1, <1>5, <1>9, ReachesClient
  <1> HIDE DEF pool, k
  <1>11. /\ pool \in Seq(Clients) /\ k \in 1..Len(pool) /\ Only(q, pool, k) /\ Good(c)
         /\ Mine(q) = {c} \/ (Mine(q) = {} /\ c = NewClient(Plan[q].fd, Plan[q].src))
    BY <1>10 DEF Reached, GoodPool
  <1>12. SameOwner(new, c)
    BY <1>5, <1>11, ProcessPacketGood DEF Follows
  <1>13. Owns(q, c) /\ \A r \in Peers : r # q => ~Owns(r, c)
    BY <1>5, <1>11, OneOwner DEF Only
  <1>14. Delivered(q, s, {}, c, outbox[q], d, e, p)
    <2>1. e = IF p.op = "WRQ" /\ AcceptsWrq(p) THEN <<>> ELSE d
      OBVIOUS
    <2> HIDE DEF s, d, c, e
    <2> QED
      BY <1>5, <1>8, <1>11, <2>1, DeliverPhase
  <1>15. /\ Phase(q, s, {}, {new}, outbox[q], e)
         /\ ~(OpensFile(p) /\ c.f.mode # "null")
         /\ p.op = "WRQ" => p = Plan[q].req
         /\ StrayRead = {TRUE} /\ ~Aborts(Plan[q].req) => Survival(c, p) = {TRUE}
    BY <1>14 DEF Delivered
  <1>16. leaked' = 0
    BY <1>1, <1>7, <1>15
  <1>17. StrayRead = {TRUE} /\ AllFit => alive'
    <2>1. AllFit => ~Aborts(Plan[q].req)
      BY <1>1, <1>5, <1>9 DEF InCast, AllFit, Players
    <2>2. StrayRead = {TRUE} /\ AllFit => alive' \in {TRUE}
      BY <1>7, <1>15, <2>1
    <2> QED
      BY <2>2
  <1> HIDE DEF new, c
  <1>18. /\ Mine(q)' = {new} /\ \A r \in Peers : r # q => Mine(r)' = Mine(r)
    <2>1. Replaced(q, pool, k, new)
      BY <1>11, <1>12, OfUpdate DEF c
    <2>2. /\ Of(clientpool', q) = {new}
          /\ \A r : ~Owns(r, c) => Of(clientpool', r) = Of(pool, r)
      BY <1>7, <2>1 DEF Replaced, c
    <2>3. \A r \in Peers : r # q => Of(pool, r) = Mine(r)
      BY <1>10 DEF Reached
    <2> QED
      BY <1>13, <1>25, <2>2, <2>3 DEF Mine
  <1>19. Known'
    <2>1. Len(clientpool') = Len(pool)
          /\ \A i \in 1..Len(pool) : clientpool'[i] = IF i = k THEN new ELSE pool[i]
      BY <1>7, <1>11, ExceptSeq
    <2>2. \A i \in 1..Len(clientpool') :
             \E r \in Peers : peer[r].st # "absent" /\ Owns(r, clientpool'[i])
      BY <1>10, <1>12, <2>1 DEF Reached, SameOwner, Owns, c
    <2> QED
      BY <1>2, <2>2 DEF Known
  <1>20. disk'[Plan[q].req.file] = e
    <2>1. Plan[q].req.file \in File
      BY <1>5, PlanOf
    <2> QED
      BY <1>1, <1>7, <1>15, <2>1
  <1>21. InPhase(q)'
    BY <1>2, <1>5, <1>15, <1>18, <1>20, <1>25 DEF InPhase
  <1>22. ASSUME NEW r \in Peers, r # q PROVE InPhase(r)'
    <2>1. Phase(r, peer[r], Mail(r), Mine(r), outbox[r], disk[Plan[r].req.file])
      BY <1>1 DEF InPhase
    <2>2. Phase(r, peer[r], Mail(r), Mine(r), outbox[r], disk'[Plan[r].req.file])
      <3>1. CASE p.op = "WRQ" /\ AcceptsWrq(p)
        <4>1. disk' = [disk EXCEPT ![Plan[q].req.file] = <<>>]
          BY <1>7, <1>15, <3>1
        <4>2. ~Reads(q)
          BY <1>15, <3>1 DEF Reads
        <4> QED
          BY <1>1, <1>5, <1>9, <1>22, <2>1, <4>1, <4>2, OthersDisk
      <3>2. CASE ~(p.op = "WRQ" /\ AcceptsWrq(p))
        BY <1>7, <2>1, <3>2
      <3> QED
        BY <3>1, <3>2
    <2>3. peer'[r] = peer[r] /\ Mail(r)' = Mail(r) /\ Mine(r)' = Mine(r) /\ outbox'[r] = outbox[r]
      BY <1>2, <1>5, <1>18, <1>22
    <2> QED
      BY <1>25, <2>2, <2>3 DEF InPhase
  <1>23. InCast'
    BY <1>1, <1>2 DEF InCast
  <1>24. Empties(q)
    BY <1>2, <1>5 DEF Empties
  <1> QED
    BY <1>5, <1>16, <1>17, <1>19, <1>21, <1>22, <1>23, <1>24, <1>25 DEF LockInv


\* The rest of the event loop touches neither clients nor files.
LEMMA IdleLock ==
    ASSUME SInv, LockInv, Idle
    PROVE  LockInv' /\ UNCHANGED <<clientpool, disk, leaked, alive, nvars>>
  <1>1. IInv
    BY DEF SInv, PInv, LInv
  <1>2. UNCHANGED nvars
    BY DEF Idle
  <1>3. UNCHANGED <<clientpool, disk, leaked, alive>>
    <2>1. ASSUME NEW due \in BOOLEAN, CheckClient(due)
          PROVE  UNCHANGED <<clientpool, disk, leaked, alive>>
      <3>1. UNCHANGED clientpool
        BY <1>1, <2>1, CheckChangesNothing
      <3>2. cidx \in 1..Len(clientpool)
        <4>1. clientpool \in Seq(Clients) /\ Len(clientpool) \in Nat
          BY <1>1, LenProperties DEF IInv, GoodPool
        <4> QED
          BY <1>1, <2>1, <4>1 DEF IInv, TypeOK, CheckClient
      <3>3. clientpool[cidx].waiting = 0
        BY <1>1, <3>2, PoolMember
      <3>4. UNCHANGED <<disk, leaked, alive>>
        BY <2>1, <3>3 DEF CheckClient
      <3> QED
        BY <3>1, <3>4
    <2> QED
      BY <2>1 DEF Idle, CheckedClients, SentPackets, ReceiveNothing, EpollTimeout, EpollEvent, files
  <1>5. pc # "reap" /\ pc' # "reap"
    BY DEF Idle, CheckClient, CheckedClients, SentPackets, ReceiveNothing, EpollTimeout, EpollEvent, Goto
  <1>6. Pool' = Pool /\ Disk' = Disk /\ ReapsOwn'
    BY <1>3, <1>5 DEF Pool, Disk, ReapsOwn
  <1>4. \A q \in Peers : InPhase(q)'
    <2>1. \A q \in Peers : InPhase(q)
      BY DEF LockInv
    <2> QED
      BY <1>2, <1>6, <2>1 DEF InPhase, Mail, Mine, nvars
  <1> QED
    BY <1>2, <1>3, <1>4, <1>6 DEF LockInv, InCast, Once, Known, nvars

\* The FILE is closed and the client removed, as the phases had it already.
LEMMA ReapLock ==
    ASSUME SInv, LockInv, Reliable, Reap
    PROVE  LockInv' /\ UNCHANGED <<leaked, alive, nvars>>
  <1> DEFINE c == clientpool[cidx]
  <1>1. /\ IInv /\ clientpool \in Seq(Clients) /\ Len(clientpool) \in Nat
        /\ InCast /\ Once /\ Known /\ leaked = 0 /\ \A q \in Peers : InPhase(q)
    BY LenProperties DEF SInv, PInv, LInv, IInv, TypeOK, LockInv
  <1>2. /\ pc = "reap" /\ pc' = "send" /\ UNCHANGED <<leaked, alive, nvars>>
        /\ clientpool' = RemoveAt(clientpool, cidx) /\ CloseFile(c)
    BY DEF Reap, ReapClient, RemoveClient
  <1>3. disk' = IF c.f.mode = "w" THEN [disk EXCEPT ![c.f.file] = c.f.written] ELSE disk
    BY <1>2 DEF CloseFile, Reliable
  <1>4. Pool' = Pool /\ Disk' = Disk /\ ReapsOwn'
    BY <1>2, <1>3 DEF Pool, Disk, ReapsOwn
  <1>5. cidx \in 1..Len(clientpool)
    BY <1>1, <1>2 DEF IInv, Reaping
  <1>6. \A j \in 1..Len(clientpool') : \E i \in 1..Len(clientpool) : clientpool'[j] = clientpool[i]
    <2>1. /\ Len(clientpool') = Len(clientpool) - 1
          /\ \A j \in 1..Len(clientpool) - 1 :
                clientpool'[j] = IF j < cidx THEN clientpool[j] ELSE clientpool[j + 1]
      BY <1>1, <1>2, <1>5, RemoveAtProperties
    <2>2. \A j \in 1..Len(clientpool) - 1 : j \in 1..Len(clientpool) /\ j + 1 \in 1..Len(clientpool)
      BY <1>1
    <2> QED
      BY <2>1, <2>2
  <1>7. InCast' /\ Once' /\ Known'
    <2>1. InCast' /\ Once' /\ peer' = peer
      BY <1>1, <1>2 DEF InCast, Once, nvars
    <2> QED
      BY <1>1, <1>6, <2>1 DEF Known
  <1>8. \A q \in Peers : InPhase(q)'
    BY <1>1, <1>2, <1>4 DEF InPhase, Mail, Mine, nvars
  <1> QED
    BY <1>1, <1>2, <1>4, <1>7, <1>8 DEF LockInv

-----------------------------------------------------------------------------
(***************************************************************************)
(* The invariant.                                                          *)
(***************************************************************************)

\* At first nobody has begun.
LEMMA InitLockInv == SInit => LockInv
  <1> SUFFICES ASSUME SInit PROVE LockInv
    OBVIOUS
  <1>1. /\ clientpool = <<>> /\ disk = [f \in File |-> <<>>] /\ leaked = 0
        /\ inbox = [fd \in Fd |-> <<>>] /\ outbox = [q \in Peers |-> <<>>]
        /\ Pool = clientpool /\ Disk = disk /\ ReapsOwn
    BY DEF SInit, Init, Pool, Disk, ReapsOwn
  <1>2. PICK cast \in Casts :
           peer = [q \in Peers |-> PeerInit(IF q \in cast THEN "start" ELSE "absent")]
    BY DEF SInit
  <1>3. /\ \A q \in Peers : peer[q].st \in {"absent", "start"} /\ peer[q].got = <<>>
        /\ \A q \in Peers : peer[q].st # "absent" => q \in cast
    BY <1>2 DEF PeerInit
  <1>4. Len(<<>>) = 0 /\ 1..0 = {}
    BY EmptySeq
  <1>5. ASSUME NEW q \in Peers PROVE InPhase(q)
    <2>1. Plan[q].fd \in Fd /\ Plan[q].req.file \in File
      BY PlanOf
    <2>2. Mail(q) = {}
      <3>1. inbox[Plan[q].fd] = <<>>
        BY <1>1, <2>1
      <3> QED
        BY <1>4, <3>1 DEF Mail, From
    <2>3. Mine(q) = {}
      BY <1>1, <1>4 DEF Mine, Of
    <2>4. outbox[q] = <<>> /\ disk[Plan[q].req.file] = <<>>
      BY <1>1, <2>1
    <2>5. Out(q, peer[q], Mail(q), Mine(q), outbox[q], disk[Plan[q].req.file])
      BY <1>3, <2>2, <2>3, <2>4 DEF Out, Untouched
    <2> QED
      BY <1>1, <2>5 DEF InPhase, Phase
  <1>6. InCast
    BY <1>2, <1>3 DEF InCast
  <1>7. Once /\ Known
    BY <1>1, <1>4 DEF Once, Lone, Known
  <1> QED
    BY <1>1, <1>5, <1>6, <1>7 DEF LockInv

\* What a step may do to peers and their mail: one peer makes progress, a
\* datagram is delivered, or neither.
Moving ==
    \/ \E q \in Peers : Progress(q)
    \/ \E q \in Peers : Empties(q)
    \/ UNCHANGED <<peer, inbox>>

\* Every step keeps the transfers in their phases.  The process survives, if
\* reading a stray pointer does it no harm and its answers fit their packets.
LEMMA NextLockInv ==
    ASSUME SInv, LockInv, Reliable, Separate, [SNext]_svars
    PROVE  LockInv' /\ Moving /\ (StrayRead = {TRUE} /\ AllFit /\ alive => alive')
  <1>1. CASE Idle
    <2>1. LockInv' /\ UNCHANGED <<clientpool, disk, leaked, alive, nvars>>
      BY <1>1, IdleLock
    <2> QED
      BY <2>1 DEF Moving, nvars
  <1>2. CASE Deliver
    BY <1>2, DeliverLock DEF Moving
  <1>3. CASE Transmit
    BY <1>3, TransmitLock DEF Moving
  <1>7. CASE Reap
    <2>1. LockInv' /\ UNCHANGED <<leaked, alive, nvars>>
      BY <1>7, ReapLock
    <2> QED
      BY <2>1 DEF Moving, nvars
  <1>4. ASSUME NEW q \in Peers, PeerRequest(q) \/ PeerStep(q) \/ PeerTimeout(q)
        PROVE  LockInv' /\ Moving /\ (alive => alive')
    <2>1. LockInv' /\ Progress(q)
      BY <1>4, PeerLock
    <2> QED
      BY <2>1 DEF Moving, Progress, vars
  <1>5. CASE Network
    <2>1. loss \in 0..MaxLoss /\ dup \in 0..MaxDup
      BY DEF SInv, NetInv
    <2>2. loss < MaxLoss \/ dup < MaxDup
      BY <1>5 DEF Network, LoseRequest, LoseReply, DuplicateRequest, DuplicateReply
    <2> QED
      BY <2>1, <2>2 DEF Reliable
  <1>6. CASE UNCHANGED svars
    <2>1. \A q \in Peers : InPhase(q)'
      <3>1. \A q \in Peers : InPhase(q)
        BY DEF LockInv
      <3> QED
        BY <1>6, <3>1 DEF InPhase, Mail, Mine, Pool, Disk, svars, vars, nvars
    <2> QED
      BY <1>6, <2>1 DEF LockInv, InCast, Once, Known, ReapsOwn, Moving, svars, vars, nvars
  <1> QED
    BY <1>1, <1>2, <1>3, <1>4, <1>5, <1>6, <1>7 DEF SNext, ServerStep

\* Every reachable state.
LEMMA LockInvariance ==
    ASSUME Reliable, Separate
    PROVE  SSpec => [](SInv /\ LockInv)
  <1>1. SInit => SInv /\ LockInv
    BY InitSInv, InitLockInv
  <1>2. SInv /\ LockInv /\ [SNext]_svars => (SInv /\ LockInv)'
    <2>1. SUFFICES ASSUME SInv, LockInv, [SNext]_svars PROVE SInv' /\ LockInv'
      OBVIOUS
    <2> QED
      BY <2>1, NextSInv, NextLockInv
  <1> QED
    BY <1>1, <1>2, PTL DEF SSpec


-----------------------------------------------------------------------------
(***************************************************************************)
(* How many blocks have arrived: a phase tells, from the peer's state and  *)
(* its mail alone.                                                         *)
(***************************************************************************)
Tally(q, s, m) ==
    IF Reads(q) THEN Len(s.got)
    ELSE IF s.st = "done" THEN FinalBlock(q)
    ELSE IF s.st # "active" \/ s.next = 0 THEN 0
    ELSE IF m = {} THEN s.next ELSE s.next - 1

\* k blocks have arrived: at the reader, in the FILE the server holds for a
\* writer, or in the one it has closed.
Arrived(q, k, s, C, d) ==
    IF Reads(q) \/ s.st = "absent" THEN Blocks(q, s.got, k)
    ELSE /\ \A c \in C : c.f.mode = "w" => Blocks(q, c.f.written, k)
         /\ (\A c \in C : c.f.mode # "w") => Blocks(q, d, k)

\* The file goes on after the blocks before block k.
Reaches(q, k) == k \in Nat /\ (k # 0 => Proper(q) /\ ~Ends(q, k - 1))
Counted(q, k, s, C, d) == Reaches(q, k) /\ Arrived(q, k, s, C, d)

\* Nothing has arrived.
LEMMA NothingArrived == \A q : Blocks(q, <<>>, 0) /\ Reaches(q, 0)
  <1>1. Len(<<>>) = 0 /\ 1..0 = {}
    BY EmptySeq
  <1> QED
    BY <1>1 DEF Blocks, Reaches

\* A round that has begun.
LEMMA RoundReaches ==
    ASSUME NEW q \in Peers, Proper(q), NEW k \in Nat, Begins(q, k)
    PROVE  /\ Reaches(q, k) /\ (k # 0 => Reaches(q, k - 1))
           /\ Ends(q, k) => k = FinalBlock(q) /\ k # 0
  <1>1. (k # 0 => ~Ends(q, k - 1)) /\ ~Ends(q, 0)
    BY PacketFacts
  <1>2. ASSUME k # 0 PROVE Reaches(q, k - 1)
    <2>1. CASE k = 1
      <3>1. k - 1 = 0
        BY <2>1
      <3> QED
        BY <3>1, NothingArrived
    <2>2. CASE k # 1
      <3> DEFINE B == Blocksize(q)
                 L == FileLen(q)
                 j == k - 2
      <3>1. j \in Nat /\ k - 1 = j + 1 /\ (k - 1) - 1 = j
        BY <1>2, <2>2
      <3>2. B \in Nat /\ L \in Nat
        BY ProperSizes
      <3>3. ~(L < (j + 1) * B)
        BY <1>1, <1>2, <3>1 DEF Ends
      <3> HIDE DEF j, B, L
      <3>4. (j + 1) * B = j * B + B /\ j * B \in Nat
        BY <3>1, <3>2, SMT
      <3>5. ~(L < j * B)
        BY <3>2, <3>3, <3>4
      <3>6. ~Ends(q, j)
        BY <3>5 DEF Ends, B, L
      <3> QED
        BY <3>1, <3>6 DEF Reaches
    <2> QED
      BY <2>1, <2>2
  <1>3. ASSUME Ends(q, k) PROVE k = FinalBlock(q) /\ k # 0
    <2>1. k # 0 /\ ~Ends(q, k - 1)
      BY <1>1, <1>3
    <2>2. PICK j \in Nat : j + 1 = k /\ j = k - 1
      BY <2>1
    <2> QED
      BY <1>3, <2>1, <2>2, BlockFacts
  <1> QED
    BY <1>1, <1>2, <1>3 DEF Reaches

\* The tally of a phase is what has arrived.  A block of a writer that is on its
\* way is the next one.
LEMMA TallyPhase ==
    ASSUME NEW q \in Peers, NEW s \in PeerStates, NEW m, NEW C, NEW o, NEW d, Phase(q, s, m, C, o, d)
    PROVE  /\ Counted(q, Tally(q, s, m), s, C, d)
           /\ ~Reads(q) /\ s.st = "active" /\ s.next # 0 /\ m # {} =>
                 Proper(q) /\ ~Ends(q, s.next - 1)
  <1> DEFINE k == Tally(q, s, m)
             Next1 == ~Reads(q) /\ s.st = "active" /\ s.next # 0 /\ m # {}
                        => Proper(q) /\ ~Ends(q, s.next - 1)
  <1>0. s.next \in Nat /\ Len(<<>>) = 0
    BY EmptySeq DEF PeerStates
  <1>1. CASE Out(q, s, m, C, o, d)
    <2>1. k = 0 /\ s.got = <<>> /\ Next1
      BY <1>0, <1>1 DEF Out, Tally
    <2>2. Arrived(q, 0, s, C, d)
      BY <1>1, NothingArrived DEF Out, Untouched, Arrived
    <2> QED
      BY <2>1, <2>2, NothingArrived DEF Counted
  <1>2. CASE Asked(q, s, m, C, o, d)
    <2>1. k = 0 /\ s.got = <<>> /\ Next1
      BY <1>0, <1>2 DEF Asked, Tally, First
    <2>2. Arrived(q, 0, s, C, d)
      BY <1>2, NothingArrived DEF Asked, Untouched, Arrived
    <2> QED
      BY <2>1, <2>2, NothingArrived DEF Counted
  <1>3. CASE Turned(q, s, m, C, o, d)
    <2>1. k = 0 /\ s.got = <<>> /\ Next1
      BY <1>0, <1>3 DEF Turned, Tally, First
    <2>2. Arrived(q, 0, s, C, d)
      BY <1>3, NothingArrived DEF Turned, Untouched, Arrived
    <2> QED
      BY <2>1, <2>2, NothingArrived DEF Counted
  <1>4. ASSUME Proper(q), NEW j \in Nat, Round(q, j, s, m, C, o, d)
        PROVE  Counted(q, k, s, C, d) /\ Next1
    <2>1. Begins(q, j) /\ Reaches(q, j) /\ (j # 0 => Reaches(q, j - 1))
          /\ (Ends(q, j) => j = FinalBlock(q))
      BY <1>4, RoundReaches DEF Round
    <2>2. s.st # "absent"
      BY <1>4 DEF Round, Queued, Sent, Replied, Through, Waits, Answered
    <2>3. CASE Reads(q)
      <3>1. PICK i \in {j, j - 1} : Blocks(q, s.got, i) /\ Reaches(q, i)
        <4>1. CASE Waits(q, j, s)
          BY <2>1, <2>3, <4>1, NothingArrived DEF Waits
        <4>2. CASE Answered(q, j, s)
          BY <2>1, <2>3, <4>2 DEF Answered
        <4>3. CASE Through(q, j, s, m, C, o, d)
          BY <2>1, <2>3, <4>3 DEF Through
        <4> QED
          BY <1>4, <4>1, <4>2, <4>3 DEF Round, Queued, Sent, Replied
      <3>2. k = i
        BY <2>3, <3>1 DEF Tally, Blocks
      <3> QED
        BY <2>3, <3>1, <3>2 DEF Counted, Arrived
    <2>4. CASE ~Reads(q) /\ (Queued(q, j, s, m, C, o, d) \/ Sent(q, j, s, m, C, o, d))
      <3>1. m = {} /\ s.st = "active" /\ s.next = j
        BY <2>4 DEF Queued, Sent, Waits
      <3>2. k = j
        BY <2>4, <3>1 DEF Tally
      <3>3. Arrived(q, j, s, C, d)
        BY <2>2, <2>4 DEF Queued, Sent, Leaves, Holding, Arrived
      <3> QED
        BY <2>1, <3>1, <3>2, <3>3 DEF Counted
    <2>5. CASE ~Reads(q) /\ Replied(q, j, s, m, C, o, d)
      <3>1. m = {PeerPacket(q, j)} /\ s.st = "active" /\ s.next = j + 1 /\ ~Ends(q, j)
        BY <2>5 DEF Replied, Answered
      <3>2. m # {} /\ s.next # 0 /\ s.next - 1 = j
        BY <3>1
      <3>3. k = j
        BY <2>5, <3>1, <3>2 DEF Tally
      <3>4. Arrived(q, j, s, C, d)
        BY <2>2, <2>5 DEF Replied, Leaves, Holding, Arrived
      <3> QED
        BY <1>4, <2>1, <3>1, <3>2, <3>3, <3>4 DEF Counted
    <2>6. CASE ~Reads(q) /\ Through(q, j, s, m, C, o, d)
      <3>1. s.st = "done" /\ Ends(q, j)
        BY <2>6 DEF Through
      <3>2. k = j
        BY <2>1, <2>6, <3>1 DEF Tally
      <3>3. Arrived(q, j, s, C, d)
        BY <2>2, <2>6 DEF Through, Arrived
      <3> QED
        BY <2>1, <3>1, <3>2, <3>3 DEF Counted
    <2> QED
      BY <1>4, <2>3, <2>4, <2>5, <2>6 DEF Round
  <1> QED
    BY <1>1, <1>2, <1>3, <1>4 DEF Phase

\* What q's side of the transfer has received.
Tallied(q) == Tally(q, peer[q], Mail(q))

\* While SendPackets is about to close a FILE its owner q has no client in the
\* view of the phases, and its file there is what the FILE holds; to everyone
\* else who takes part the view is the truth.
Reaps(q) ==
    LET c == clientpool[cidx]
    IN  /\ pc = "reap" /\ peer[q].st # "absent" /\ Owns(q, c)
        /\ Of(clientpool, q) = {c} /\ Mine(q) = {}
        /\ c.f.mode = "w" => /\ ~Reads(q) /\ c.f.file = Plan[q].req.file
                             /\ Disk[Plan[q].req.file] = c.f.written
        /\ c.f.mode # "w" => Disk = disk
Viewed(q) ==
    /\ Mine(q) = Of(clientpool, q)
    /\ peer[q].st # "absent" => Disk[Plan[q].req.file] = disk[Plan[q].req.file]

LEMMA ReapedView ==
    ASSUME SInv, LockInv, Separate
    PROVE  \A q \in Peers : Viewed(q) \/ Reaps(q)
  <1> DEFINE c == clientpool[cidx]
  <1>1. /\ IInv /\ clientpool \in Seq(Clients) /\ GoodPool(clientpool) /\ disk \in [File -> Seq(Chunks)]
        /\ InCast /\ Known /\ ReapsOwn
    BY DEF SInv, PInv, LInv, IInv, TypeOK, LockInv
  <1>2. CASE pc # "reap"
    BY <1>2 DEF Viewed, Mine, Pool, Disk
  <1>3. CASE pc = "reap"
    <2>1. cidx \in 1..Len(clientpool)
      BY <1>1, <1>3 DEF IInv, Reaping
    <2>2. PICK q \in Peers : peer[q].st # "absent" /\ Owns(q, c)
      BY <1>1, <2>1 DEF Known
    <2>3. Only(q, clientpool, cidx) /\ Pool = RemoveAt(clientpool, cidx)
      BY <1>1, <1>3, <2>1, <2>2, OnlyClient DEF Pool
    <2>4. /\ Of(clientpool, q) = {c} /\ Mine(q) = {}
          /\ \A r : ~Owns(r, c) => Mine(r) = Of(clientpool, r)
      BY <1>1, <2>1, <2>3, OfRemove DEF Mine
    <2>5. c.f.mode = "w" => ~Reads(q) /\ c.f.file = Plan[q].req.file
      BY <1>1, <1>3, <2>2 DEF ReapsOwn
    <2>6. Disk = IF c.f.mode = "w" THEN [disk EXCEPT ![c.f.file] = c.f.written] ELSE disk
      BY <1>3 DEF Disk
    <2>7. Plan[q].req.file \in File
      BY PlanOf
    <2>8. Reaps(q)
      BY <1>1, <1>3, <2>2, <2>4, <2>5, <2>6, <2>7 DEF Reaps
    <2>9. ASSUME NEW r \in Peers, r # q PROVE Viewed(r)
      <3>1. ~Owns(r, c)
        BY <2>2, <2>9, OneOwner
      <3>2. Mine(r) = Of(clientpool, r)
        BY <2>4, <3>1
      <3>3. ASSUME peer[r].st # "absent" PROVE Disk[Plan[r].req.file] = disk[Plan[r].req.file]
        <4>1. c.f.mode = "w" => Plan[q].req.file # Plan[r].req.file
          BY <1>1, <2>2, <2>5, <2>9, <3>3 DEF InCast, Separate
        <4>2. Plan[r].req.file \in File
          BY PlanOf
        <4> QED
          BY <1>1, <2>5, <2>6, <4>1, <4>2
      <3> QED
        BY <3>2, <3>3 DEF Viewed
    <2> QED
      BY <2>8, <2>9
  <1> QED
    BY <1>2, <1>3

\* What was received is the first Tallied(q) blocks of the file.
LEMMA ReceivedTally ==
    ASSUME SInv, LockInv, Separate, NEW q \in Peers
    PROVE  Blocks(q, Received(q), Tallied(q)) /\ Reaches(q, Tallied(q)) /\ Received(q) \in Seq(Chunks)
  <1> DEFINE k == Tallied(q)
             e == Disk[Plan[q].req.file]
             d == disk[Plan[q].req.file]
             held == {i \in ClientOf(q) : clientpool[i].f.mode = "w"}
  <1>1. /\ peer[q] \in PeerStates /\ IInv /\ d \in Seq(Chunks)
        /\ Phase(q, peer[q], Mail(q), Mine(q), outbox[q], e)
    BY PlanOf DEF SInv, PInv, LInv, IInv, TypeOK, NetInv, LockInv, InPhase
  <1>2. Reaches(q, k) /\ Arrived(q, k, peer[q], Mine(q), e)
    BY <1>1, TallyPhase DEF Counted, Tallied
  <1> HIDE DEF k
  <1>3. CASE Reads(q) \/ peer[q].st = "absent"
    <2>1. Received(q) = peer[q].got
      BY <1>3 DEF Received
    <2> QED
      BY <1>1, <1>2, <1>3, <2>1 DEF Arrived, k, PeerStates
  <1>4. CASE ~(Reads(q) \/ peer[q].st = "absent")
    <2>1. Received(q) = IF held = {} THEN d ELSE clientpool[CHOOSE i \in held : TRUE].f.written
      BY <1>4 DEF Received, Stored
    <2>2. \A i \in ClientOf(q) : i \in 1..Len(clientpool) /\ clientpool[i] \in Of(clientpool, q)
      BY DEF ClientOf, Of, Owns
    <2>3. \A c \in Of(clientpool, q) : \E i \in ClientOf(q) : c = clientpool[i]
      BY DEF ClientOf, Of, Owns
    <2>6. Viewed(q) \/ Reaps(q)
      BY ReapedView
    <2>7. Arrived(q, k, peer[q], Of(clientpool, q), d)
      <3>1. CASE Viewed(q)
        BY <1>2, <1>4, <3>1 DEF Viewed
      <3>2. CASE Reaps(q)
        <4> DEFINE c == clientpool[cidx]
        <4>1. /\ Of(clientpool, q) = {c} /\ Mine(q) = {}
              /\ c.f.mode = "w" => e = c.f.written
              /\ c.f.mode # "w" => e = d
          BY <3>2 DEF Reaps
        <4>2. Blocks(q, e, k)
          BY <1>2, <1>4, <4>1 DEF Arrived
        <4> HIDE DEF c, e, d
        <4> QED
          BY <1>4, <4>1, <4>2 DEF Arrived
      <3> QED
        BY <2>6, <3>1, <3>2
    <2>4. CASE held = {}
      <3>1. \A c \in Of(clientpool, q) : c.f.mode # "w"
        BY <2>3, <2>4
      <3> QED
        BY <1>1, <1>2, <1>4, <2>1, <2>4, <2>7, <3>1 DEF Arrived, k
    <2>5. CASE held # {}
      <3> DEFINE i == CHOOSE x \in held : TRUE
      <3>1. i \in held
        BY <2>5
      <3> HIDE DEF i
      <3>2. i \in ClientOf(q) /\ clientpool[i].f.mode = "w"
        BY <3>1
      <3>3. Received(q) = clientpool[i].f.written
        BY <2>1, <2>5 DEF i
      <3>4. clientpool[i] \in Clients
        BY <1>1, <2>2, <3>2, PoolMember
      <3>5. clientpool[i].f.written \in Seq(Chunks)
        BY <3>2, <3>4 DEF Clients, Files, NullFile
      <3> QED
        BY <1>2, <1>4, <2>2, <2>7, <3>2, <3>3, <3>5 DEF Arrived, k
    <2> QED
      BY <2>4, <2>5
  <1> QED
    BY <1>3, <1>4


-----------------------------------------------------------------------------
(***************************************************************************)
(* What Transfer sees: the bytes and the status follow from the tally.     *)
(***************************************************************************)
BytesAt(q, k) == IF k = 0 THEN 0 ELSE Upto(q, k)
StatusAt(q, st, k) ==
    IF st \in {"absent", "refused"} THEN st
    ELSE IF k # 0 /\ Ends(q, k) THEN "done" ELSE "active"

Abstracted ==
    \A q \in Peers :
        /\ Reaches(q, Tallied(q)) /\ Len(Received(q)) = Tallied(q)
        /\ Bytes(q) = BytesAt(q, Tallied(q))
        /\ Status(q) = StatusAt(q, peer[q].st, Tallied(q))

\* They do in every reachable state.
LEMMA LockAbstracted == SInv /\ LockInv /\ Separate => Abstracted
  <1> SUFFICES ASSUME SInv, LockInv, Separate, NEW q \in Peers
               PROVE  /\ Reaches(q, Tallied(q)) /\ Len(Received(q)) = Tallied(q)
                      /\ Bytes(q) = BytesAt(q, Tallied(q))
                      /\ Status(q) = StatusAt(q, peer[q].st, Tallied(q))
    BY DEF Abstracted
  <1> DEFINE t == Received(q)
             k == Tallied(q)
             B == Blocksize(q)
  <1>1. Blocks(q, t, k) /\ Reaches(q, k) /\ t \in Seq(Chunks) /\ k \in Nat
    BY ReceivedTally DEF Reaches
  <1>2. Len(t) = k /\ \A i \in 1..k : t[i] = FileBlock(q, i)
    BY <1>1 DEF Blocks
  <1>3. Bytes(q) = IF t = <<>> THEN 0 ELSE (Len(t) - 1) * B + t[Len(t)].len
    BY DEF Bytes
  <1>4. Status(q) = IF peer[q].st \in {"absent", "refused"} THEN peer[q].st
                    ELSE IF t # <<>> /\ t[Len(t)].len < B THEN "done" ELSE "active"
    BY DEF Status
  <1> HIDE DEF t, k
  <1>5. t = <<>> <=> k = 0
    BY <1>1, <1>2, EmptySeq
  <1>6. CASE k = 0
    BY <1>1, <1>2, <1>3, <1>4, <1>5, <1>6 DEF BytesAt, StatusAt, k, t
  <1>7. CASE k # 0
    <2>1. PICK j \in Nat : k = j + 1 /\ j = k - 1
      BY <1>1, <1>7
    <2>2. Proper(q) /\ ~Ends(q, j) /\ t[Len(t)] = FileBlock(q, k) /\ t # <<>>
      BY <1>1, <1>2, <1>5, <1>7, <2>1 DEF Reaches
    <2>3. /\ Upto(q, k) = j * B + FileBlock(q, k).len
          /\ FileBlock(q, k).len < B <=> Ends(q, k)
      BY <2>1, <2>2, BlockFacts
    <2>4. Bytes(q) = Upto(q, k)
      BY <1>2, <1>3, <2>1, <2>2, <2>3
    <2>5. Status(q) = StatusAt(q, peer[q].st, k)
      BY <1>4, <1>7, <2>2, <2>3 DEF StatusAt
    <2> QED
      BY <1>1, <1>2, <1>7, <2>4, <2>5 DEF BytesAt, k, t
  <1> QED
    BY <1>6, <1>7

\* Nothing is seen of a peer whose state and mail are as before.
LEMMA Unseen ==
    ASSUME Abstracted, Abstracted', NEW r \in Peers, peer'[r] = peer[r], Tallied(r)' = Tallied(r)
    PROVE  Bytes(r)' = Bytes(r) /\ Status(r)' = Status(r)
  BY DEF Abstracted

\* One peer is seen to change.
Changes(q, b, st) ==
    /\ Bytes(q)' = b /\ Status(q)' = st
    /\ \A r \in Peers : r # q => Bytes(r)' = Bytes(r) /\ Status(r)' = Status(r)

\* A step of one transfer leaves what Transfer sees of the others.
LEMMA OthersUnseen ==
    ASSUME Abstracted, Abstracted', NEW q \in Peers,
           \A r \in Peers : r # q => peer'[r] = peer[r] /\ Mail(r)' = Mail(r)
    PROVE  Changes(q, Bytes(q)', Status(q)')
  <1>1. ASSUME NEW r \in Peers, r # q PROVE Bytes(r)' = Bytes(r) /\ Status(r)' = Status(r)
    <2>1. peer'[r] = peer[r] /\ Mail(r)' = Mail(r)
      BY <1>1
    <2>2. Tallied(r)' = Tallied(r)
      BY <2>1 DEF Tallied
    <2> QED
      BY <2>1, <2>2, Unseen
  <1> QED
    BY <1>1 DEF Changes

\* The three things it can be seen to do: nothing.
LEMMA SeenNothing ==
    ASSUME NEW q \in Peers, Changes(q, Bytes(q), Status(q))
    PROVE  UNCHANGED T!tvars
  BY DEF Changes, T!tvars

\* A refusal before the first byte.
LEMMA SeenRefused ==
    ASSUME NEW q \in Peers, Status(q) = "active", Bytes(q) = 0, Changes(q, Bytes(q), "refused")
    PROVE  T!Refuse(q)
  BY DEF Changes, T!Refuse

\* The next block arrives.
LEMMA SeenArrive ==
    ASSUME Abstracted, Abstracted', NEW q \in Peers, Proper(q), NEW k \in Nat, ~Ends(q, k),
           Tallied(q) = k, Tallied(q)' = k + 1, Changes(q, Bytes(q)', Status(q)'),
           peer[q].st \notin {"absent", "refused"}, peer'[q].st \notin {"absent", "refused"}
    PROVE  T!Arrive(q)
  <1> DEFINE B == Blocksize(q)
             L == FileLen(q)
             len == FileBlock(q, k + 1).len
             next == IF L - Bytes(q) < B THEN L - Bytes(q) ELSE B
  <1>1. /\ k * B \in Nat /\ k * B <= L /\ Upto(q, k) = k * B
        /\ len = (IF k * B + B <= L THEN B ELSE L - k * B)
        /\ len \in Nat /\ (len < B <=> Ends(q, k + 1))
        /\ Upto(q, k + 1) = k * B + len
    BY BlockFacts
  <1>2. B \in Nat /\ L \in Nat /\ B >= 8
    BY ProperSizes
  <1>3. Bytes(q) = k * B
    <2>1. Bytes(q) = BytesAt(q, k)
      BY DEF Abstracted
    <2>2. k = 0 => k * B = 0
      BY <1>2, SMT
    <2> QED
      BY <1>1, <2>1, <2>2 DEF BytesAt
  <1>4. Bytes(q)' = k * B + len
    <2>1. Bytes(q)' = BytesAt(q, k + 1) /\ k + 1 # 0
      BY DEF Abstracted
    <2> QED
      BY <1>1, <2>1 DEF BytesAt
  <1>5. Status(q) = "active"
    <2>1. Status(q) = StatusAt(q, peer[q].st, k)
      BY DEF Abstracted
    <2> QED
      BY <2>1 DEF StatusAt
  <1>6. Status(q)' = IF Ends(q, k + 1) THEN "done" ELSE "active"
    <2>1. Status(q)' = StatusAt(q, peer'[q].st, k + 1) /\ k + 1 # 0
      BY DEF Abstracted
    <2> QED
      BY <2>1 DEF StatusAt
  <1> HIDE DEF len, B, L
  <1>7. next = len
    BY <1>1, <1>2, <1>3
  <1> HIDE DEF next
  <1>8. T!NextLen(q) = next
    BY DEF T!NextLen, next, B, L
  <1>9. [r \in Peers |-> Bytes(r)'] = [[r \in Peers |-> Bytes(r)] EXCEPT ![q] = @ + next]
    BY <1>3, <1>4, <1>7 DEF Changes
  <1>10. [r \in Peers |-> Status(r)'] =
            IF next < B THEN [[r \in Peers |-> Status(r)] EXCEPT ![q] = "done"]
                        ELSE [r \in Peers |-> Status(r)]
    BY <1>1, <1>5, <1>6, <1>7 DEF Changes
  <1> QED
    BY <1>5, <1>8, <1>9, <1>10 DEF T!Arrive, B


\* A peer's step as Transfer sees it.
LEMMA ProgressSeen ==
    ASSUME SInv, LockInv, Abstracted, Abstracted', NEW q \in Peers, Progress(q)
    PROVE  [T!TNext]_(T!tvars)
  <1> DEFINE s == peer[q]
             t == peer'[q]
  <1>1. /\ Stays(q) \/ Gains(q) \/ Yields(q)
        /\ t.st = "absent" <=> s.st = "absent"
        /\ UNCHANGED <<clientpool, disk>>
    BY DEF Progress, vars
  <1>2. Changes(q, Bytes(q)', Status(q)')
    BY OthersUnseen DEF Progress
  <1>3. t.got = s.got => Received(q)' = Received(q)
    BY <1>1 DEF Received, Stored, ClientOf
  <1>4. t.got = s.got => Tallied(q)' = Tallied(q)
    BY <1>3 DEF Abstracted
  <1>5. CASE Stays(q)
    <2>1. Tallied(q)' = Tallied(q) /\ (t.st = "refused" <=> s.st = "refused")
      BY <1>4, <1>5 DEF Stays
    <2>2. Bytes(q)' = Bytes(q) /\ Status(q)' = Status(q)
      BY <1>1, <2>1 DEF Abstracted, StatusAt
    <2>3. Changes(q, Bytes(q), Status(q))
      BY <1>2, <2>2
    <2> QED
      BY <2>3, SeenNothing
  <1>6. CASE Yields(q)
    <2>1. /\ s.st = "active" /\ t.st = "refused" /\ t.got = s.got
          /\ s.got = <<>> /\ s.next = First(q)
      BY <1>6 DEF Yields, Turned
    <2>2. Tallied(q) = 0
      <3>1. Len(<<>>) = 0
        BY EmptySeq
      <3> QED
        BY <2>1, <3>1 DEF Tallied, Tally, First
    <2>3. Bytes(q) = 0 /\ Status(q) = "active"
      BY <2>1, <2>2 DEF Abstracted, BytesAt, StatusAt
    <2>4. Bytes(q)' = 0 /\ Status(q)' = "refused"
      BY <1>4, <2>1, <2>2 DEF Abstracted, BytesAt, StatusAt
    <2>5. Changes(q, Bytes(q), "refused")
      BY <1>2, <2>3, <2>4
    <2> QED
      BY <2>3, <2>5, SeenRefused DEF T!TNext
  <1>7. CASE Gains(q)
    <2>1. /\ Reads(q) /\ Proper(q) /\ s.st = "active" /\ t.st \in {"active", "done"}
          /\ OneMore(q, s, t)
      BY <1>7 DEF Gains
    <2>2. PICK k \in Nat : ~Ends(q, k) /\ Blocks(q, s.got, k) /\ Blocks(q, t.got, k + 1)
      BY <2>1 DEF OneMore
    <2>3. Tallied(q) = k /\ Tallied(q)' = k + 1
      BY <2>1, <2>2 DEF Tallied, Tally, Blocks
    <2>4. T!Arrive(q)
      BY <1>2, <2>1, <2>2, <2>3, SeenArrive
    <2> QED
      BY <2>4 DEF T!TNext
  <1> QED
    BY <1>1, <1>5, <1>6, <1>7

\* A delivery as Transfer sees it.
LEMMA EmptiesSeen ==
    ASSUME SInv, LockInv, Abstracted, Abstracted', NEW q \in Peers, Empties(q)
    PROVE  [T!TNext]_(T!tvars)
  <1> DEFINE s == peer[q]
  <1>1. /\ Mail(q) # {} /\ Mail(q)' = {} /\ peer' = peer
        /\ \A r \in Peers : r # q => peer'[r] = peer[r] /\ Mail(r)' = Mail(r)
    BY DEF Empties
  <1>2. Changes(q, Bytes(q)', Status(q)')
    BY <1>1, OthersUnseen
  <1>3. /\ s \in PeerStates /\ s.next \in Nat
        /\ Phase(q, s, Mail(q), Mine(q), outbox[q], Disk[Plan[q].req.file])
    BY DEF SInv, NetInv, PeerStates, LockInv, InPhase
  <1>4. CASE ~Reads(q) /\ s.st = "active" /\ s.next # 0
    <2>1. Proper(q) /\ ~Ends(q, s.next - 1)
      BY <1>1, <1>3, <1>4, TallyPhase
    <2>2. PICK k \in Nat : k = s.next - 1 /\ k + 1 = s.next
      BY <1>3, <1>4
    <2>3. Tallied(q) = k /\ Tallied(q)' = k + 1
      BY <1>1, <1>4, <2>2 DEF Tallied, Tally
    <2>4. peer[q].st \notin {"absent", "refused"} /\ peer'[q].st \notin {"absent", "refused"}
      BY <1>1, <1>4
    <2>5. T!Arrive(q)
      BY <1>2, <2>1, <2>2, <2>3, <2>4, SeenArrive
    <2> QED
      BY <2>5 DEF T!TNext
  <1>5. CASE ~(~Reads(q) /\ s.st = "active" /\ s.next # 0)
    <2>1. Tallied(q)' = Tallied(q)
      BY <1>1, <1>5 DEF Tallied, Tally
    <2>2. Bytes(q)' = Bytes(q) /\ Status(q)' = Status(q)
      BY <1>1, <2>1, Unseen
    <2>3. Changes(q, Bytes(q), Status(q))
      BY <1>2, <2>2
    <2> QED
      BY <2>3, SeenNothing
  <1> QED
    BY <1>4, <1>5

\* Every step of the composed system is one of Transfer, or stutters.
LEMMA StepSeen ==
    ASSUME SInv, LockInv, Abstracted, Abstracted', Reliable, Separate, [SNext]_svars
    PROVE  [T!TNext]_(T!tvars)
  <1>1. Moving
    BY NextLockInv
  <1>2. CASE UNCHANGED <<peer, inbox>>
    <2>1. \A r \in Peers : Tallied(r)' = Tallied(r) /\ peer'[r] = peer[r]
      BY <1>2 DEF Tallied, Mail
    <2>2. \A r \in Peers : Bytes(r)' = Bytes(r) /\ Status(r)' = Status(r)
      BY <2>1, Unseen
    <2> QED
      BY <2>2 DEF T!tvars
  <1> QED
    BY <1>1, <1>2, ProgressSeen, EmptiesSeen DEF Moving

\* At first nothing has arrived.
LEMMA InitSeen == SInit /\ Separate => T!TInit
  <1> SUFFICES ASSUME SInit, Separate PROVE T!TInit
    OBVIOUS
  <1>1. Abstracted
    BY InitSInv, InitLockInv, LockAbstracted
  <1>2. PICK cast \in Casts :
           peer = [q \in Peers |-> PeerInit(IF q \in cast THEN "start" ELSE "absent")]
    BY DEF SInit
  <1>3. ASSUME NEW q \in Peers PROVE Bytes(q) = 0 /\ Status(q) \in {"absent", "active"}
    <2>1. peer[q].st \in {"absent", "start"} /\ peer[q].got = <<>> /\ Len(<<>>) = 0
      BY <1>2, EmptySeq DEF PeerInit
    <2>2. Tallied(q) = 0
      BY <2>1 DEF Tallied, Tally
    <2> QED
      BY <1>1, <2>1, <2>2 DEF Abstracted, BytesAt, StatusAt
  <1> QED
    BY <1>3 DEF T!TInit

-----------------------------------------------------------------------------
(***************************************************************************)
(* The theorems.                                                           *)
(***************************************************************************)

\* On a network without faults the server implements the abstract transfer for
\* peers that do not get in each other's way: to each of them the bytes of its
\* file arrive in order, a block at a time and each once, or it is refused before
\* the first (ProcessPacket, SendPackets and the event loop with any number of
\* peers at once).
THEOREM ServerImplementsTransfer ==
    ASSUME Reliable, Separate
    PROVE  SSpec => ImplementsTransfer
  <1>1. SInit => T!TInit
    BY InitSeen
  <1>2. /\ SInv /\ LockInv /\ Abstracted /\ Abstracted' /\ [SNext]_svars
        => [T!TNext]_(T!tvars)
    BY StepSeen
  <1>3. SSpec => [](SInv /\ LockInv)
    BY LockInvariance
  <1>4. SInv /\ LockInv => Abstracted
    BY LockAbstracted
  <1>5. SSpec => T!TInit /\ [][T!TNext]_(T!tvars)
    BY <1>1, <1>2, <1>3, <1>4, PTL DEF SSpec
  <1> QED
    BY <1>5 DEF ImplementsTransfer, T!TSafety


\* A writer that has its last acknowledgement finds its whole file on disk, once
\* the FILE that SendPackets is about to close is closed.
LEMMA DiskType ==
    ASSUME SInv
    PROVE  Disk \in [File -> Seq(Chunks)]
  <1> DEFINE c == clientpool[cidx]
  <1>1. IInv /\ disk \in [File -> Seq(Chunks)]
    BY DEF SInv, PInv, LInv, IInv, TypeOK
  <1>2. CASE pc = "reap" /\ c.f.mode = "w"
    <2>1. c \in Clients
      BY <1>1, <1>2, PoolMember DEF IInv, Reaping
    <2>2. c.f.file \in File /\ c.f.written \in Seq(Chunks)
      BY <1>2, <2>1 DEF Clients, Files, NullFile
    <2> QED
      BY <1>1, <1>2, <2>2 DEF Disk
  <1>3. CASE ~(pc = "reap" /\ c.f.mode = "w")
    BY <1>1, <1>3 DEF Disk
  <1> QED
    BY <1>2, <1>3

LEMMA LockWhole ==
    ASSUME SInv, LockInv, NEW q \in Peers, peer[q].st = "done", ~Reads(q)
    PROVE  Whole(q, Disk[Plan[q].req.file])
  <1> DEFINE d == Disk[Plan[q].req.file]
  <1>1. d \in Seq(Chunks) /\ Phase(q, peer[q], Mail(q), Mine(q), outbox[q], d)
    BY PlanOf, DiskType DEF LockInv, InPhase
  <1> HIDE DEF d
  <1>2. PICK k \in Nat : Proper(q) /\ Round(q, k, peer[q], Mail(q), Mine(q), outbox[q], d)
    BY <1>1 DEF Phase, Out, Asked, Turned
  <1>3. Through(q, k, peer[q], Mail(q), Mine(q), outbox[q], d) /\ Begins(q, k)
    BY <1>2 DEF Round, Queued, Sent, Replied, Waits, Answered
  <1>4. Ends(q, k) /\ Blocks(q, d, k)
    BY <1>3 DEF Through
  <1>5. k = FinalBlock(q)
    BY <1>2, <1>3, <1>4, RoundReaches
  <1>6. Len(d) = k /\ DOMAIN d = 1..k /\ \A i \in 1..k : d[i] = FileBlock(q, i)
    BY <1>1, <1>4, LenProperties DEF Blocks
  <1>7. d = [n \in 1..k |-> FileBlock(q, n)]
    <2>1. d = [n \in DOMAIN d |-> d[n]]
      BY <1>1, LenProperties
    <2> QED
      BY <1>6, <2>1
  <1> QED
    BY <1>5, <1>7 DEF d, Whole

LEMMA LockSaved == SInv /\ LockInv /\ Separate => AckedIsSaved
  <1> SUFFICES ASSUME SInv, LockInv, Separate, NEW q \in Peers, peer[q].st = "done", ~Reads(q)
               PROVE  \/ Whole(q, disk[Plan[q].req.file])
                      \/ /\ pc = "reap" /\ cidx \in ClientOf(q)
                         /\ clientpool[cidx].f.mode = "w" /\ clientpool[cidx].f.file = Plan[q].req.file
                         /\ Whole(q, clientpool[cidx].f.written)
    BY DEF AckedIsSaved, Acked
  <1>1. Whole(q, Disk[Plan[q].req.file])
    BY LockWhole
  <1>2. Viewed(q) \/ Reaps(q)
    BY ReapedView
  <1>3. CASE Viewed(q)
    BY <1>1, <1>3 DEF Viewed
  <1>4. CASE Reaps(q)
    <2>1. pc = "reap" /\ Owns(q, clientpool[cidx])
      BY <1>4 DEF Reaps
    <2>2. cidx \in ClientOf(q)
      BY <2>1 DEF SInv, PInv, LInv, IInv, Reaping, ClientOf, Owns
    <2> QED
      BY <1>1, <1>4, <2>1, <2>2 DEF Reaps
  <1> QED
    BY <1>2, <1>3, <1>4

\* The client that is left when its transfer is over and its queue is empty has
\* no FILE.
LEMMA LockReleased == SInv /\ LockInv => FilesReleased
  <1> SUFFICES ASSUME SInv, LockInv, \A q \in Peers : Over(q), Quiet,
                      NEW i \in 1..Len(clientpool)
               PROVE  clientpool[i].f.mode = "null"
    BY DEF FilesReleased, LockInv
  <1> DEFINE c == clientpool[i]
  <1>1. Good(c) /\ c.queue = <<>>
    BY PoolMember DEF SInv, PInv, LInv, Quiet
  <1>2. ~c.destroy
    BY <1>1 DEF Good, Core
  <1>3. PICK q \in Peers : peer[q].st # "absent" /\ Owns(q, c)
    BY DEF LockInv, Known
  <1> DEFINE s == peer[q]
             d == Disk[Plan[q].req.file]
  <1>4. c \in Mine(q)
    <2>1. pc = "reap" => cidx \in 1..Len(clientpool) /\ clientpool[cidx].destroy
      BY DEF SInv, PInv, LInv, IInv, Reaping
    <2>2. pc = "reap" => Good(clientpool[cidx]) /\ clientpool[cidx].queue = <<>>
      BY <2>1, PoolMember DEF SInv, PInv, LInv, Quiet
    <2>3. pc # "reap"
      BY <2>1, <2>2 DEF Good, Core
    <2> QED
      BY <1>3, <2>3 DEF Mine, Pool, Of
  <1>5. s.st \in {"done", "refused"}
    BY <1>3 DEF Over
  <1>6. Mail(q) = {}
    <2>1. inbox[Plan[q].fd] = <<>>
      BY PlanOf DEF Quiet
    <2>2. Len(<<>>) = 0 /\ 1..0 = {}
      BY EmptySeq
    <2> QED
      BY <2>1, <2>2 DEF Mail, From
  <1>7. Phase(q, s, {}, Mine(q), outbox[q], d)
    BY <1>6 DEF LockInv, InPhase
  <1>8. Len(c.queue) = 0
    BY <1>1, EmptySeq
  <1> HIDE DEF c, d
  <1>9. ASSUME Turned(q, s, {}, Mine(q), outbox[q], d)
        PROVE  c.f.mode = "null"
    BY <1>2, <1>4, <1>9 DEF Turned
  <1>10. ASSUME NEW k \in Nat, Through(q, k, s, {}, Mine(q), outbox[q], d)
         PROVE  c.f.mode = "null"
    <2>1. Reads(q) /\ Trails(q, {}, c)
      BY <1>4, <1>10 DEF Through
    <2> QED
      BY <1>2, <2>1 DEF Trails, Idles
  <1>11. c.f.mode = "null"
    BY <1>5, <1>7, <1>9, <1>10 DEF Phase, Out, Asked, Round, Queued, Sent, Replied, Waits, Answered
  <1> QED
    BY <1>11 DEF c

\* What is queued in a phase.
LEMMA LockLabelled == SInv /\ LockInv /\ pc # "reap" => BlocksLabelled
  <1> SUFFICES ASSUME SInv, LockInv, pc # "reap", NEW q \in Peers, NEW i \in ClientOf(q),
                      NEW j \in DOMAIN clientpool[i].queue
               PROVE  Labelled(q, clientpool[i].queue[j])
    BY DEF BlocksLabelled
  <1> DEFINE c == clientpool[i]
             d == Disk[Plan[q].req.file]
             p == c.queue[j]
  <1>1. i \in 1..Len(clientpool) /\ c \in Mine(q)
    BY DEF ClientOf, Mine, Pool, Of, Owns
  <1>2. c.queue \in Seq(OutPackets)
    BY <1>1, PoolMember DEF SInv, PInv, LInv
  <1>3. j \in 1..Len(c.queue) /\ c.queue # <<>>
    BY <1>2, LenProperties, EmptySeq
  <1>4. Phase(q, peer[q], Mail(q), Mine(q), outbox[q], d)
    BY DEF LockInv, InPhase
  <1> HIDE DEF c, d
  <1>5. CASE Turned(q, peer[q], Mail(q), Mine(q), outbox[q], d)
    <2>1. Hopeless(q, c.queue)
      BY <1>1, <1>5 DEF Turned
    <2> QED
      BY <1>3, <2>1 DEF Hopeless, Labelled, c
  <1>6. ASSUME Proper(q), NEW k \in Nat, Round(q, k, peer[q], Mail(q), Mine(q), outbox[q], d)
        PROVE  Labelled(q, p)
    <2>1. Begins(q, k)
      BY <1>6 DEF Round
    <2>2. CASE Queued(q, k, peer[q], Mail(q), Mine(q), outbox[q], d)
      <3>1. c.queue = <<ServerPacket(q, k)>>
        BY <1>1, <2>2 DEF Queued
      <3>2. p = ServerPacket(q, k)
        <4>1. j = 1 /\ c.queue[1] = ServerPacket(q, k)
          BY <1>3, <3>1
        <4> QED
          BY <4>1
      <3> HIDE DEF p
      <3>3. CASE p.op # "DATA"
        BY <3>3 DEF Labelled
      <3>4. CASE p.op = "DATA"
        <4>1. Reads(q) /\ k # 0 /\ p = DataPacket(k % Modulus, FileBlock(q, k)) /\ ~Ends(q, k - 1)
          <5>1. /\ ~Reads(q) => p.op = "ACK"
                /\ k = 0 /\ Reads(q) => p.op = "OACK"
            BY <1>6, <2>1, <3>2, PacketFacts DEF AckPacket
          <5>2. Reads(q) /\ k # 0
            BY <3>4, <5>1
          <5> QED
            BY <1>6, <2>1, <3>2, <5>2, PacketFacts
        <4>2. PICK x \in Nat : x + 1 = k /\ x = k - 1
          BY <4>1
        <4>3. k \in 1..FinalBlock(q)
          BY <1>6, <4>1, <4>2, BlockFacts
        <4>4. p.blockno = k % Modulus /\ p.data = FileBlock(q, k)
          BY <4>1 DEF DataPacket
        <4> QED
          BY <4>3, <4>4 DEF Labelled
      <3> QED
        BY <3>3, <3>4
    <2>3. CASE Sent(q, k, peer[q], Mail(q), Mine(q), outbox[q], d) \/
               Replied(q, k, peer[q], Mail(q), Mine(q), outbox[q], d)
      BY <1>1, <1>3, <2>3 DEF Sent, Replied, Leaves
    <2>4. CASE Through(q, k, peer[q], Mail(q), Mine(q), outbox[q], d)
      <3>1. Trails(q, Mail(q), c)
        BY <1>1, <2>4 DEF Through
      <3>2. Len(c.queue) = 1 /\ c.queue[1].op = "DATA" /\ c.queue[1].data.len = 0
        BY <1>3, <3>1 DEF Trails, Idles
      <3>3. j = 1
        BY <1>3, <3>2
      <3> QED
        BY <3>2, <3>3 DEF Labelled
    <2> QED
      BY <1>6, <2>2, <2>3, <2>4 DEF Round
  <1> QED
    BY <1>1, <1>4, <1>5, <1>6 DEF Phase, Out, Asked, c

\* When a writer has the last acknowledgement its whole file is on the disk, or in
\* the FILE that SendPackets closes next: the ACK goes out before fclose, but in
\* the iteration that closes the FILE, and no other transfer touches that file.
\* (Reliable: the disk refuses nothing.)
THEOREM AcknowledgedIsSaved ==
    ASSUME Reliable, Separate
    PROVE  SSpec => []AckedIsSaved
  BY LockInvariance, LockSaved, PTL

\* When all transfers are over and the network is quiet the server holds no FILE
\* any more: neither one it lost the pointer to in ProcessPacket nor one of a
\* client that SendPackets did not reap.
THEOREM TransfersReleaseFiles ==
    ASSUME Reliable, Separate
    PROVE  SSpec => []FilesReleased
  BY LockInvariance, LockReleased, PTL

\* Readers and the server's files for writers receive the blocks of the file in
\* order, with any number of transfers at once.
THEOREM TransfersInOrder ==
    ASSUME Reliable, Separate
    PROVE  SSpec => []ReceivedInOrder
  <1>1. SInv /\ LockInv => ReceivedInOrder
    <2>1. SUFFICES ASSUME SInv, LockInv, NEW q \in Peers, NEW i \in DOMAIN Received(q)
                   PROVE  Received(q)[i] = FileBlock(q, i)
      BY DEF ReceivedInOrder
    <2> DEFINE t == Received(q)
               k == Tallied(q)
    <2>2. Blocks(q, t, k) /\ t \in Seq(Chunks) /\ i \in DOMAIN t
      BY <2>1, ReceivedTally
    <2> HIDE DEF t, k
    <2>3. i \in 1..Len(t) /\ Len(t) = k
      BY <2>2, LenProperties DEF Blocks
    <2>4. t[i] = FileBlock(q, i)
      BY <2>2, <2>3 DEF Blocks
    <2> QED
      BY <2>4 DEF t
  <1> QED
    BY <1>1, LockInvariance, PTL

\* Every DATA packet the server queues carries the block its number says, readers
\* with and without option alike.
THEOREM TransfersLabelBlocks ==
    ASSUME Reliable, Separate
    PROVE  SSpec => []BlocksLabelled
  <1> DEFINE Settled == pc # "reap" => BlocksLabelled
  <1>1. SInv /\ LockInv => Settled
    BY LockLabelled
  <1>2. SInit => BlocksLabelled
    BY InitSInv, InitLockInv, LockLabelled DEF SInit, Init
  <1>3. SInv /\ LockInv /\ BlocksLabelled /\ [SNext]_svars /\ Settled' => BlocksLabelled'
    <2> SUFFICES ASSUME BlocksLabelled, [SNext]_svars, pc' = "reap" PROVE BlocksLabelled'
      OBVIOUS
    <2>1. clientpool' = clientpool
      <3>1. ~Idle /\ ~Deliver /\ ~Reap
        BY DEF Idle, CheckClient, CheckedClients, SentPackets, ReceiveNothing, EpollTimeout, EpollEvent,
               Deliver, Receive, Reap, ReapClient, Goto
      <3>2. CASE Transmit
        BY <3>2 DEF Transmit, SendClient
      <3>3. ASSUME NEW q \in Peers, PeerRequest(q) \/ PeerStep(q) \/ PeerTimeout(q)
            PROVE  clientpool' = clientpool
        BY <3>3 DEF PeerRequest, PeerStep, PeerReads, PeerWrites, PeerConfirms, PeerGivesUp,
                    PeerIgnores, PeerTimeout, vars
      <3>4. CASE Network
        BY <3>4 DEF Network, LoseRequest, LoseReply, DuplicateRequest, DuplicateReply, vars
      <3> QED
        BY <3>1, <3>2, <3>3, <3>4 DEF SNext, ServerStep, svars, vars
    <2> QED
      BY <2>1 DEF BlocksLabelled, ClientOf
  <1>4. SSpec => [](SInv /\ LockInv)
    BY LockInvariance
  <1> HIDE DEF Settled
  <1> QED
    BY <1>1, <1>2, <1>3, <1>4, PTL DEF SSpec

\* The process survives such transfers, provided that logging the option of a
\* request that has none (ProcessPacket prints an unset pointer) does no harm, and
\* that no request makes Error quote more than fits a packet.
THEOREM TransfersSurvive ==
    ASSUME Reliable, Separate, AllFit, StrayRead = {TRUE}
    PROVE  SSpec => []StaysAlive
  <1>1. SInit => StaysAlive
    BY DEF SInit, Init, StaysAlive
  <1>2. SInv /\ LockInv /\ StaysAlive /\ [SNext]_svars => StaysAlive'
    BY NextLockInv DEF StaysAlive
  <1>3. SSpec => [](SInv /\ LockInv)
    BY LockInvariance
  <1> QED
    BY <1>1, <1>2, <1>3, PTL DEF SSpec

=============================================================================
