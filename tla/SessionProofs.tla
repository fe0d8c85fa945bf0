---------------------------- MODULE SessionProofs ---------------------------
(***************************************************************************)
(* The server with its peers and the network.  The invariants of Server    *)
(* hold here too; and readers that negotiate a block size are proved to be *)
(* served in order whatever the network loses or duplicates.               *)
(***************************************************************************)
EXTENDS ServerProofs, Session

-----------------------------------------------------------------------------
(***************************************************************************)
(* Peers and network.                                                      *)
(***************************************************************************)
Letters == [peer : Peers, pkt : InPackets]
LettersTo(fd) == {m \in Letters : Plan[m.peer].fd = fd}

PeerStates ==
    [st : {"absent", "start", "active", "done", "refused"}, next : Nat, got : Seq(Chunks),
     last : InPackets \union {NoPacket}, retries : 0..MaxRetry]

\* A peer that is active can repeat itself.
Speaks(s) == s.st = "active" => s.last \in InPackets

NetInv ==
    /\ inbox \in [Fd -> Seq(Letters)] /\ \A fd \in Fd : inbox[fd] \in Seq(LettersTo(fd))
    /\ outbox \in [Peers -> Seq(OutPackets)]
    /\ peer \in [Peers -> PeerStates] /\ \A q \in Peers : Speaks(peer[q])
    /\ loss \in 0..MaxLoss /\ dup \in 0..MaxDup
    /\ open = Fd

SInv == PInv /\ NetInv

-----------------------------------------------------------------------------
(***************************************************************************)
(* What a step may do to a channel: nothing, take its first datagram, lose *)
(* one or repeat one.  None of that brings in a new datagram.              *)
(***************************************************************************)
Moves(s, t) ==
    \/ t = s
    \/ s # <<>> /\ t = Tail(s)
    \/ \E i \in DOMAIN s : t = RemoveAt(s, i) \/ t = Append(s, s[i])

\* Such a step leaves only datagrams that were in the channel.
LEMMA MovesKeep ==
    ASSUME NEW S, NEW s \in Seq(S), NEW t, Moves(s, t)
    PROVE  t \in Seq(S)
  <1>1. DOMAIN s = 1..Len(s) /\ \A i \in 1..Len(s) : s[i] \in S
    BY LenProperties, ElementOfSeq
  <1>2. CASE s # <<>> /\ t = Tail(s)
    BY <1>2, HeadTailProperties
  <1>3. ASSUME NEW i \in 1..Len(s), t = RemoveAt(s, i) PROVE t \in Seq(S)
    BY <1>3, RemoveAtProperties
  <1>4. ASSUME NEW i \in 1..Len(s), t = Append(s, s[i]) PROVE t \in Seq(S)
    BY <1>1, <1>4, AppendProperties
  <1> QED
    BY <1>1, <1>2, <1>3, <1>4 DEF Moves

\* The packets a peer sends.
LEMMA FileBlockGood ==
    ASSUME NEW q \in Peers, ~Reads(q), NEW n \in Nat, 0 < n, n <= FinalBlock(q)
    PROVE  FileBlock(q, n) \in Chunks
  <1>1. Plan[q].size \in Nat /\ Plan[q].req \in Requests
    BY PlanAssumption
  <1>2. Plan[q].req.file \in File
    BY <1>1 DEF Requests
  <1>3. Blocksize(q) = 512 /\ FileLen(q) = Plan[q].size
    BY DEF Blocksize, FileLen, DEFAULT_BLKSIZE
  <1> DEFINE off == (n - 1) * 512
             len == IF off + 512 <= Plan[q].size THEN 512 ELSE Plan[q].size - off
  <1>4. n <= Plan[q].size \div 512 + 1
    BY <1>3 DEF FinalBlock
  <1>5. off \in Nat /\ len \in Nat
    BY <1>1, <1>4
  <1>6. FileBlock(q, n) = Chunk(Plan[q].req.file, off, len)
    BY <1>3 DEF FileBlock
  <1> HIDE DEF off, len
  <1> QED
    BY <1>2, <1>5, <1>6 DEF Chunk, Chunks

\* An acknowledgement is a packet the server may receive.
LEMMA AckIsInbound == \A b \in Nat : AckPacket(b) \in InPackets
  BY DEF AckPacket, InPackets

\* What the peer takes out of its channel.
LEMMA HeadGood ==
    ASSUME NetInv, NEW q \in Peers, PeerTakes(q)
    PROVE  LET p == Head(outbox[q])
           IN  /\ p \in OutPackets
               /\ p.op = "DATA" => p.blockno \in Nat /\ p.data \in Chunks
  <1> DEFINE p == Head(outbox[q])
  <1>1. outbox[q] \in Seq(OutPackets) /\ outbox[q] # <<>>
    BY DEF NetInv, PeerTakes
  <1>2. p \in OutPackets
    BY <1>1, HeadTailProperties
  <1> HIDE DEF p
  <1>3. p.op = "DATA" => p.blockno \in Nat /\ p.data \in Chunks
    BY <1>2 DEF OutPackets, FreedPacket
  <1> QED
    BY <1>2, <1>3 DEF p

\* One peer acts: it changes its own state, takes at most one datagram and sends
\* at most one, which it can repeat.
PeerActs(q, s) ==
    /\ peer' = [peer EXCEPT ![q] = s]
    /\ inbox' = inbox \/ (SendTo(q, s.last) /\ s.last \in InPackets)
    /\ outbox' = outbox \/ PeerTakes(q)
    /\ UNCHANGED <<vars, loss, dup>>

\* A peer that sends a packet acts and can repeat it.
LEMMA SendsActs ==
    ASSUME NetInv, NEW q \in Peers, NEW p \in InPackets, NEW state \in PeerStates,
           PeerSends(q, p, state), outbox' = outbox \/ PeerTakes(q), UNCHANGED <<vars, loss, dup>>
    PROVE  \E s \in PeerStates : Speaks(s) /\ PeerActs(q, s)
  <1> DEFINE s == [state EXCEPT !.last = p]
  <1>1. s \in PeerStates /\ s.last = p
    BY DEF PeerStates
  <1>2. peer' = [peer EXCEPT ![q] = s] /\ SendTo(q, p)
    BY DEF PeerSends
  <1> HIDE DEF s
  <1>3. PeerActs(q, s) /\ Speaks(s)
    BY <1>1, <1>2 DEF PeerActs, Speaks
  <1> QED
    BY <1>1, <1>3

\* Every step of a peer is of that form, with a well-formed state.
LEMMA PeerGood ==
    ASSUME NetInv, NEW q \in Peers, PeerRequest(q) \/ PeerStep(q) \/ PeerTimeout(q)
    PROVE  \E s \in PeerStates : Speaks(s) /\ PeerActs(q, s)
  <1> DEFINE t == peer[q]
  <1>1. /\ peer \in [Peers -> PeerStates] /\ t \in PeerStates /\ Speaks(t)
        /\ t.next \in Nat /\ t.got \in Seq(Chunks) /\ t.retries \in 0..MaxRetry /\ MaxRetry \in Nat
    BY PlanAssumption DEF NetInv, PeerStates
  <1>2. CASE PeerRequest(q)
    <2> DEFINE state == [t EXCEPT !.st = "active", !.next = IF Reads(q) THEN 1 ELSE 0]
    <2>1. state \in PeerStates
      BY <1>1 DEF PeerStates
    <2>2. Plan[q].req \in InPackets
      BY PlanAssumption DEF InPackets
    <2>3. PeerSends(q, Plan[q].req, state) /\ UNCHANGED <<vars, outbox, loss, dup>>
      BY <1>2 DEF PeerRequest
    <2> HIDE DEF state
    <2> QED
      BY <2>1, <2>2, <2>3, SendsActs
  <1>3. CASE PeerReads(q)
    <2> DEFINE p == Head(outbox[q])
               state == [t EXCEPT !.next = @ + 1, !.got = Append(@, p.data),
                                  !.st = IF p.data.len < Blocksize(q) THEN "done" ELSE @]
    <2>1. /\ Reads(q) /\ PeerTakes(q) /\ Wanted(q, p) /\ PeerSends(q, AckPacket(p.blockno), state)
          /\ UNCHANGED <<vars, loss, dup>>
      BY <1>3 DEF PeerReads
    <2>2. p.blockno \in Nat /\ p.data \in Chunks
      BY <2>1, HeadGood DEF Wanted
    <2> HIDE DEF p
    <2>3. Append(t.got, p.data) \in Seq(Chunks) /\ t.next + 1 \in Nat
      BY <1>1, <2>2, AppendProperties
    <2>4. state \in PeerStates
      BY <1>1, <2>3 DEF PeerStates
    <2> HIDE DEF state
    <2> QED
      BY <2>1, <2>2, <2>4, AckIsInbound, SendsActs
  <1>4. CASE PeerWrites(q)
    <2> DEFINE n == t.next + 1
               d == DataPacket(n % Modulus, FileBlock(q, n))
               state == [t EXCEPT !.next = n]
    <2>1. ~Reads(q) /\ PeerTakes(q) /\ UNCHANGED <<vars, loss, dup>>
      BY <1>4 DEF PeerWrites
    <2>2. CASE n > FinalBlock(q)
      <3> DEFINE s == [t EXCEPT !.st = "done"]
      <3>1. peer' = [peer EXCEPT ![q] = s] /\ UNCHANGED inbox
        BY <1>4, <2>2 DEF PeerWrites
      <3>2. s \in PeerStates /\ s.st = "done"
        BY <1>1 DEF PeerStates
      <3> HIDE DEF s
      <3>3. Speaks(s) /\ PeerActs(q, s)
        BY <2>1, <3>1, <3>2 DEF Speaks, PeerActs
      <3> QED
        BY <3>2, <3>3
    <2>3. CASE ~(n > FinalBlock(q))
      <3>1. PeerSends(q, d, state)
        BY <1>4, <2>3 DEF PeerWrites
      <3>2. n \in Nat /\ 0 < n /\ FinalBlock(q) \in Nat
        <4>1. Plan[q].size \in Nat
          BY PlanAssumption
        <4> QED
          BY <1>1, <2>1, <4>1 DEF FinalBlock, FileLen, Blocksize, DEFAULT_BLKSIZE
      <3>3. FileBlock(q, n) \in Chunks
        BY <2>1, <2>3, <3>2, FileBlockGood
      <3>4. n % Modulus \in Nat
        BY <3>2, BoundsAssumption
      <3>5. d \in InPackets
        BY <3>3, <3>4 DEF DataPacket, InPackets
      <3>6. state \in PeerStates
        BY <1>1, <3>2 DEF PeerStates
      <3> HIDE DEF d, state
      <3> QED
        BY <2>1, <3>1, <3>5, <3>6, SendsActs
    <2> QED
      BY <2>2, <2>3
  <1>5. CASE PeerConfirms(q)
    BY <1>1, <1>5, AckIsInbound, SendsActs DEF PeerConfirms
  <1>6. CASE PeerGivesUp(q)
    <2> DEFINE s == [t EXCEPT !.st = "refused"]
    <2>1. peer' = [peer EXCEPT ![q] = s] /\ PeerTakes(q) /\ UNCHANGED <<vars, inbox, loss, dup>>
      BY <1>6 DEF PeerGivesUp
    <2>2. s \in PeerStates /\ s.st = "refused"
      BY <1>1 DEF PeerStates
    <2> HIDE DEF s
    <2>3. Speaks(s) /\ PeerActs(q, s)
      BY <2>1, <2>2 DEF Speaks, PeerActs
    <2> QED
      BY <2>2, <2>3
  <1>7. CASE PeerIgnores(q)
    <2>1. peer' = [peer EXCEPT ![q] = t] /\ PeerTakes(q) /\ UNCHANGED <<vars, inbox, loss, dup>>
      BY <1>1, <1>7 DEF PeerIgnores
    <2> QED
      BY <1>1, <2>1 DEF PeerActs
  <1>8. CASE PeerTimeout(q)
    <2> DEFINE s == [t EXCEPT !.retries = @ + 1]
    <2>1. /\ t.st = "active" /\ t.retries < MaxRetry
          /\ peer' = [peer EXCEPT ![q] = s] /\ SendTo(q, t.last) /\ UNCHANGED <<vars, outbox, loss, dup>>
      BY <1>8 DEF PeerTimeout
    <2>2. t.retries + 1 \in 0..MaxRetry
      BY <1>1, <2>1
    <2>3. s \in PeerStates /\ s.last = t.last /\ s.st = t.st
      BY <1>1, <2>2 DEF PeerStates
    <2> HIDE DEF s
    <2>4. Speaks(s) /\ PeerActs(q, s)
      BY <1>1, <2>1, <2>3 DEF Speaks, PeerActs
    <2> QED
      BY <2>3, <2>4
  <1> QED
    BY <1>2, <1>3, <1>4, <1>5, <1>6, <1>7, <1>8 DEF PeerStep

-----------------------------------------------------------------------------
\* The server's part of a step is one of Server's steps.
LEMMA ServerStepIsStep ==
    ASSUME SInv, ServerStep
    PROVE  Step
  <1>0. NetInv /\ ev.fd \in Fd
    BY DEF SInv, PInv, LInv, IInv, TypeOK
  <1>1. ASSUME Idle PROVE Step
    <2>1. ASSUME NEW fd \in Fd, NEW out \in BOOLEAN, EpollEvent(fd, out, inbox[fd] # <<>>) PROVE Step
      <3>1. (inbox[fd] # <<>>) \in BOOLEAN
        OBVIOUS
      <3> QED
        BY <2>1, <3>1 DEF Step, Loop
    <2> QED
      BY <1>1, <2>1 DEF Idle, Step, Loop
  <1>2. ASSUME Deliver PROVE Step
    <2> DEFINE m == Head(inbox[ev.fd])
    <2>1. inbox[ev.fd] # <<>> /\ Receive(Plan[m.peer].src, m.pkt)
      BY <1>2 DEF Deliver
    <2>2. m \in Letters
      <3>1. inbox[ev.fd] \in Seq(Letters)
        BY <1>0 DEF NetInv
      <3> QED
        BY <2>1, <3>1, HeadTailProperties
    <2>3. Plan[m.peer].src \in Source /\ m.pkt \in InPackets
      BY <2>2, PlanAssumption DEF Letters
    <2> QED
      BY <2>1, <2>3 DEF Step
  <1>3. ASSUME Transmit PROVE Step
    BY <1>3 DEF Transmit, Step, Loop
  <1>4. ASSUME Reap PROVE Step
    BY <1>4 DEF Reap, Step, Loop
  <1> QED
    BY <1>1, <1>2, <1>3, <1>4 DEF ServerStep


\* What goes into the socket buffer of one descriptor.
LEMMA InboxUpdate ==
    ASSUME NetInv, NEW fd \in Fd, NEW s \in Seq(LettersTo(fd)),
           inbox' = [inbox EXCEPT ![fd] = s]
    PROVE  inbox' \in [Fd -> Seq(Letters)] /\ \A x \in Fd : inbox'[x] \in Seq(LettersTo(x))
  <1>1. LettersTo(fd) \subseteq Letters
    BY DEF LettersTo
  <1>2. s \in Seq(Letters)
    BY <1>1, ElementOfSeq, LenProperties, SeqDef
  <1> QED
    BY <1>2 DEF NetInv

\* Losing, repeating or taking a datagram of a socket buffer.
LEMMA InboxMoves ==
    ASSUME NetInv, NEW fd \in Fd, NEW s, Moves(inbox[fd], s), inbox' = [inbox EXCEPT ![fd] = s]
    PROVE  inbox' \in [Fd -> Seq(Letters)] /\ \A x \in Fd : inbox'[x] \in Seq(LettersTo(x))
  <1>1. inbox[fd] \in Seq(LettersTo(fd))
    BY DEF NetInv
  <1>2. s \in Seq(LettersTo(fd))
    BY <1>1, MovesKeep
  <1> QED
    BY <1>2, InboxUpdate

\* The same for a datagram on its way to a peer.
LEMMA OutboxMoves ==
    ASSUME NetInv, NEW q \in Peers, NEW s, Moves(outbox[q], s), outbox' = [outbox EXCEPT ![q] = s]
    PROVE  outbox' \in [Peers -> Seq(OutPackets)]
  <1>1. outbox \in [Peers -> Seq(OutPackets)] /\ outbox[q] \in Seq(OutPackets)
    BY DEF NetInv
  <1>2. s \in Seq(OutPackets)
    BY <1>1, MovesKeep
  <1> QED
    BY <1>1, <1>2

\* A peer's step keeps the channels well formed.
LEMMA PeerNet ==
    ASSUME NetInv, NEW q \in Peers, NEW s \in PeerStates, Speaks(s), PeerActs(q, s)
    PROVE  NetInv'
  <1>1. peer' \in [Peers -> PeerStates] /\ \A r \in Peers : Speaks(peer'[r])
    BY DEF NetInv, PeerActs
  <1>2. inbox' \in [Fd -> Seq(Letters)] /\ \A x \in Fd : inbox'[x] \in Seq(LettersTo(x))
    <2>1. CASE inbox' = inbox
      BY <2>1 DEF NetInv
    <2>2. CASE SendTo(q, s.last) /\ s.last \in InPackets
      <3> DEFINE fd == Plan[q].fd
                 m == [peer |-> q, pkt |-> s.last]
      <3>1. fd \in Fd /\ m \in LettersTo(fd)
        BY <2>2, PlanAssumption DEF Letters, LettersTo
      <3>2. inbox' = [inbox EXCEPT ![fd] = Append(inbox[fd], m)] /\ inbox[fd] \in Seq(LettersTo(fd))
        BY <2>2, <3>1 DEF SendTo, NetInv
      <3> HIDE DEF m, fd
      <3>3. Append(inbox[fd], m) \in Seq(LettersTo(fd))
        BY <3>1, <3>2, AppendProperties
      <3> QED
        BY <3>1, <3>2, <3>3, InboxUpdate
    <2> QED
      BY <2>1, <2>2 DEF PeerActs
  <1>3. outbox' \in [Peers -> Seq(OutPackets)]
    <2>1. CASE outbox' = outbox
      BY <2>1 DEF NetInv
    <2>2. CASE PeerTakes(q)
      BY <2>2, OutboxMoves DEF PeerTakes, Moves
    <2> QED
      BY <2>1, <2>2 DEF PeerActs
  <1>4. UNCHANGED <<open, loss, dup>>
    BY DEF PeerActs, vars
  <1> QED
    BY <1>1, <1>2, <1>3, <1>4 DEF NetInv

\* So does the network's.
LEMMA NetworkNet ==
    ASSUME NetInv, Network
    PROVE  NetInv'
  <1>1. \/ loss' = loss /\ dup' = dup + 1 /\ dup < MaxDup
        \/ dup' = dup /\ loss' = loss + 1 /\ loss < MaxLoss
    BY DEF Network, LoseRequest, LoseReply, DuplicateRequest, DuplicateReply
  <1>2. loss' \in 0..MaxLoss /\ dup' \in 0..MaxDup
    BY <1>1, PlanAssumption DEF NetInv
  <1>3. UNCHANGED <<open, peer>>
    BY DEF Network, LoseRequest, LoseReply, DuplicateRequest, DuplicateReply, vars
  <1>4. ASSUME NEW fd \in Fd, NEW i, LoseRequest(fd, i) \/ DuplicateRequest(fd, i)
        PROVE  NetInv'
    <2>1. PICK s : Moves(inbox[fd], s) /\ inbox' = [inbox EXCEPT ![fd] = s]
      BY <1>4 DEF LoseRequest, DuplicateRequest, Moves
    <2>2. UNCHANGED outbox
      BY <1>4 DEF LoseRequest, DuplicateRequest
    <2>3. inbox' \in [Fd -> Seq(Letters)] /\ \A x \in Fd : inbox'[x] \in Seq(LettersTo(x))
      BY <2>1, InboxMoves
    <2> QED
      BY <1>2, <1>3, <2>2, <2>3 DEF NetInv
  <1>5. ASSUME NEW q \in Peers, NEW i, LoseReply(q, i) \/ DuplicateReply(q, i)
        PROVE  NetInv'
    <2>1. PICK s : Moves(outbox[q], s) /\ outbox' = [outbox EXCEPT ![q] = s]
      BY <1>5 DEF LoseReply, DuplicateReply, Moves
    <2>2. UNCHANGED inbox
      BY <1>5 DEF LoseReply, DuplicateReply
    <2>3. outbox' \in [Peers -> Seq(OutPackets)]
      BY <2>1, OutboxMoves
    <2> QED
      BY <1>2, <1>3, <2>2, <2>3 DEF NetInv
  <1> QED
    BY <1>4, <1>5 DEF Network

\* And the server's: sockets do not fail here.
LEMMA ServerNet ==
    ASSUME SInv, ServerStep
    PROVE  NetInv'
  <1>1. NetInv /\ IInv /\ ev.fd \in Fd
    BY DEF SInv, PInv, LInv, IInv, TypeOK
  <1>2. CASE Idle
    <2>1. UNCHANGED nvars
      BY <1>2 DEF Idle
    <2>2. UNCHANGED open
      BY <1>2 DEF Idle, CheckClient, CheckedClients, SentPackets, ReceiveNothing, EpollTimeout, EpollEvent
    <2> QED
      BY <1>1, <2>1, <2>2 DEF NetInv, nvars
  <1>3. CASE Deliver
    <2>1. /\ inbox[ev.fd] # <<>> /\ inbox' = [inbox EXCEPT ![ev.fd] = Tail(inbox[ev.fd])]
          /\ UNCHANGED <<outbox, peer, loss, dup>>
      BY <1>3 DEF Deliver
    <2>2. UNCHANGED open
      BY <1>3 DEF Deliver, Receive
    <2>3. Moves(inbox[ev.fd], Tail(inbox[ev.fd]))
      BY <2>1 DEF Moves
    <2>4. inbox' \in [Fd -> Seq(Letters)] /\ \A x \in Fd : inbox'[x] \in Seq(LettersTo(x))
      BY <1>1, <2>1, <2>3, InboxMoves
    <2> QED
      BY <1>1, <2>1, <2>2, <2>4 DEF NetInv
  <1>4. CASE Transmit
    <2> DEFINE c == clientpool[cidx]
    <2>1. UNCHANGED <<open, inbox, peer, loss, dup>>
      BY <1>4 DEF Transmit, SendClient
    <2>2. cidx \in 1..Len(clientpool)
      <3>1. clientpool \in Seq(Clients) /\ Len(clientpool) \in Nat
        BY <1>1, LenProperties DEF IInv, GoodPool
      <3> QED
        BY <1>1, <1>4, <3>1 DEF IInv, TypeOK, Transmit, SendClient
    <2>3. c.queue \in Seq(OutPackets)
      BY <1>1, <2>2, PoolMember
    <2>4. outbox' = [q \in Peers |-> IF Plan[q].fd = c.fd /\ Plan[q].src = c.src
                                     THEN outbox[q] \o c.queue ELSE outbox[q]]
      BY <1>4 DEF Transmit
    <2> HIDE DEF c
    <2>5. \A q \in Peers : outbox[q] \in Seq(OutPackets) /\ outbox[q] \o c.queue \in Seq(OutPackets)
      BY <1>1, <2>3, ConcatProperties DEF NetInv
    <2>6. outbox' \in [Peers -> Seq(OutPackets)]
      BY <2>4, <2>5
    <2> QED
      BY <1>1, <2>1, <2>6 DEF NetInv
  <1>5. CASE Reap
    BY <1>1, <1>5 DEF Reap, ReapClient, NetInv, nvars
  <1> QED
    BY <1>2, <1>3, <1>4, <1>5 DEF ServerStep

\* All the invariants of the event loop hold between peers that keep to the
\* protocol, and the channels are well formed.
LEMMA InitSInv == SInit => SInv
  <1> SUFFICES ASSUME SInit PROVE SInv
    OBVIOUS
  <1>1. PInv /\ open = Fd
    BY InitPInv DEF SInit, Init
  <1>2. PICK cast \in Casts : peer = [q \in Peers |-> PeerInit(IF q \in cast THEN "start" ELSE "absent")]
    BY DEF SInit
  <1>3. \A q \in Peers : PeerInit("start") \in PeerStates /\ PeerInit("absent") \in PeerStates
    BY EmptySeq, PlanAssumption DEF PeerInit, PeerStates
  <1>4. Speaks(PeerInit("start")) /\ Speaks(PeerInit("absent"))
    BY DEF Speaks, PeerInit
  <1>5. peer \in [Peers -> PeerStates] /\ \A q \in Peers : Speaks(peer[q])
    BY <1>2, <1>3, <1>4
  <1>6. /\ inbox \in [Fd -> Seq(Letters)] /\ \A fd \in Fd : inbox[fd] \in Seq(LettersTo(fd))
        /\ outbox \in [Peers -> Seq(OutPackets)]
    BY EmptySeq DEF SInit
  <1>7. loss \in 0..MaxLoss /\ dup \in 0..MaxDup
    BY PlanAssumption DEF SInit
  <1> QED
    BY <1>1, <1>5, <1>6, <1>7 DEF SInv, NetInv

\* Every step of the composed system keeps them.
LEMMA NextSInv == SInv /\ [SNext]_svars => SInv'
  <1> SUFFICES ASSUME SInv, [SNext]_svars PROVE SInv'
    OBVIOUS
  <1>1. PInv /\ NetInv
    BY DEF SInv
  <1>2. ASSUME UNCHANGED vars PROVE PInv'
    BY <1>1, <1>2, NextPInv
  <1>3. CASE ServerStep
    <2>1. PInv'
      BY <1>1, <1>3, ServerStepIsStep, NextPInv
    <2> QED
      BY <1>3, <2>1, ServerNet DEF SInv
  <1>4. ASSUME NEW q \in Peers, PeerRequest(q) \/ PeerStep(q) \/ PeerTimeout(q) PROVE SInv'
    <2>1. PICK s \in PeerStates : Speaks(s) /\ PeerActs(q, s)
      BY <1>1, <1>4, PeerGood
    <2>2. UNCHANGED vars
      BY <2>1 DEF PeerActs
    <2> QED
      BY <1>1, <1>2, <2>1, <2>2, PeerNet DEF SInv
  <1>5. CASE Network
    <2>1. UNCHANGED vars
      BY <1>5 DEF Network, LoseRequest, LoseReply, DuplicateRequest, DuplicateReply
    <2> QED
      BY <1>1, <1>2, <1>5, <2>1, NetworkNet DEF SInv
  <1>6. CASE UNCHANGED svars
    <2>1. UNCHANGED vars /\ UNCHANGED nvars
      BY <1>6 DEF svars
    <2>2. NetInv'
      BY <1>1, <2>1 DEF vars, nvars, NetInv
    <2> QED
      BY <1>2, <2>1, <2>2 DEF SInv
  <1> QED
    BY <1>3, <1>4, <1>5, <1>6 DEF SNext

\* Hence they always hold.
LEMMA SessionInvariance == SSpec => []SInv
  BY InitSInv, NextSInv, PTL DEF SSpec

\* Peers, channels and the server's state keep their types, whatever the network
\* loses and repeats.
THEOREM SessionsTypeCorrect == SSpec => []STypeOK
  <1> SUFFICES ASSUME SInv PROVE STypeOK
    BY SessionInvariance, PTL
  <1>1. NetInv /\ TypeOK
    BY DEF SInv, PInv, LInv, IInv
  <1>2. ASSUME NEW fd \in Fd, NEW i \in DOMAIN inbox[fd]
        PROVE  inbox[fd][i].peer \in Peers /\ inbox[fd][i].pkt \in InPackets
    <2>1. inbox[fd] \in Seq(Letters)
      BY <1>1 DEF NetInv
    <2>2. inbox[fd][i] \in Letters
      BY <2>1, ElementOfSeq, LenProperties
    <2> QED
      BY <2>2 DEF Letters
  <1>3. ASSUME NEW q \in Peers, NEW i \in DOMAIN outbox[q] PROVE outbox[q][i] \in OutPackets
    <2>1. outbox[q] \in Seq(OutPackets)
      BY <1>1 DEF NetInv
    <2> QED
      BY <2>1, ElementOfSeq, LenProperties
  <1>4. ASSUME NEW q \in Peers
        PROVE  /\ peer[q].st \in {"absent", "start", "active", "done", "refused"}
               /\ peer[q].next \in Nat /\ peer[q].retries \in 0..MaxRetry
    BY <1>1 DEF NetInv, PeerStates
  <1> QED
    BY <1>1, <1>2, <1>3, <1>4 DEF STypeOK, NetInv

\* All that Server promises of its pools, clients and packets holds in sessions.
THEOREM SessionsKeepPromises ==
    SSpec => []( /\ PoolKeyed /\ DestroyHasPacket /\ SendingHasFile /\ BlockCounter
                 /\ LastIsNewest /\ FindsListener /\ SocketPerClient /\ FreedOnlyAfterFailure )
  <1> SUFFICES ASSUME SInv
               PROVE  /\ PoolKeyed /\ DestroyHasPacket /\ SendingHasFile /\ BlockCounter
                      /\ LastIsNewest /\ FindsListener /\ SocketPerClient /\ FreedOnlyAfterFailure
    BY SessionInvariance, PTL
  <1>1. PInv /\ LInv /\ GoodPool(clientpool)
    BY DEF SInv, PInv, LInv, IInv
  <1>2. PoolKeyed /\ DestroyHasPacket /\ SendingHasFile /\ BlockCounter
    BY <1>1 DEF GoodPool, Keyed, Good, Core, HasFile,
                PoolKeyed, DestroyHasPacket, SendingHasFile, BlockCounter
  <1>3. LastIsNewest
    BY <1>1 DEF GoodPool, Good, Core, Newest, LastIsNewest
  <1>4. FindsListener
    BY <1>1, FirstIsFound DEF LInv, IInv, TypeOK, Sockets, FindsListener
  <1>5. SocketPerClient
    BY <1>1, AgreeInvariant
  <1>6. FreedOnlyAfterFailure
    BY <1>1, FreedInvariant
  <1> QED
    BY <1>2, <1>3, <1>4, <1>5, <1>6

-----------------------------------------------------------------------------
(***************************************************************************)
(* Readers that negotiate a block size, under any loss, repetition and     *)
(* retry.  ProcessPacket compares no block numbers, so what keeps such a   *)
(* transfer in order is that the server's position in the file and its     *)
(* block number move together, and that a repeated request resets both.    *)
(***************************************************************************)

\* The first byte behind block n, and block n, which is empty behind the end.
Upto(q, n) == IF n * Blocksize(q) <= FileLen(q) THEN n * Blocksize(q) ELSE FileLen(q)
BlockAt(q, n) == Chunk(Plan[q].req.file, Upto(q, n - 1), Upto(q, n) - Upto(q, n - 1))

\* A packet to q that tells the truth.
Exact(q, p) ==
    p.op = "DATA" =>
        /\ ~BadBlksize(Plan[q].req)
        /\ \E n \in 1..MaxBlock : p.blockno = n % Modulus /\ p.data = BlockAt(q, n)
ExactPackets(q) == {p \in OutPackets : Exact(q, p)}

\* What q may say, and the datagrams that may wait at a descriptor.
Says(q, p) == p = Plan[q].req \/ p.op = "ACK"
LettersFrom(fd) == {m \in LettersTo(fd) : m.peer \in Players /\ Says(m.peer, m.pkt)}

\* c serves q: its FILE, if it has one, stands behind the block it sent last.
ReadingAt(q, n) == [mode |-> "r", file |-> Plan[q].req.file, pos |-> Upto(q, n)]
Serving(q, c) ==
    /\ c.fd = Plan[q].fd /\ c.src = Plan[q].src
    /\ c.queue \in Seq(ExactPackets(q))
    /\ c.blk \in {0, Blocksize(q)}
    /\ c.sendingfile => ~BadBlksize(Plan[q].req) /\ c.blksize = Blocksize(q)
    /\ c.f.mode # "null" <=> c.sendingfile /\ OpensForRead(Plan[q].req.file)
    /\ c.f.mode # "null" => c.f = ReadingAt(q, c.actualblockno)
Served == {c \in Clients : \E q \in Players : Serving(q, c)}

Playing(q) ==
    /\ peer[q].st # "absent" => q \in Players
    /\ peer[q].st = "active" => Says(q, peer[q].last)

NInv ==
    /\ clientpool \in Seq(Served)
    /\ \A fd \in Fd : inbox[fd] \in Seq(LettersFrom(fd))
    /\ \A q \in Peers : outbox[q] \in Seq(ExactPackets(q))
    /\ \A q \in Peers : Playing(q)

\* What a reader has kept is the file's first blocks, and while it reads on
\* there is more to come.
Kept(q) ==
    /\ \A i \in 1..Len(peer[q].got) : peer[q].got[i] = FileBlock(q, i)
    /\ peer[q].st \in {"absent", "start"} => peer[q].got = <<>>
    /\ peer[q].st = "active" =>
          /\ peer[q].next = Len(peer[q].got) + 1
          /\ (peer[q].next - 1) * Blocksize(q) <= FileLen(q)
          /\ peer[q].next <= MaxBlock + 1
KInv == \A q \in Peers : Kept(q)

\* Block by block through the file: what fread returns at the end of block n
\* is block n + 1.
LEMMA UptoSteps ==
    ASSUME NEW q \in Players, Negotiating, ~BadBlksize(Plan[q].req), NEW n \in Nat
    PROVE  /\ Blocksize(q) \in Nat /\ Blocksize(q) >= 8 /\ FileLen(q) \in Nat
           /\ Upto(q, 0) = 0 /\ Upto(q, n) \in Nat /\ Upto(q, n) <= FileLen(q)
           /\ (IF Upto(q, n) + Blocksize(q) <= FileLen(q) THEN Blocksize(q) ELSE FileLen(q) - Upto(q, n))
                = Upto(q, n + 1) - Upto(q, n)
           /\ Upto(q, n + 1) - Upto(q, n) \in Nat
  <1> DEFINE B == Blocksize(q)
             L == FileLen(q)
             m == n * B
  <1>1. q \in Peers
    BY PlanAssumption DEF Players
  <1>2. Plan[q].req \in Requests /\ Reads(q) /\ Plan[q].req.opt = "blksize"
    BY <1>1, PlanAssumption DEF Negotiating
  <1>3. B = Plan[q].req.val /\ Plan[q].req.val \in Int /\ Plan[q].req.file \in File
    BY <1>2 DEF Blocksize, Requests
  <1>4. B \in Nat /\ B >= 8
    BY <1>2, <1>3 DEF BadBlksize, MIN_BLKSIZE
  <1>5. L \in Nat
    BY <1>2, <1>3, FileAssumption DEF FileLen, Readable
  <1>6. m \in Nat /\ (n + 1) * B = m + B /\ 0 * B = 0
    BY <1>4, SMT
  <1>7. /\ Upto(q, 0) = 0
        /\ Upto(q, n) = IF m <= L THEN m ELSE L
        /\ Upto(q, n + 1) = IF m + B <= L THEN m + B ELSE L
    BY <1>5, <1>6 DEF Upto
  <1> HIDE DEF m, B, L
  <1>8. \A x \in Nat : x = Upto(q, n) =>
           /\ x <= L
           /\ (IF x + B <= L THEN B ELSE L - x) = Upto(q, n + 1) - x
           /\ Upto(q, n + 1) - x \in Nat
    BY <1>4, <1>5, <1>6, <1>7
  <1>9. Upto(q, n) \in Nat
    BY <1>5, <1>6, <1>7
  <1> QED
    BY <1>4, <1>5, <1>7, <1>8, <1>9 DEF B, L

\* What stays the same when a packet is queued or a client is to go.
Same(d, c) ==
    /\ d \in Clients /\ d.fd = c.fd /\ d.src = c.src /\ d.f = c.f
    /\ d.currentblockno = c.currentblockno /\ d.actualblockno = c.actualblockno
    /\ d.blk = c.blk /\ d.blksize = c.blksize /\ d.sendingfile = c.sendingfile

\* Queueing a packet that tells the truth.
LEMMA QueueExact ==
    ASSUME NEW q, NEW c \in Clients, c.queue \in Seq(ExactPackets(q)), NEW p \in ExactPackets(q)
    PROVE  LET d == QueuePacket(c, p)
           IN  Same(d, c) /\ d.queue \in Seq(ExactPackets(q))
  <1> DEFINE d == QueuePacket(c, p)
             a == Append(c.queue, p)
  <1>1. c.queue \in Seq(OutPackets) /\ p \in OutPackets
    BY DEF Clients, ExactPackets
  <1>2. a \in Seq(OutPackets) /\ a \in Seq(ExactPackets(q))
    BY <1>1, AppendProperties
  <1>3. d = [c EXCEPT !.queue = a, !.lastpacket = p]
    BY DEF QueuePacket
  <1> HIDE DEF a, d
  <1>4. d.queue = a /\ Same(d, c)
    BY <1>1, <1>2, <1>3 DEF Clients, Same
  <1> QED
    BY <1>2, <1>4 DEF d

\* Errors and acknowledged options carry no data.
LEMMA ErrorExact ==
    ASSUME NEW q, NEW c \in Clients, c.queue \in Seq(ExactPackets(q)), NEW code \in Nat
    PROVE  LET d == Error(c, code)
           IN  Same(d, c) /\ d.queue \in Seq(ExactPackets(q))
  <1> DEFINE e == QueuePacket(c, ErrorPacket(code))
             d == [e EXCEPT !.destroy = TRUE]
  <1>1. ErrorPacket(code) \in ExactPackets(q)
    BY DEF ErrorPacket, ExactPackets, OutPackets, Exact
  <1>2. Same(e, c) /\ e.queue \in Seq(ExactPackets(q))
    BY <1>1, QueueExact
  <1> HIDE DEF e
  <1>3. Same(d, c) /\ d.queue = e.queue
    BY <1>2 DEF Same, Clients
  <1> QED
    BY <1>2, <1>3 DEF d, e, Error

\* A blksize option that is acknowledged starts the transfer over.
LEMMA LookedServes ==
    ASSUME NEW q \in Players, Negotiating, NEW c \in Clients, Serving(q, c), ~BadBlksize(Plan[q].req)
    PROVE  LET l == Looked(c, Plan[q].req)
           IN  /\ l \in Clients /\ l.fd = c.fd /\ l.src = c.src /\ l.f = c.f /\ l.blk = c.blk
               /\ l.queue \in Seq(ExactPackets(q))
               /\ l.sendingfile = TRUE /\ l.blksize = Blocksize(q) /\ l.actualblockno = 0
  <1> DEFINE r == Plan[q].req
             o == OptionAcknowledge(c, "blksize", r.val)
             g == [o EXCEPT !.sendingfile = TRUE, !.currentblockno = 0, !.actualblockno = 0,
                            !.blksize = r.val]
  <1>1. q \in Peers /\ c.queue \in Seq(ExactPackets(q))
    BY PlanAssumption DEF Players, Serving
  <1>2. r.opt = "blksize" /\ Blocksize(q) = r.val /\ r.val \in Nat
    BY <1>1, UptoSteps DEF Negotiating, Blocksize
  <1>3. OackPacket("blksize", r.val) \in ExactPackets(q)
    BY EmptySeq DEF OackPacket, ExactPackets, OutPackets, Options, Exact
  <1>4. Same(o, c) /\ o.queue \in Seq(ExactPackets(q))
    BY <1>1, <1>3, QueueExact DEF OptionAcknowledge
  <1>5. Negotiate(c, r) = g
    BY <1>2 DEF Negotiate
  <1> HIDE DEF o
  <1>6. 0 \in 0..Modulus - 1
    BY SmallMod
  <1> HIDE DEF r
  <1>7. /\ g \in Clients /\ g.fd = c.fd /\ g.src = c.src /\ g.f = c.f /\ g.blk = c.blk
        /\ g.queue = o.queue /\ g.sendingfile = TRUE /\ g.blksize = r.val /\ g.actualblockno = 0
    BY <1>2, <1>4, <1>6 DEF Same, Clients
  <1> HIDE DEF g
  <1>8. CASE FileExists(r.file)
    BY <1>2, <1>4, <1>5, <1>7, <1>8 DEF Looked, r
  <1>9. CASE ~FileExists(r.file)
    <2> DEFINE e == Error(g, ERROR_NOFILE)
    <2>1. Looked(c, r) = e
      BY <1>5, <1>9 DEF Looked
    <2>2. Same(e, g) /\ e.queue \in Seq(ExactPackets(q))
      BY <1>4, <1>7, ErrorExact DEF ERROR_NOFILE
    <2> HIDE DEF e
    <2> QED
      BY <1>2, <1>7, <2>1, <2>2 DEF Same, r
  <1> QED
    BY <1>8, <1>9


\* The request, the first time or again.
LEMMA OnRrqServes ==
    ASSUME NEW q \in Players, Negotiating, NEW c \in Clients, Serving(q, c)
    PROVE  Serving(q, OnRrq(c, Plan[q].req))
  <1> DEFINE r == Plan[q].req
             l == Looked(c, r)
             d == OnRrq(c, r)
  <1> SUFFICES Serving(q, d)
    OBVIOUS
  <1>1. c.queue \in Seq(ExactPackets(q))
    BY DEF Serving
  <1>2. r.opt = "blksize" /\ KeepsFile(r)
    BY DEF Negotiating, KeepsFile
  <1>3. ASSUME NEW code \in Nat, d = Error(c, code) PROVE Serving(q, d)
    <2>1. Same(d, c) /\ d.queue \in Seq(ExactPackets(q))
      BY <1>1, <1>3, ErrorExact
    <2> HIDE DEF d, r
    <2> QED
      BY <2>1 DEF Same, Serving
  <1>4. CASE r.mode = "mail"
    BY <1>3, <1>4 DEF OnRrq, ERROR_ILLEGAL
  <1>5. CASE r.mode # "mail" /\ BadBlksize(r)
    BY <1>3, <1>5 DEF OnRrq, ERROR_OPTION
  <1>6. CASE r.mode # "mail" /\ ~BadBlksize(r)
    <2>1. /\ l \in Clients /\ l.fd = c.fd /\ l.src = c.src /\ l.f = c.f /\ l.blk = c.blk
          /\ l.queue \in Seq(ExactPackets(q))
          /\ l.sendingfile = TRUE /\ l.blksize = Blocksize(q) /\ l.actualblockno = 0
      BY <1>6, LookedServes
    <2> HIDE DEF l
    <2>2. CASE ~OpensForRead(r.file)
      <3>1. d = Error(l, ERROR_NOFILE)
        BY <1>6, <2>2 DEF OnRrq, l
      <3>2. Same(d, l) /\ d.queue \in Seq(ExactPackets(q))
        BY <2>1, <3>1, ErrorExact DEF ERROR_NOFILE
      <3>3. c.f.mode = "null"
        BY <2>2 DEF Serving
      <3> HIDE DEF d
      <3> QED
        BY <1>6, <2>1, <2>2, <3>2, <3>3 DEF Same, Serving
    <2>3. CASE OpensForRead(r.file)
      <3> DEFINE h == [mode |-> "r", file |-> r.file, pos |-> 0]
                 o == [l EXCEPT !.f = h]
      <3>1. d = o
        BY <1>2, <1>6, <2>1, <2>3 DEF OnRrq, l, Clients
      <3>2. o.fd = l.fd /\ o.src = l.src /\ o.f = h /\ o.blk = l.blk /\ o.queue = l.queue
            /\ o.sendingfile = TRUE /\ o.blksize = l.blksize /\ o.actualblockno = 0
        BY <2>1 DEF Clients
      <3>3. h = ReadingAt(q, 0)
        BY <1>6, UptoSteps DEF ReadingAt
      <3>4. h.mode = "r"
        OBVIOUS
      <3> HIDE DEF d, o, h
      <3> QED
        BY <1>6, <2>1, <2>3, <3>1, <3>2, <3>3, <3>4 DEF Serving
    <2> QED
      BY <2>2, <2>3
  <1> QED
    BY <1>4, <1>5, <1>6


\* An acknowledgement, whichever it is: the next block, under the next number.
LEMMA OnAckServes ==
    ASSUME NEW q \in Players, Negotiating, NEW c, Core(c), Serving(q, c),
           c.sendingfile, c.f.mode # "null", OnAck(c).actualblockno <= MaxBlock
    PROVE  Serving(q, OnAck(c))
  <1> DEFINE n == c.actualblockno
             B == Blocksize(q)
             file == Plan[q].req.file
             b == (c.currentblockno + 1) % Modulus
             len == Upto(q, n + 1) - Upto(q, n)
             chunk == Chunk(file, Upto(q, n), len)
             p == DataPacket(b, chunk)
             a == Append(c.queue, p)
  <1>1. /\ c \in Clients /\ n \in Nat /\ c.currentblockno \in 0..Modulus - 1
        /\ c.queue \in Seq(ExactPackets(q)) /\ c.blksize = B /\ ~BadBlksize(Plan[q].req)
        /\ c.f = ReadingAt(q, n) /\ OpensForRead(file)
    BY DEF Core, Clients, Serving
  <1>2. /\ B \in Nat /\ B >= 8 /\ FileLen(q) \in Nat /\ Upto(q, n) \in Nat /\ len \in Nat
        /\ (IF Upto(q, n) + B <= FileLen(q) THEN B ELSE FileLen(q) - Upto(q, n)) = len
    BY <1>1, UptoSteps
  <1>3. q \in Peers /\ FileLen(q) = Readable(file) /\ file \in File
    <2>1. q \in Peers
      BY PlanAssumption DEF Players
    <2> QED
      BY <2>1, PlanAssumption DEF Negotiating, FileLen, Requests
  <1>4. b = (n + 1) % Modulus /\ b \in 0..Modulus - 1 /\ b \in Nat
    <2>1. b = (n + 1) % Modulus
      BY <1>1, BoundsAssumption, ModStep DEF Core
    <2> QED
      BY <1>1, <2>1, BoundsAssumption
  <1>5. ReadLen(c.f, B) = len /\ ReadOff(c.f) = Upto(q, n) /\ c.f.file = file
        /\ Advance(c.f, len) = ReadingAt(q, n + 1)
    <2>1. c.f = [mode |-> "r", file |-> file, pos |-> Upto(q, n)]
      BY <1>1 DEF ReadingAt
    <2>2. ReadLen(c.f, B) = len /\ ReadOff(c.f) = Upto(q, n) /\ c.f.file = file
      BY <1>2, <1>3, <2>1 DEF ReadLen, ReadOff
    <2>3. Upto(q, n) + len = Upto(q, n + 1)
      <3>1. n + 1 \in Nat
        BY <1>1
      <3>2. Upto(q, n + 1) \in Nat
        BY <1>1, <3>1, UptoSteps
      <3> QED
        BY <1>2, <3>2
    <2> HIDE DEF len
    <2>4. Advance(c.f, len) = [mode |-> "r", file |-> file, pos |-> Upto(q, n + 1)]
      BY <2>1, <2>3 DEF Advance
    <2> QED
      BY <2>2, <2>4 DEF ReadingAt
  <1> HIDE DEF len, b, chunk, B
  <1> DEFINE m == n + 1
             nb == NextBlock(c)
             h == ReadingAt(q, m)
             s == [nb EXCEPT !.f = h, !.queue = a, !.lastpacket = p]
             d == OnAck(c)
  <1>6. nb = [c EXCEPT !.currentblockno = b, !.actualblockno = m] /\ m \in Nat
    BY <1>1 DEF NextBlock, b
  <1> HIDE DEF m, nb
  <1>7. nb \in Clients /\ nb.f = c.f /\ nb.queue = c.queue /\ nb.currentblockno = b
        /\ nb.actualblockno = m
        /\ nb.fd = c.fd /\ nb.src = c.src /\ nb.blk = c.blk /\ nb.blksize = c.blksize
        /\ nb.sendingfile = c.sendingfile
    BY <1>1, <1>4, <1>6 DEF Clients
  <1>8. SendData(nb, c.blksize) = s
    <2>1. SendData(nb, c.blksize) = QueuePacket([nb EXCEPT !.f = Advance(nb.f, len)], p)
      BY <1>1, <1>5, <1>7 DEF SendData, chunk
    <2>2. Advance(nb.f, len) = h
      BY <1>5, <1>7 DEF m
    <2> HIDE DEF p, h
    <2>3. QueuePacket([nb EXCEPT !.f = h], p) = s
      BY <1>7 DEF QueuePacket, Clients
    <2> QED
      BY <2>1, <2>2, <2>3
  <1> HIDE DEF h
  <1>9. /\ d.fd = c.fd /\ d.src = c.src /\ d.queue = a /\ d.f = h /\ d.actualblockno = m
        /\ d.sendingfile = c.sendingfile /\ d.blksize = c.blksize
        /\ d.blk = IF c.blk = 0 THEN c.blksize ELSE c.blk
    <2> DEFINE short == ReadLen(c.f, c.blksize) < c.blksize
    <2> HIDE DEF a, p
    <2>1. d = [s EXCEPT !.destroy = @ \/ short, !.blk = IF @ = 0 THEN c.blksize ELSE @]
      BY <1>8 DEF OnAck, nb
    <2> HIDE DEF short, d
    <2> QED
      BY <1>7, <2>1 DEF Clients
  <1>10. p \in ExactPackets(q)
    <2>1. chunk \in Chunks
      BY <1>2, <1>3 DEF chunk, Chunk, Chunks
    <2>2. p \in OutPackets /\ p.op = "DATA" /\ p.blockno = b /\ p.data = chunk
      BY <1>4, <2>1 DEF DataPacket, OutPackets
    <2>3. m \in 1..MaxBlock
      BY <1>1, <1>6, <1>9, BoundsAssumption DEF m
    <2>4. chunk = BlockAt(q, m)
      <3>1. m - 1 = n
        BY <1>1 DEF m
      <3> QED
        BY <3>1 DEF chunk, len, BlockAt, m
    <2>5. b = m % Modulus
      BY <1>4 DEF m
    <2> HIDE DEF p
    <2> QED
      BY <1>1, <2>2, <2>3, <2>4, <2>5 DEF ExactPackets, Exact
  <1>11. a \in Seq(ExactPackets(q))
    BY <1>1, <1>10, AppendProperties
  <1> HIDE DEF a, p, d
  <1>12. h.mode = "r" /\ h = ReadingAt(q, m)
    BY DEF h, ReadingAt
  <1>13. Serving(q, d)
    BY <1>1, <1>9, <1>11, <1>12 DEF Serving, B
  <1> QED
    BY <1>13 DEF d


\* Whatever q says, its client goes on serving it.
LEMMA ProcessServes ==
    ASSUME NEW q \in Players, Negotiating, NEW c, Good(c), Serving(q, c),
           NEW p \in InPackets, Says(q, p), ProcessPacket(c, p).actualblockno <= MaxBlock
    PROVE  Serving(q, ProcessPacket(c, p))
  <1>1. Core(c) /\ c \in Clients
    BY DEF Good, Core
  <1>2. [c EXCEPT !.waiting = 0] = c
    BY <1>1 DEF Core, Clients
  <1>3. CASE p.op = "ACK"
    <2>1. ProcessPacket(c, p) = IF c.sendingfile /\ ~NullAccess(c, p) THEN OnAck(c) ELSE c
      BY <1>2, <1>3 DEF ProcessPacket
    <2>2. CASE c.sendingfile /\ ~NullAccess(c, p)
      <3>1. c.f.mode # "null"
        BY <1>3, <2>2 DEF NullAccess
      <3> QED
        BY <1>1, <2>1, <2>2, <3>1, OnAckServes
    <2>3. CASE ~(c.sendingfile /\ ~NullAccess(c, p))
      BY <2>1, <2>3
    <2> QED
      BY <2>2, <2>3
  <1>4. CASE p = Plan[q].req
    <2>1. p.op = "RRQ"
      BY <1>4 DEF Negotiating, Reads
    <2>2. ProcessPacket(c, p) = OnRrq(c, p)
      BY <1>2, <2>1 DEF ProcessPacket
    <2> QED
      BY <1>1, <1>4, <2>2, OnRrqServes
  <1> QED
    BY <1>3, <1>4 DEF Says

\* The file q asked for can be opened, and no answer is too long.
Harmless(q) == OpensForRead(Plan[q].req.file) /\ ~Aborts(Plan[q].req)

\* Nor can it kill the process then.
LEMMA ProcessSurvives ==
    ASSUME NEW q \in Players, Negotiating, NEW c \in Clients, Serving(q, c),
           NEW p, Says(q, p), Harmless(q)
    PROVE  Survival(c, p) = {TRUE}
  <1>1. ~PrintsStray(p)
    BY DEF PrintsStray, Says, Negotiating
  <1>2. ~NullAccess(c, p)
    BY DEF NullAccess, Serving, Harmless
  <1>3. ~Overruns(c, p)
    <2>1. c.sendingfile => c.blksize = Blocksize(q) /\ c.blk \in {0, c.blksize} /\ c.blksize \in Nat
      BY DEF Serving, Clients
    <2> QED
      BY <2>1 DEF Overruns
  <1>4. ~Aborts(p)
    <2>1. CASE p.op = "ACK"
      BY <2>1 DEF Aborts
    <2>2. CASE p.op # "ACK"
      BY <2>2 DEF Says, Harmless
    <2> QED
      BY <2>1, <2>2
  <1> QED
    BY <1>1, <1>2, <1>3, <1>4 DEF Survival

\* A datagram reaches the client that serves its sender, or brings one.
LEMMA ReceiveServes ==
    ASSUME SInv, NInv, Negotiating, NEW q \in Players, Plan[q].fd = ev.fd,
           NEW p \in InPackets, Says(q, p), Receive(Plan[q].src, p)
    PROVE  /\ clientpool' \in Seq(Served)
           /\ Harmless(q) => alive'
  <1> DEFINE src  == Plan[q].src
             pool == PoolFor(src)
             k    == IndexFor(src)
             c    == pool[k]
             new  == ProcessPacket(c, p)
             n    == NewClient(ev.fd, src)
  <1>1. /\ IInv /\ GoodPool(clientpool) /\ ev.fd \in Fd
        /\ clientpool \in Seq(Clients) /\ clientpool \in Seq(Served) /\ Len(clientpool) \in Nat
    BY LenProperties DEF SInv, PInv, LInv, IInv, TypeOK, GoodPool, NInv
  <1>2. q \in Peers /\ src \in Source /\ src.port \in Port
    BY PlanAssumption DEF Players, Source
  <1>3. GoodPool(pool) /\ k \in 1..Len(pool)
    BY <1>1, <1>2, ReceivePool
  <1>4. /\ clientpool' = [pool EXCEPT ![k] = new] /\ new.actualblockno <= MaxBlock
        /\ alive' \in Survival(c, p)
    BY DEF Receive, Target, PoolFor, IndexFor
  <1>5. pool \in Seq(Served) /\ Serving(q, c)
    <2>1. CASE Target(src) # 0
      <3>1. pool = clientpool /\ k = Target(src)
        BY <2>1 DEF PoolFor, IndexFor
      <3>2. c.fd = ev.fd /\ c.src.port = src.port
        BY <1>1, <1>2, <2>1, <3>1, FindClientFinds DEF Target
      <3>3. c \in Served
        BY <1>1, <1>3, <3>1, ElementOfSeq
      <3> HIDE DEF c
      <3>4. PICK r \in Players : Serving(r, c)
        BY <3>3 DEF Served
      <3>5. r = q
        BY <3>2, <3>4 DEF Serving, Negotiating
      <3> QED
        BY <1>1, <3>1, <3>4, <3>5
    <2>2. CASE Target(src) = 0
      <3>1. pool = Append(clientpool, n) /\ k = Len(pool)
        BY <2>2 DEF PoolFor, IndexFor
      <3>2. n \in Clients
        BY <1>1, <1>2, NewClientGood DEF Good, Core
      <3>3. Serving(q, n)
        BY EmptySeq DEF NewClient, NullFile, Serving
      <3> HIDE DEF n
      <3>4. n \in Served
        BY <3>2, <3>3 DEF Served
      <3>5. pool \in Seq(Served) /\ pool[Len(pool)] = n
        BY <1>1, <3>1, <3>4, AppendProperties
      <3> QED
        BY <3>1, <3>3, <3>5
    <2> QED
      BY <2>1, <2>2
  <1>6. Good(c) /\ c \in Clients
    BY <1>3 DEF GoodPool, Good, Core
  <1> HIDE DEF pool, k, c, src
  <1>7. new \in Served
    <2>1. new \in Clients
      BY <1>6, ProcessPacketGood DEF Good, Core
    <2>2. Serving(q, new)
      BY <1>4, <1>5, <1>6, ProcessServes
    <2> QED
      BY <2>1, <2>2 DEF Served
  <1> HIDE DEF new
  <1>8. clientpool' \in Seq(Served)
    BY <1>3, <1>4, <1>5, <1>7, ExceptSeq
  <1>9. ASSUME Harmless(q) PROVE alive'
    <2>1. alive' \in {TRUE}
      BY <1>4, <1>5, <1>6, <1>9, ProcessSurvives
    <2> QED
      BY <2>1
  <1> QED
    BY <1>8, <1>9


\* What a peer says in a step, if it is one of the players.
LEMMA PeerPlays ==
    ASSUME SInv, NInv, Negotiating, NEW q \in Peers,
           PeerRequest(q) \/ PeerStep(q) \/ PeerTimeout(q)
    PROVE  \/ q \in Players /\ Says(q, peer'[q].last)
           \/ q \in Players /\ inbox' = inbox /\ peer'[q].st = "refused"
           \/ inbox' = inbox /\ peer' = peer
  <1>1. peer \in [Peers -> PeerStates] /\ peer[q] \in PeerStates /\ Playing(q)
    BY DEF SInv, NetInv, NInv
  <1>3. CASE PeerRequest(q)
    <2>1. q \in Players
      BY <1>1, <1>3 DEF Playing, PeerRequest
    <2>2. peer'[q].last = Plan[q].req
      BY <1>1, <1>3 DEF PeerRequest, PeerSends, PeerStates
    <2> QED
      BY <2>1, <2>2 DEF Says
  <1>4. CASE PeerReads(q)
    <2>1. q \in Players
      BY <1>1, <1>4 DEF Playing, PeerReads
    <2> DEFINE p == Head(outbox[q])
               state == [peer[q] EXCEPT !.next = @ + 1, !.got = Append(@, p.data),
                                        !.st = IF p.data.len < Blocksize(q) THEN "done" ELSE @]
    <2>2. PeerSends(q, AckPacket(p.blockno), state)
      BY <1>4 DEF PeerReads
    <2>3. state = [state EXCEPT !.last = state.last] /\ "last" \in DOMAIN state
      BY <1>1 DEF PeerStates
    <2> HIDE DEF state
    <2>4. peer'[q].last = AckPacket(p.blockno)
      BY <1>1, <2>2, <2>3 DEF PeerSends
    <2> QED
      BY <2>1, <2>4 DEF Says, AckPacket
  <1>5. CASE PeerWrites(q)
    BY <1>1, <1>5 DEF Playing, PeerWrites, Negotiating
  <1>6. CASE PeerConfirms(q)
    <2>1. q \in Players
      BY <1>1, <1>6 DEF Playing, PeerConfirms
    <2>2. peer'[q].last = AckPacket(0)
      BY <1>1, <1>6 DEF PeerConfirms, PeerSends, PeerStates
    <2> QED
      BY <2>1, <2>2 DEF Says, AckPacket
  <1>7. CASE PeerGivesUp(q)
    BY <1>1, <1>7 DEF PeerGivesUp, PeerStates, Playing
  <1>8. CASE PeerIgnores(q)
    BY <1>8 DEF PeerIgnores
  <1>9. CASE PeerTimeout(q)
    <2>1. peer'[q].last = peer[q].last
      BY <1>1, <1>9 DEF PeerTimeout, PeerStates
    <2> QED
      BY <1>1, <1>9, <2>1 DEF PeerTimeout, Playing
  <1> QED
    BY <1>3, <1>4, <1>5, <1>6, <1>7, <1>8, <1>9 DEF PeerStep

\* A peer's step keeps the invariant.
LEMMA PeerKeepsN ==
    ASSUME SInv, NInv, Negotiating, NEW q \in Peers,
           PeerRequest(q) \/ PeerStep(q) \/ PeerTimeout(q)
    PROVE  NInv'
  <1>1. NetInv
    BY DEF SInv
  <1>2. PICK s \in PeerStates : Speaks(s) /\ PeerActs(q, s)
    BY <1>1, PeerGood
  <1>3. /\ peer' = [peer EXCEPT ![q] = s] /\ peer'[q] = s
        /\ inbox' = inbox \/ (SendTo(q, s.last) /\ s.last \in InPackets)
        /\ outbox' = outbox \/ PeerTakes(q)
        /\ UNCHANGED clientpool
    BY <1>1, <1>2 DEF PeerActs, vars, NetInv
  <1>4. ASSUME NEW r \in Peers PROVE Playing(r)'
    <2>1. Playing(r)
      BY DEF NInv
    <2>2. CASE r # q
      BY <1>3, <2>1, <2>2 DEF Playing
    <2>3. CASE r = q
      BY <1>3, <2>1, <2>3, PeerPlays DEF Playing
    <2> QED
      BY <2>2, <2>3
  <1>5. ASSUME NEW x \in Fd PROVE inbox'[x] \in Seq(LettersFrom(x))
    <2>1. inbox[x] \in Seq(LettersFrom(x)) /\ inbox \in [Fd -> Seq(Letters)]
      BY <1>1 DEF NInv, NetInv
    <2>2. CASE inbox' = inbox
      BY <2>1, <2>2
    <2>3. CASE inbox' # inbox
      <3> DEFINE m == [peer |-> q, pkt |-> s.last]
      <3>1. SendTo(q, s.last) /\ s.last \in InPackets /\ q \in Players /\ Says(q, s.last)
        BY <1>3, <2>3, PeerPlays
      <3>2. m \in LettersFrom(Plan[q].fd)
        BY <3>1 DEF LettersFrom, LettersTo, Letters
      <3>3. inbox' = [inbox EXCEPT ![Plan[q].fd] = Append(inbox[Plan[q].fd], m)]
        BY <3>1 DEF SendTo
      <3> HIDE DEF m
      <3>4. CASE x = Plan[q].fd
        BY <2>1, <3>2, <3>3, <3>4, AppendProperties
      <3>5. CASE x # Plan[q].fd
        BY <2>1, <3>3, <3>5
      <3> QED
        BY <3>4, <3>5
    <2> QED
      BY <2>2, <2>3
  <1>6. ASSUME NEW r \in Peers PROVE outbox'[r] \in Seq(ExactPackets(r))
    <2>1. outbox[r] \in Seq(ExactPackets(r)) /\ outbox \in [Peers -> Seq(OutPackets)]
      BY <1>1 DEF NInv, NetInv
    <2>2. Moves(outbox[r], outbox'[r])
      BY <1>3, <2>1 DEF PeerTakes, Moves
    <2> QED
      BY <2>1, <2>2, MovesKeep
  <1> QED
    BY <1>3, <1>4, <1>5, <1>6 DEF NInv

\* So does the network's.
LEMMA NetworkKeepsN ==
    ASSUME SInv, NInv, Network
    PROVE  NInv'
  <1>1. NetInv
    BY DEF SInv
  <1>2. UNCHANGED <<clientpool, peer>>
    BY DEF Network, LoseRequest, LoseReply, DuplicateRequest, DuplicateReply, vars
  <1>3. ASSUME NEW x \in Fd PROVE Moves(inbox[x], inbox'[x])
    BY <1>1 DEF Network, LoseRequest, LoseReply, DuplicateRequest, DuplicateReply, Moves, NetInv
  <1>4. ASSUME NEW r \in Peers PROVE Moves(outbox[r], outbox'[r])
    BY <1>1 DEF Network, LoseRequest, LoseReply, DuplicateRequest, DuplicateReply, Moves, NetInv
  <1>5. \A x \in Fd : inbox'[x] \in Seq(LettersFrom(x))
    BY <1>3, MovesKeep DEF NInv
  <1>6. \A r \in Peers : outbox'[r] \in Seq(ExactPackets(r))
    BY <1>4, MovesKeep DEF NInv
  <1>7. \A r \in Peers : Playing(r)'
    BY <1>2 DEF NInv, Playing
  <1> QED
    BY <1>2, <1>5, <1>6, <1>7 DEF NInv

\* So does the server's; and it survives, if those files can be opened.
LEMMA ServerKeepsN ==
    ASSUME SInv, NInv, Negotiating, ServerStep
    PROVE  NInv' /\ (AllOpen /\ AllFit /\ alive => alive')
  <1>1. NetInv /\ PInv /\ IInv /\ ev.fd \in Fd /\ clientpool \in Seq(Clients) /\ Len(clientpool) \in Nat
    BY LenProperties DEF SInv, PInv, LInv, IInv, TypeOK
  <1>2. CASE Idle
    <2>1. UNCHANGED nvars
      BY <1>2 DEF Idle
    <2>2. UNCHANGED <<clientpool, alive>>
      <3>1. ASSUME NEW due \in BOOLEAN, CheckClient(due) PROVE UNCHANGED <<clientpool, alive>>
        <4>1. UNCHANGED clientpool
          BY <1>1, <3>1, CheckChangesNothing
        <4>2. UNCHANGED alive
          BY <3>1 DEF CheckClient
        <4> QED
          BY <4>1, <4>2
      <3> QED
        BY <1>2, <3>1 DEF Idle, CheckedClients, SentPackets, ReceiveNothing, EpollTimeout, EpollEvent
    <2> QED
      BY <2>1, <2>2 DEF NInv, nvars, Playing
  <1>3. CASE Deliver
    <2> DEFINE m == Head(inbox[ev.fd])
    <2>1. /\ inbox[ev.fd] # <<>> /\ inbox' = [inbox EXCEPT ![ev.fd] = Tail(inbox[ev.fd])]
          /\ UNCHANGED <<outbox, peer>> /\ Receive(Plan[m.peer].src, m.pkt)
      BY <1>3 DEF Deliver
    <2>2. m \in LettersFrom(ev.fd)
      <3>1. inbox[ev.fd] \in Seq(LettersFrom(ev.fd))
        BY <1>1 DEF NInv
      <3> QED
        BY <2>1, <3>1, HeadTailProperties
    <2> HIDE DEF m
    <2>3. /\ m.peer \in Players /\ Plan[m.peer].fd = ev.fd
          /\ m.pkt \in InPackets /\ Says(m.peer, m.pkt)
      BY <2>2 DEF LettersFrom, LettersTo, Letters
    <2>4. clientpool' \in Seq(Served) /\ (Harmless(m.peer) => alive')
      BY <2>1, <2>3, ReceiveServes
    <2>5. ASSUME NEW x \in Fd PROVE inbox'[x] \in Seq(LettersFrom(x))
      <3>1. Moves(inbox[x], inbox'[x])
        BY <1>1, <2>1 DEF Moves, NetInv
      <3> QED
        BY <3>1, MovesKeep DEF NInv
    <2>6. NInv'
      BY <2>1, <2>4, <2>5 DEF NInv, Playing
    <2>7. AllOpen /\ AllFit => alive'
      BY <2>3, <2>4 DEF AllOpen, AllFit, Harmless
    <2> QED
      BY <2>6, <2>7
  <1>4. CASE Transmit
    <2> DEFINE c == clientpool[cidx]
               d == [c EXCEPT !.queue = <<>>]
    <2>1. UNCHANGED <<inbox, peer>> /\ alive' \in SendSurvival(c.queue) /\ SendClient
      BY <1>4 DEF Transmit, SendClient
    <2>2. cidx \in 1..Len(clientpool)
      BY <1>1, <2>1 DEF IInv, TypeOK, SendClient
    <2>3. c \in Served /\ c \in Clients /\ c.queue \in Seq(OutPackets)
      <3>1. c \in Served
        BY <2>2, ElementOfSeq DEF NInv
      <3> QED
        BY <3>1 DEF Served, Clients
    <2>4. PICK q \in Players : Serving(q, c)
      BY <2>3 DEF Served
    <2>5. d \in Served
      <3>1. /\ d \in Clients /\ d.queue = <<>> /\ d.fd = c.fd /\ d.src = c.src /\ d.f = c.f
            /\ d.blk = c.blk /\ d.blksize = c.blksize /\ d.sendingfile = c.sendingfile
            /\ d.actualblockno = c.actualblockno
        BY <2>3, EmptySeq DEF Clients
      <3>2. d.queue \in Seq(ExactPackets(q))
        BY <3>1, EmptySeq
      <3> HIDE DEF d
      <3>3. Serving(q, d)
        BY <2>4, <3>1, <3>2 DEF Serving
      <3> QED
        BY <3>1, <3>3 DEF Served
    <2>6. clientpool' \in Seq(Served)
      <3>1. clientpool' = clientpool \/ clientpool' = [clientpool EXCEPT ![cidx] = d]
        BY <2>1 DEF SendClient
      <3> HIDE DEF d
      <3>2. clientpool \in Seq(Served)
        BY DEF NInv
      <3>3. [clientpool EXCEPT ![cidx] = d] \in Seq(Served)
        BY <2>2, <2>5, <3>2, ExceptSeq
      <3> QED
        BY <3>1, <3>2, <3>3
    <2>7. outbox' = [r \in Peers |-> IF Plan[r].fd = c.fd /\ Plan[r].src = c.src
                                     THEN outbox[r] \o c.queue ELSE outbox[r]]
      BY <1>4 DEF Transmit
    <2> HIDE DEF c
    <2>8. ASSUME NEW r \in Peers PROVE outbox'[r] \in Seq(ExactPackets(r))
      <3>1. outbox[r] \in Seq(ExactPackets(r))
        BY DEF NInv
      <3>2. CASE Plan[r].fd = c.fd /\ Plan[r].src = c.src
        <4>1. q \in Peers
          BY PlanAssumption DEF Players
        <4>2. r = q
          BY <2>4, <3>2, <4>1, PlanAssumption DEF Serving
        <4>3. c.queue \in Seq(ExactPackets(r))
          BY <2>4, <4>2 DEF Serving
        <4> QED
          BY <2>7, <3>1, <3>2, <4>3, ConcatProperties
      <3>3. CASE ~(Plan[r].fd = c.fd /\ Plan[r].src = c.src)
        BY <2>7, <3>1, <3>3
      <3> QED
        BY <3>2, <3>3
    <2>9. NInv'
      BY <2>1, <2>6, <2>8 DEF NInv, Playing
    <2>10. alive'
      <3>1. Fresh(c)
        BY <1>1, <2>2 DEF PInv, NetInv, c
      <3>2. DOMAIN c.queue = 1..Len(c.queue)
        BY <2>3, LenProperties
      <3>3. FreedPacket \notin Range(c.queue)
        BY <3>1, <3>2 DEF Fresh, Range
      <3>4. alive' \in {TRUE}
        BY <2>1, <3>3 DEF SendSurvival
      <3> QED
        BY <3>4
    <2> QED
      BY <2>9, <2>10
  <1>5. CASE Reap
    <2>1. UNCHANGED <<nvars, alive>> /\ clientpool' = RemoveAt(clientpool, cidx)
      BY <1>5 DEF Reap, ReapClient, RemoveClient
    <2>2. cidx \in 1..Len(clientpool) /\ clientpool \in Seq(Served)
      BY <1>1, <1>5 DEF Reap, ReapClient, IInv, Reaping, NInv
    <2>3. clientpool' \in Seq(Served)
      BY <2>1, <2>2, RemoveAtProperties
    <2> QED
      BY <2>1, <2>3 DEF NInv, nvars, Playing
  <1> QED
    BY <1>2, <1>3, <1>4, <1>5 DEF ServerStep


\* At first nobody has said anything.
LEMMA InitNInv == SInit => NInv
  <1> SUFFICES ASSUME SInit PROVE NInv
    OBVIOUS
  <1>1. clientpool = <<>> /\ inbox = [fd \in Fd |-> <<>>] /\ outbox = [q \in Peers |-> <<>>]
    BY DEF SInit, Init
  <1>2. PICK cast \in Casts : peer = [q \in Peers |-> PeerInit(IF q \in cast THEN "start" ELSE "absent")]
    BY DEF SInit
  <1>3. ASSUME NEW q \in Peers PROVE Playing(q)
    <2>1. cast \subseteq Players
      BY DEF Players
    <2>2. peer[q].st = IF q \in cast THEN "start" ELSE "absent"
      BY <1>2 DEF PeerInit
    <2> QED
      BY <2>1, <2>2 DEF Playing
  <1> QED
    BY <1>1, <1>3, EmptySeq DEF NInv

\* Every step keeps the invariant.
LEMMA NextNInv ==
    ASSUME SInv, NInv, Negotiating, [SNext]_svars
    PROVE  NInv' /\ (AllOpen /\ AllFit /\ alive => alive')
  <1>1. CASE ServerStep
    BY <1>1, ServerKeepsN
  <1>2. ASSUME NEW q \in Peers, PeerRequest(q) \/ PeerStep(q) \/ PeerTimeout(q)
        PROVE  NInv' /\ alive' = alive
    <2>1. PICK s \in PeerStates : PeerActs(q, s)
      BY <1>2, PeerGood DEF SInv
    <2>2. alive' = alive
      BY <2>1 DEF PeerActs, vars
    <2> QED
      BY <1>2, <2>2, PeerKeepsN
  <1>3. CASE Network
    <2>1. alive' = alive
      BY <1>3 DEF Network, LoseRequest, LoseReply, DuplicateRequest, DuplicateReply, vars
    <2> QED
      BY <1>3, <2>1, NetworkKeepsN
  <1>4. CASE UNCHANGED svars
    <2>1. UNCHANGED <<clientpool, inbox, outbox, peer, alive>>
      BY <1>4 DEF svars, vars, nvars
    <2> QED
      BY <2>1 DEF NInv, Playing
  <1> QED
    BY <1>1, <1>2, <1>3, <1>4 DEF SNext

\* Hence it always holds.
LEMMA NegotiatingInvariance ==
    ASSUME Negotiating
    PROVE  SSpec => [](SInv /\ NInv)
  <1>1. SInit => SInv /\ NInv
    BY InitSInv, InitNInv
  <1>2. SInv /\ NInv /\ [SNext]_svars => (SInv /\ NInv)'
    BY NextSInv, NextNInv
  <1> QED
    BY <1>1, <1>2, PTL DEF SSpec

-----------------------------------------------------------------------------
\* How often a block fits.
LEMMA QuotientBounds ==
    ASSUME NEW L \in Nat, NEW B \in Nat, 0 < B, NEW m \in Nat, m * B <= L
    PROVE  m <= L \div B
  <1> DEFINE d == L \div B
             r == L % B
  <1>1. d \in Nat /\ r \in Nat /\ r < B /\ L = d * B + r
    BY SMT
  <1> HIDE DEF d, r
  <1>2. SUFFICES ASSUME m >= d + 1 PROVE FALSE
    BY <1>1 DEF d
  <1>3. m * B >= (d + 1) * B
    BY <1>1, <1>2, SMT
  <1>4. (d + 1) * B = d * B + B /\ d * B \in Nat /\ m * B \in Nat
    BY <1>1, SMT
  <1> QED
    BY <1>1, <1>3, <1>4

\* Blocks within the file are those a reader counts; behind it they are empty.
LEMMA BlockIsFileBlock ==
    ASSUME NEW q \in Players, Negotiating, ~BadBlksize(Plan[q].req), NEW n \in Nat, 0 < n
    PROVE  /\ (n - 1) * Blocksize(q) <= FileLen(q) =>
                 /\ n \in 1..FinalBlock(q) /\ BlockAt(q, n) = FileBlock(q, n)
                 /\ BlockAt(q, n).len >= Blocksize(q) => n * Blocksize(q) <= FileLen(q)
           /\ ~((n - 1) * Blocksize(q) <= FileLen(q)) => BlockAt(q, n).len = 0
  <1> DEFINE B == Blocksize(q)
             L == FileLen(q)
             m == n - 1
             off == m * B
  <1>1. m \in Nat /\ m + 1 = n
    OBVIOUS
  <1>2. B \in Nat /\ B >= 8 /\ L \in Nat
    BY UptoSteps
  <1>3. off \in Nat /\ n * B = off + B
    BY <1>1, <1>2, SMT
  <1>4. /\ Upto(q, m) = IF off <= L THEN off ELSE L
        /\ Upto(q, n) = IF off + B <= L THEN off + B ELSE L
    BY <1>1, <1>3 DEF Upto
  <1>5. BlockAt(q, n) = Chunk(Plan[q].req.file, Upto(q, m), Upto(q, n) - Upto(q, m))
    BY DEF BlockAt
  <1>6. BlockAt(q, n).len = Upto(q, n) - Upto(q, m)
    BY <1>5 DEF Chunk
  <1>7. FileBlock(q, n) = Chunk(Plan[q].req.file, off, IF off + B <= L THEN B ELSE L - off)
    BY DEF FileBlock
  <1>8. CASE off <= L
    <2>1. m <= L \div B /\ L \div B \in Nat
      <3>1. L \div B \in Nat
        BY <1>2, SMT
      <3> HIDE DEF B, L, m
      <3> QED
        BY <1>1, <1>2, <1>8, <3>1, QuotientBounds
    <2>2. n \in 1..FinalBlock(q)
      BY <1>1, <2>1 DEF FinalBlock
    <2> HIDE DEF B, L, off, m
    <2>3. Upto(q, m) = off /\ Upto(q, n) - off = IF off + B <= L THEN B ELSE L - off
      BY <1>2, <1>3, <1>4, <1>8
    <2>4. BlockAt(q, n) = FileBlock(q, n)
      BY <1>5, <1>7, <2>3
    <2>5. BlockAt(q, n).len >= B => n * B <= L
      BY <1>2, <1>3, <1>6, <1>8, <2>3
    <2> QED
      BY <1>8, <2>2, <2>4, <2>5 DEF B, L, off, m
  <1>9. CASE ~(off <= L)
    <2> HIDE DEF B, L, off, m
    <2>1. Upto(q, m) = L /\ Upto(q, n) = L
      BY <1>2, <1>3, <1>4, <1>9
    <2>2. BlockAt(q, n).len = 0
      BY <1>2, <1>6, <2>1
    <2> QED
      BY <1>9, <2>2 DEF B, L, off, m
  <1> QED
    BY <1>8, <1>9

(***************************************************************************)
(* Whatever the network loses or repeats and however often the readers     *)
(* retry, a DATA packet the server has queued for a reader with a blksize  *)
(* option carries the block its number says: OnAck moves position and      *)
(* block number together, and a repeated RRQ resets both.                  *)
(***************************************************************************)
THEOREM NumbersTellBlocks ==
    ASSUME Negotiating
    PROVE  SSpec => []BlocksLabelled
  <1>1. ASSUME SInv, NInv PROVE BlocksLabelled
    <2> SUFFICES ASSUME NEW q \in Peers, NEW i \in ClientOf(q), NEW j \in DOMAIN clientpool[i].queue
                 PROVE  Labelled(q, clientpool[i].queue[j])
      BY DEF BlocksLabelled
    <2> DEFINE c == clientpool[i]
               p == c.queue[j]
    <2>1. i \in 1..Len(clientpool) /\ c.fd = Plan[q].fd /\ c.src = Plan[q].src
      BY DEF ClientOf
    <2>2. c \in Served
      BY <1>1, <2>1, ElementOfSeq DEF NInv
    <2> HIDE DEF c
    <2>3. PICK r \in Players : Serving(r, c)
      BY <2>2 DEF Served
    <2>4. r = q
      <3>1. r \in Peers
        BY PlanAssumption DEF Players
      <3> QED
        BY <2>1, <2>3, <3>1, PlanAssumption DEF Serving
    <2>5. p \in ExactPackets(q)
      <3>1. c.queue \in Seq(ExactPackets(q))
        BY <2>3, <2>4 DEF Serving
      <3>2. j \in 1..Len(c.queue)
        BY <3>1, LenProperties DEF c
      <3> QED
        BY <3>1, <3>2, ElementOfSeq
    <2> HIDE DEF p
    <2>6. ASSUME p.op = "DATA"
          PROVE  \/ p.data.len = 0
                 \/ \E n \in 1..FinalBlock(q) : p.blockno = n % Modulus /\ p.data = FileBlock(q, n)
      <3>1. ~BadBlksize(Plan[q].req)
        BY <2>5, <2>6 DEF ExactPackets, Exact
      <3>2. PICK n \in 1..MaxBlock : p.blockno = n % Modulus /\ p.data = BlockAt(q, n)
        BY <2>5, <2>6 DEF ExactPackets, Exact
      <3>3. n \in Nat /\ 0 < n
        BY BoundsAssumption
      <3> QED
        BY <2>3, <2>4, <3>1, <3>2, <3>3, BlockIsFileBlock
    <2> QED
      BY <2>6 DEF Labelled, p, c
  <1>2. SSpec => [](SInv /\ NInv)
    BY NegotiatingInvariance
  <1> QED
    BY <1>1, <1>2, PTL

\* The server survives such readers, provided that the files they ask for can be
\* opened (the code goes on with a NULL FILE otherwise, until its ERROR is sent)
\* and that no answer quotes more than fits a packet (Error asserts that it fits).
THEOREM ServerSurvives ==
    ASSUME Negotiating, AllOpen, AllFit
    PROVE  SSpec => []StaysAlive
  <1>1. SInit => alive
    BY DEF SInit, Init
  <1>2. SInv /\ NInv /\ alive /\ [SNext]_svars => alive'
    BY NextNInv
  <1>3. SSpec => [](SInv /\ NInv)
    BY NegotiatingInvariance
  <1>4. SSpec => []alive
    BY <1>1, <1>2, <1>3, PTL DEF SSpec
  <1>5. alive => StaysAlive
    BY DEF StaysAlive
  <1> QED
    BY <1>4, <1>5, PTL


-----------------------------------------------------------------------------
\* Below the modulus a block number tells which block it is.
LEMMA NumberIsUnique ==
    ASSUME NEW n \in 1..MaxBlock, NEW next \in Nat, 0 < next, next <= MaxBlock + 1,
           MaxBlock < Modulus, n % Modulus = next % Modulus
    PROVE  n = next
  <1>1. Modulus \in Nat \ {0, 1} /\ MaxBlock \in Nat /\ n \in Nat /\ n \in 0..Modulus - 1
    BY BoundsAssumption
  <1>2. n % Modulus = n
    BY <1>1, ModUnique
  <1>3. CASE next < Modulus
    <2>1. next \in 0..Modulus - 1
      BY <1>1, <1>3
    <2>2. next % Modulus = next
      BY <1>1, <2>1, ModUnique
    <2> QED
      BY <1>2, <2>2
  <1>4. CASE ~(next < Modulus)
    <2>1. next = 1 * Modulus + 0 /\ 0 \in 0..Modulus - 1 /\ 1 \in Nat
      BY <1>1, <1>4
    <2>2. next % Modulus = 0
      BY <1>1, <2>1, ModUnique
    <2> QED
      BY <1>1, <1>2, <2>2
  <1> QED
    BY <1>3, <1>4

\* A reader that takes the block it waits for keeps the right one.
LEMMA ReadsKept ==
    ASSUME SInv, NInv, Negotiating, MaxBlock < Modulus, NEW q \in Peers, Kept(q), PeerReads(q)
    PROVE  Kept(q)'
  <1> DEFINE t == peer[q]
             p == Head(outbox[q])
             B == Blocksize(q)
             st == IF p.data.len < B THEN "done" ELSE t.st
             got == Append(t.got, p.data)
             s == peer'[q]
  <1>1. /\ peer \in [Peers -> PeerStates] /\ t \in PeerStates /\ t.next \in Nat /\ t.got \in Seq(Chunks)
        /\ outbox[q] \in Seq(ExactPackets(q)) /\ outbox[q] # <<>> /\ t.st = "active" /\ Len(t.got) \in Nat
    BY LenProperties DEF SInv, NetInv, NInv, PeerStates, PeerReads, PeerTakes
  <1>2. q \in Players
    BY <1>1 DEF NInv, Playing
  <1>3. p \in ExactPackets(q) /\ p.op = "DATA" /\ p.blockno = t.next % Modulus
    <2>1. p \in ExactPackets(q)
      BY <1>1, HeadTailProperties
    <2> QED
      BY <1>2, <2>1 DEF PeerReads, Wanted
  <1> HIDE DEF p
  <1>4. ~BadBlksize(Plan[q].req)
    BY <1>3 DEF ExactPackets, Exact
  <1>5. PICK n \in 1..MaxBlock : p.blockno = n % Modulus /\ p.data = BlockAt(q, n)
    BY <1>3 DEF ExactPackets, Exact
  <1>6. /\ t.next = Len(t.got) + 1 /\ (t.next - 1) * B <= FileLen(q) /\ t.next <= MaxBlock + 1
        /\ \A i \in 1..Len(t.got) : t.got[i] = FileBlock(q, i)
    BY <1>1 DEF Kept
  <1>7. n = t.next
    <2>1. 0 < t.next /\ n % Modulus = t.next % Modulus
      BY <1>1, <1>3, <1>5, <1>6
    <2> QED
      BY <1>1, <1>6, <2>1, NumberIsUnique
  <1>8. /\ p.data = FileBlock(q, t.next)
        /\ p.data.len >= B => t.next * B <= FileLen(q)
    <2>1. 0 < t.next
      BY <1>1, <1>6
    <2> QED
      BY <1>1, <1>2, <1>4, <1>5, <1>6, <1>7, <2>1, BlockIsFileBlock
  <1>9. s.got = got /\ s.next = t.next + 1 /\ s.st = st
    <2> DEFINE u == [t EXCEPT !.next = @ + 1, !.got = got, !.st = st]
    <2>1. PeerSends(q, AckPacket(p.blockno), u)
      BY DEF PeerReads, p
    <2> HIDE DEF got, st
    <2>2. peer' = [peer EXCEPT ![q] = [u EXCEPT !.last = AckPacket(p.blockno)]]
      BY <2>1 DEF PeerSends
    <2> QED
      BY <1>1, <2>2 DEF PeerStates
  <1>10. /\ Len(got) = Len(t.got) + 1 /\ got[Len(t.got) + 1] = p.data
         /\ \A i \in 1..Len(t.got) : got[i] = t.got[i]
    <2>1. p.data \in Chunks
      BY <1>3 DEF ExactPackets, OutPackets, FreedPacket
    <2> QED
      BY <1>1, <2>1, AppendProperties
  <1>11. ASSUME NEW i \in 1..Len(got) PROVE got[i] = FileBlock(q, i)
    <2>1. i \in 1..Len(t.got) \/ i = Len(t.got) + 1
      BY <1>1, <1>10
    <2> HIDE DEF got
    <2> QED
      BY <1>6, <1>8, <1>10, <2>1
  <1> HIDE DEF got
  <1>12. ASSUME st = "active"
         PROVE  /\ s.next = Len(got) + 1 /\ (s.next - 1) * B <= FileLen(q) /\ s.next <= MaxBlock + 1
    <2>1. p.data.len >= B
      <3>1. B \in Nat
        BY <1>2, <1>4, UptoSteps
      <3>2. p.data.len \in Nat
        BY <1>3 DEF ExactPackets, OutPackets, FreedPacket, Chunks
      <3>3. ~(p.data.len < B)
        BY <1>12
      <3> QED
        BY <3>1, <3>2, <3>3
    <2>2. t.next <= MaxBlock /\ MaxBlock \in Nat
      BY <1>7, BoundsAssumption
    <2>3. s.next - 1 = t.next
      BY <1>1, <1>9
    <2> QED
      BY <1>1, <1>6, <1>8, <1>9, <1>10, <2>1, <2>2, <2>3
  <1>13. st \in {"done", "active"}
    BY <1>1
  <1> HIDE DEF st, B
  <1> QED
    BY <1>9, <1>11, <1>12, <1>13 DEF Kept, B

\* The other steps of a peer leave alone what it has kept.
LEMMA PeerKeepsK ==
    ASSUME SInv, NInv, KInv, Negotiating, MaxBlock < Modulus, NEW q \in Peers,
           PeerRequest(q) \/ PeerStep(q) \/ PeerTimeout(q)
    PROVE  KInv'
  <1>1. NetInv /\ peer \in [Peers -> PeerStates] /\ peer[q] \in PeerStates /\ Kept(q) /\ Playing(q)
    BY DEF SInv, NetInv, NInv, KInv
  <1>2. PICK s \in PeerStates : PeerActs(q, s)
    BY <1>1, PeerGood
  <1>3. \A r \in Peers \ {q} : peer'[r] = peer[r]
    BY <1>1, <1>2 DEF PeerActs
  <1>4. Kept(q)'
    <2>1. CASE PeerRequest(q)
      <3>1. peer[q].st = "start" /\ peer[q].got = <<>>
        BY <1>1, <2>1 DEF PeerRequest, Kept
      <3>2. q \in Players /\ Reads(q)
        BY <1>1, <3>1 DEF Playing, Negotiating
      <3>3. peer'[q].st = "active" /\ peer'[q].got = <<>> /\ peer'[q].next = 1
        BY <1>1, <2>1, <3>1, <3>2 DEF PeerRequest, PeerSends, PeerStates
      <3>4. (1 - 1) * Blocksize(q) <= FileLen(q) /\ 1 <= MaxBlock + 1 /\ 1 = Len(<<>>) + 1
        <4>1. q \in Peers /\ Plan[q].req \in Requests
          BY PlanAssumption
        <4>2. Blocksize(q) \in Int
          BY <3>2, <4>1 DEF Blocksize, Requests, DEFAULT_BLKSIZE
        <4>3. FileLen(q) \in Nat
          BY <3>2, <4>1, FileAssumption DEF FileLen, Readable, Requests
        <4>4. (1 - 1) * Blocksize(q) = 0
          BY <4>2, SMT
        <4> QED
          BY <4>3, <4>4, BoundsAssumption
      <3> QED
        BY <3>3, <3>4 DEF Kept
    <2>2. CASE PeerReads(q)
      BY <1>1, <2>2, ReadsKept
    <2>3. CASE PeerWrites(q)
      BY <1>1, <2>3 DEF Playing, PeerWrites, Negotiating
    <2>4. ASSUME peer'[q].got = peer[q].got, peer'[q].next = peer[q].next,
                 peer'[q].st = peer[q].st \/ peer'[q].st = "refused"
          PROVE  Kept(q)'
      BY <1>1, <2>4 DEF Kept
    <2>5. CASE PeerConfirms(q)
      <3>1. /\ peer'[q].got = peer[q].got /\ peer'[q].next = peer[q].next
            /\ peer'[q].st = peer[q].st
        BY <1>1, <2>5 DEF PeerConfirms, PeerSends, PeerStates
      <3> QED
        BY <2>4, <3>1
    <2>6. CASE PeerGivesUp(q)
      <3>1. /\ peer'[q].got = peer[q].got /\ peer'[q].next = peer[q].next
            /\ peer'[q].st = "refused"
        BY <1>1, <2>6 DEF PeerGivesUp, PeerStates
      <3> QED
        BY <2>4, <3>1
    <2>7. CASE PeerIgnores(q)
      BY <2>4, <2>7 DEF PeerIgnores
    <2>8. CASE PeerTimeout(q)
      <3>1. /\ peer'[q].got = peer[q].got /\ peer'[q].next = peer[q].next
            /\ peer'[q].st = peer[q].st
        BY <1>1, <2>8 DEF PeerTimeout, PeerStates
      <3> QED
        BY <2>4, <3>1
    <2> QED
      BY <2>1, <2>2, <2>3, <2>5, <2>6, <2>7, <2>8 DEF PeerStep
  <1>5. ASSUME NEW r \in Peers PROVE Kept(r)'
    <2>1. CASE r = q
      BY <1>4, <2>1
    <2>2. CASE r # q
      BY <1>3, <2>2 DEF KInv, Kept
    <2> QED
      BY <2>1, <2>2
  <1> QED
    BY <1>5 DEF KInv

\* Every step keeps it: only peers change what peers have.
LEMMA NextKInv ==
    ASSUME SInv, NInv, KInv, Negotiating, MaxBlock < Modulus, [SNext]_svars
    PROVE  KInv'
  <1>1. ASSUME UNCHANGED peer PROVE KInv'
    BY <1>1 DEF KInv, Kept
  <1>2. CASE ServerStep
    BY <1>1, <1>2 DEF ServerStep, Idle, Deliver, Transmit, Reap, nvars
  <1>3. ASSUME NEW q \in Peers, PeerRequest(q) \/ PeerStep(q) \/ PeerTimeout(q) PROVE KInv'
    BY <1>3, PeerKeepsK
  <1>4. CASE Network
    BY <1>1, <1>4 DEF Network, LoseRequest, LoseReply, DuplicateRequest, DuplicateReply
  <1>5. CASE UNCHANGED svars
    BY <1>1, <1>5 DEF svars, nvars
  <1> QED
    BY <1>2, <1>3, <1>4, <1>5 DEF SNext

(***************************************************************************)
(* What a reader with a blksize option has received is always a prefix of  *)
(* the file, block by block, whatever was lost, repeated or retried, as    *)
(* long as the block number does not wrap round: the server ignores block  *)
(* numbers, but the reader does not.                                       *)
(***************************************************************************)
THEOREM ReadersReceiveInOrder ==
    ASSUME Negotiating, MaxBlock < Modulus
    PROVE  SSpec => []ReceivedInOrder
  <1>1. SInit => KInv
    <2> SUFFICES ASSUME SInit, NEW q \in Peers PROVE Kept(q)
      BY DEF KInv
    <2>1. PICK cast \in Casts : peer = [r \in Peers |-> PeerInit(IF r \in cast THEN "start" ELSE "absent")]
      BY DEF SInit
    <2>2. peer[q].got = <<>> /\ peer[q].st \in {"start", "absent"}
      BY <2>1 DEF PeerInit
    <2> QED
      BY <2>2 DEF Kept
  <1>2. SInv /\ NInv /\ KInv /\ [SNext]_svars => KInv'
    BY NextKInv
  <1>3. SSpec => [](SInv /\ NInv)
    BY NegotiatingInvariance
  <1>4. ASSUME SInv, NInv, KInv PROVE ReceivedInOrder
    <2> SUFFICES ASSUME NEW q \in Peers, NEW i \in DOMAIN Received(q)
                 PROVE  Received(q)[i] = FileBlock(q, i)
      BY DEF ReceivedInOrder
    <2>1. peer[q].got \in Seq(Chunks) /\ Playing(q) /\ Kept(q)
      BY <1>4 DEF SInv, NetInv, NInv, KInv, PeerStates
    <2>2. Received(q) = peer[q].got
      BY <2>1 DEF Received, Playing, Negotiating
    <2>3. i \in 1..Len(peer[q].got)
      BY <2>1, <2>2, LenProperties
    <2> QED
      BY <2>1, <2>2, <2>3 DEF Kept
  <1> QED
    BY <1>1, <1>2, <1>3, <1>4, PTL DEF SSpec


=============================================================================
