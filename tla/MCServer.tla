------------------------------ MODULE MCServer ------------------------------
(* Instances of Server for TLC. *)
EXTENDS Server

McFile == {"small", "dir", "missing", "locked", "long"}
McKind == [small |-> "regular", dir |-> "directory", missing |-> "absent",
           locked |-> "denied", long |-> "directory"]
McSize == [small |-> 10, dir |-> 0, missing |-> 0, locked |-> 0, long |-> 0]

\* Stands for the values whose text has hundreds of digits.
Huge == 1000000000

OneListener  == <<3>>
TwoListeners == <<3, 4>>

\* Ports that GetPort narrows to negative shorts.
BothPorts == {40000, UnmatchablePort}

Rrq(f, opt, val) == [op |-> "RRQ", file |-> f, mode |-> "octet", opt |-> opt, val |-> val]
Wrq(f) == [op |-> "WRQ", file |-> f, mode |-> "octet", opt |-> "none", val |-> 0]
Ack == [op |-> "ACK", blockno |-> 0]
Abort == [op |-> "ERROR"]

\* Every branch of ProcessPacket.
AllKinds ==
    {Rrq("small", "none", 0), Rrq("small", "blksize", 8), Rrq("small", "blksize", 7),
     Rrq("small", "blksize", 1024), Rrq("small", "blksize", Huge), Rrq("long", "none", 0), Rrq("small", "tsize", 0),
     Rrq("dir", "none", 0), Rrq("missing", "blksize", 8), Rrq("locked", "timeout", 1),
     [Rrq("small", "none", 0) EXCEPT !.mode = "mail"],
     Wrq("missing"), Wrq("dir"), Wrq("locked"),
     [Wrq("missing") EXCEPT !.mode = "mail"],
     [op |-> "DATA", blockno |-> 1, data |-> Chunk("missing", 0, 512)],
     [op |-> "DATA", blockno |-> 2, data |-> Chunk("missing", 512, 3)],
     Ack, Abort, [op |-> "RUNT"]}

\* Enough to create, serve and destroy clients.
FewKinds == {Rrq("small", "none", 0), Ack, Abort}
=============================================================================
