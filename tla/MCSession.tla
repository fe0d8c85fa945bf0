----------------------------- MODULE MCSession ------------------------------
(* Instances of Session for TLC. *)
EXTENDS Session

McFile == {"empty", "half", "even", "odd", "new", "dir", "missing", "locked", "long"}
McKind == [empty |-> "regular", half |-> "regular", even |-> "regular",
           odd |-> "regular", new |-> "absent", dir |-> "directory",
           missing |-> "absent", locked |-> "denied", long |-> "absent"]
McSize == [empty |-> 0, half |-> 100, even |-> 512, odd |-> 1030,
           new |-> 0, dir |-> 0, missing |-> 0, locked |-> 0, long |-> 0]
OneListener == <<3>>

\* Stands for the values whose text has hundreds of digits.
Huge == 1000000000

Asks(port, op, f, mode, opt, val, size) ==
    [fd |-> 3, src |-> [addr |-> "a", port |-> port], size |-> size,
     req |-> [op |-> op, file |-> f, mode |-> mode, opt |-> opt, val |-> val]]

AsksRead(port, f, opt, val) == Asks(port, "RRQ", f, "octet", opt, val, 0)
AsksWrite(port, f, size)    == Asks(port, "WRQ", f, "octet", "none", 0, size)

McPlan ==
    [r_empty   |-> AsksRead(1024, "empty", "none", 0),
     r_half    |-> AsksRead(1025, "half", "timeout", 3),
     r_even    |-> AsksRead(1026, "even", "none", 0),
     r_odd     |-> AsksRead(1027, "odd", "none", 0),
     r_blk     |-> AsksRead(1028, "odd", "blksize", 1024),
     r_blkeven |-> AsksRead(1029, "even", "blksize", 256),
     r_badblk  |-> AsksRead(1030, "odd", "blksize", 7),
     r_missing |-> AsksRead(1031, "missing", "blksize", 8),
     r_dir     |-> AsksRead(1032, "dir", "none", 0),
     r_locked  |-> AsksRead(1033, "locked", "none", 0),
     r_mail    |-> Asks(1034, "RRQ", "odd", "mail", "none", 0, 0),
     w_empty   |-> AsksWrite(1035, "new", 0),
     w_even    |-> AsksWrite(1036, "new", 1024),
     w_over    |-> AsksWrite(1037, "odd", 700),
     w_dir     |-> AsksWrite(1038, "dir", 700),
     w_locked  |-> AsksWrite(1039, "locked", 700),
     w_mail    |-> Asks(1040, "WRQ", "new", "mail", "none", 0, 700),
     r_long    |-> AsksRead(1041, "long", "none", 0),
     r_huge    |-> AsksRead(1042, "odd", "blksize", Huge)]

McPeers == DOMAIN McPlan
McPort  == {McPlan[q].src.port : q \in McPeers}

\* Those whose refusal does not fit an ERROR packet.
LongWinded == {{"r_long"}, {"r_huge"}}

\* Everyone else alone.
Alone == {{q} : q \in McPeers} \ LongWinded

\* Two at a time: readers and writers of different files, and requests the
\* server refuses.
Pairs == {{"r_even", "w_even"}, {"r_half", "r_blk"}, {"r_odd", "r_missing"},
          {"w_over", "w_empty"}, {"r_dir", "w_even"}}
Transfers == Alone \union Pairs

\* Readers that negotiate a block size: their repeated requests start over.
Negotiators == {{"r_blk"}, {"r_blkeven"}}

\* They meet the conditions of the theorems about negotiating readers.
ASSUME NegotiatorsQualify ==
    Casts = Negotiators => Negotiating /\ AllOpen /\ AllFit /\ MaxBlock < Modulus

\* Those of Transfers meet the conditions of the theorems about lock step.
ASSUME TransfersQualify ==
    Casts = Transfers => Reliable /\ Separate /\ AllFit /\ StrayRead = {TRUE}

OneReader == {{"r_odd"}}
=============================================================================
