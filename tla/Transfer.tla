------------------------------ MODULE Transfer ------------------------------
(***************************************************************************)
(* What a TFTP server promises each of its peers: the bytes of the file    *)
(* arrive in order, a block at a time and each exactly once, up to and     *)
(* including the block that is shorter than the block size; or the         *)
(* transfer is refused before its first byte.                              *)
(***************************************************************************)
EXTENDS Naturals

CONSTANTS
    Peers,
    Block,      \* [Peers -> Nat]: block size in bytes
    Length      \* [Peers -> Nat]: length in bytes of the file transferred

VARIABLES
    have,       \* [Peers -> Nat]: bytes that arrived
    status      \* [Peers -> {"absent", "active", "done", "refused"}]

tvars == <<have, status>>

NextLen(q) ==
    IF Length[q] - have[q] < Block[q] THEN Length[q] - have[q] ELSE Block[q]

TInit ==
    /\ have = [q \in Peers |-> 0]
    /\ status \in [Peers -> {"absent", "active"}]

Arrive(q) ==
    /\ status[q] = "active"
    /\ have' = [have EXCEPT ![q] = @ + NextLen(q)]
    /\ status' = IF NextLen(q) < Block[q] THEN [status EXCEPT ![q] = "done"] ELSE status

Refuse(q) ==
    /\ status[q] = "active" /\ have[q] = 0
    /\ status' = [status EXCEPT ![q] = "refused"]
    /\ UNCHANGED have

TNext == \E q \in Peers : Arrive(q) \/ Refuse(q)

TSafety == TInit /\ [][TNext]_tvars
TFairness == \A q \in Peers : WF_tvars(Arrive(q))

TSpec == TSafety /\ TFairness

=============================================================================
